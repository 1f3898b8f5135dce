---------------------------- MODULE StatusReader ----------------------------
(* The feedback of the robot base: TuwSpikeSystemInterface::read() and the   *)
(* end of on_configure()                                                     *)
(* (tuw_spike_control/src/tuw_spike_control_interface.cpp).  The Build HAT   *)
(* sends status lines "P<n>C0: <speed> <pos> <apos>".  Both functions take   *)
(* what has arrived in chunks of a fixed buffer and parse the lines of each  *)
(* chunk; on_configure() keeps the positions as the zero of each wheel, and  *)
(* read() updates the state interfaces of the two wheels.                    *)
(*                                                                           *)
(* Characters are abstracted to cells: a line is its head, two numbers, and  *)
(* an end (the third number and the newline).  A chunk may begin and end     *)
(* between any two cells; of a cut inside of a number, which makes a number  *)
(* that no line has carried, only the worst is kept: it may not fit into an  *)
(* int (ParseThrows).  A number is known by the line it comes from; the      *)
(* units are left out.                                                       *)
EXTENDS Integers, Sequences

CONSTANTS
    BufSize,     \* cells in the buffer (128 characters in the program)
    Reverse,     \* the joints' "reverse" parameter
    MaxConfigures, \* bound: calls of on_configure()
    MaxTick,     \* bound: lines the HAT sends
    MaxPending   \* bound: cells that wait in the serial driver

ASSUME BufSizeAssumption == BufSize \in Nat \ {0}
ASSUME MaxConfiguresAssumption == MaxConfigures \in Nat
ASSUME MaxTickAssumption == MaxTick \in Nat
ASSUME MaxPendingAssumption == MaxPending \in Nat

Wheels == {"left", "right"}
Ticks == 0 .. MaxTick

ASSUME ReverseAssumption == Reverse \in [Wheels -> BOOLEAN]

VARIABLES
    tick,       \* lines sent so far: the HAT's clock
    serial,     \* cells that have been sent and not been read
    call,       \* the function that runs or ran last: "configure" or "read"
    pc,         \* "idle", "reading" (the while loop) or "update" (after it)
    buffer,     \* its local buffer
    speed,      \* left_wheel_speed and right_wheel_speed
    apos,       \* left_wheel_apos and right_wheel_apos
    offset,     \* left_wheel_offset and right_wheel_offset, with their signs
    state_motor_velocity,
    state_motor_position,  \* a reported position, and the zero it is relative to
    ready,      \* has on_configure() returned, and nothing thrown since?
    chunks,     \* ghost: chunks taken by this call
    configures, \* ghost: calls of on_configure()
    measured    \* ghost: wheels whose zero the last on_configure() has read,
                \* in one chunk

localVars == <<buffer, speed, apos, chunks>>
configVars == <<offset, ready, configures, measured>>
stateVars == <<state_motor_velocity, state_motor_position>>
vars == <<tick, serial, call, pc, localVars, configVars, stateVars>>

-----------------------------------------------------------------------------
Cell(kind, w, t) == [kind |-> kind, wheel |-> w, tick |-> t]
Cells == [kind : {"head", "speed", "pos", "end"}, wheel : Wheels, tick : Ticks]

Zero == Cell("zero", "none", 0)          \* 0, or '\0' in the buffer
Unread == Cell("INT32_MAX", "none", 0)   \* stands for "no value read"

(* The value of a position cell, negated or not, and a position relative to  *)
(* such a value.                                                             *)
Offset(cell, negated) == [cell |-> cell, negated |-> negated]
Position(cell, zero) == [cell |-> cell, zero |-> zero]

Line(w, t) == <<Cell("head", w, t), Cell("speed", w, t), Cell("pos", w, t),
                Cell("end", w, t)>>

(* The line of text that the end cell at position e closes: from Start(b, e) *)
(* to e - 1.                                                                 *)
Ends(b) == {e \in 1 .. BufSize : b[e].kind = "end"}
Start(b, e) ==
    CHOOSE s \in 1 .. e :
        /\ s = 1 \/ b[s - 1].kind = "end"
        /\ \A i \in s .. e - 1 : b[i].kind # "end"

(* It has three spaces and begins with the name of the wheel's port.         *)
Names(b, e, w) ==
    LET s == Start(b, e) IN
    /\ e - s >= 3
    /\ b[s].kind = "head" /\ b[s].wheel = w

(* std::stoi refuses a head with std::invalid_argument, which is caught; the *)
(* value is then left as it was.                                             *)
Number(cell) == cell.kind \in {"speed", "pos"}

(* Slip: parsing stops at the first line of a wheel.                         *)
Parsed_First(b, w, k, old) ==
    LET lines == {e \in Ends(b) : Names(b, e, w) /\ Number(b[Start(b, e) + k])}
    IN IF lines = {} THEN old
       ELSE LET first == CHOOSE e \in lines : \A f \in lines : e <= f
            IN b[Start(b, first) + k]

(* The value that parsing b leaves in field k (1: speed, 2: position) of     *)
(* wheel w: that of the last line with a number there, or else the old one.  *)
Parsed(b, w, k, old) ==
    LET lines == {e \in Ends(b) : Names(b, e, w) /\ Number(b[Start(b, e) + k])}
    IN IF lines = {} THEN old
       ELSE LET last == CHOOSE e \in lines : \A f \in lines : f <= e
            IN b[Start(b, last) + k]

-----------------------------------------------------------------------------
Init ==
    /\ tick = 0
    /\ serial = <<>>
    /\ call = "configure"
    /\ pc = "idle"
    /\ buffer = [i \in 1 .. BufSize |-> Zero]
    /\ speed = [w \in Wheels |-> Unread]
    /\ apos = [w \in Wheels |-> Unread]
    /\ state_motor_velocity = [w \in Wheels |-> Zero]
    /\ state_motor_position = [w \in Wheels |-> Position(Zero, Offset(Zero, FALSE))]
    /\ offset = [w \in Wheels |-> Offset(Zero, FALSE)]
    /\ ready = FALSE
    /\ chunks = 0
    /\ configures = 0
    /\ measured = {}

(* The HAT reports a motor ("selrate 10" of on_configure).                   *)
HatReports(w) ==
    /\ tick < MaxTick
    /\ Len(serial) + 4 <= MaxPending
    /\ tick' = tick + 1
    /\ serial' = serial \o Line(w, tick')
    /\ UNCHANGED <<call, pc, localVars, configVars, stateVars>>

(* Slip: the buffer outlives the call, as a static or a member would.        *)
Begin_BufferKept(f) ==
    /\ pc = "idle"
    /\ call' = f
    /\ pc' = "reading"
    /\ speed' = [w \in Wheels |-> Unread]
    /\ apos' = [w \in Wheels |-> Unread]
    /\ chunks' = 0
    /\ UNCHANGED <<tick, buffer, stateVars>>

(* The loops of the two functions begin alike.                               *)
Begin(f) ==
    /\ pc = "idle"
    /\ call' = f
    /\ pc' = "reading"
    /\ buffer' = [i \in 1 .. BufSize |-> Zero]
    /\ speed' = [w \in Wheels |-> Unread]
    /\ apos' = [w \in Wheels |-> Unread]
    /\ chunks' = 0
    /\ UNCHANGED <<tick, stateVars>>

(* on_configure() has armed the HAT; what the driver held when the port was  *)
(* closed before that is gone.                                               *)
Configure ==
    /\ configures < MaxConfigures
    /\ Begin("configure")
    /\ serial' = IF configures = 0 THEN serial ELSE <<>>
    /\ configures' = configures + 1
    /\ ready' = FALSE
    /\ UNCHANGED <<offset, measured>>

Read == ready /\ Begin("read") /\ UNCHANGED <<serial, configVars>>

(* read_some() waits for at least one character and returns at most a        *)
(* buffer.                                                                   *)
Take(n) ==
    /\ pc = "reading"
    /\ n \in 1 .. BufSize /\ n <= Len(serial)
    /\ serial' = SubSeq(serial, n + 1, Len(serial))

(* The loop then parses the whole buffer, and goes on if it is full.         *)
ReadSome(n) ==
    /\ Take(n)
    /\ buffer' = [i \in 1 .. BufSize |-> IF i <= n THEN serial[i] ELSE buffer[i]]
    /\ speed' = [w \in Wheels |-> Parsed(buffer', w, 1, speed[w])]
    /\ apos' = [w \in Wheels |-> Parsed(buffer', w, 2, apos[w])]
    /\ pc' = IF n = BufSize THEN "reading" ELSE "update"
    /\ chunks' = chunks + 1
    /\ UNCHANGED <<tick, call, configVars, stateVars>>

(* An error is logged, nothing is parsed and the loop ends.                  *)
ReadError ==
    /\ pc = "reading"
    /\ pc' = "update"
    /\ UNCHANGED <<tick, serial, call, localVars, configVars, stateVars>>

(* A number that the end of a short chunk has cut runs on in the tail of an  *)
(* earlier one, and may not fit into an int.  The std::out_of_range of       *)
(* std::stoi is not caught: it leaves the call with the lines before that    *)
(* number parsed.  on_configure() has put their positions into the offsets   *)
(* already, without a sign; read() has changed nothing.  The component is    *)
(* not configured any more, or not yet.                                      *)
ParseThrows(n) ==
    /\ Take(n)
    /\ chunks > 0 /\ n < BufSize /\ Number(serial[n])
    /\ LET whole == [i \in 1 .. BufSize |-> IF i <= n THEN serial[i] ELSE Zero]
           read == [w \in Wheels |-> Parsed(whole, w, 2, apos[w])]
       IN offset' = [w \in Wheels |->
              IF call = "configure" /\ read[w] # Unread
              THEN Offset(read[w], FALSE) ELSE offset[w]]
    /\ measured' = IF call = "configure" THEN {} ELSE measured
    /\ pc' = "idle"
    /\ ready' = FALSE
    /\ UNCHANGED <<tick, call, localVars, configures, stateVars>>

(* on_configure() then turns the offset of a reversed wheel round, read anew *)
(* or not.                                                                   *)
UpdateOffsets ==
    /\ pc = "update" /\ call = "configure"
    /\ offset' = [w \in Wheels |->
           IF apos[w] # Unread THEN Offset(apos[w], Reverse[w])
           ELSE Offset(offset[w].cell, Reverse[w] # offset[w].negated)]
    /\ measured' = {w \in Wheels : apos[w] # Unread /\ chunks = 1}
    /\ pc' = "idle"
    /\ ready' = TRUE
    /\ UNCHANGED <<tick, serial, call, localVars, configures, stateVars>>

(* Slip: a wheel without a new speed gets the sentinel.                      *)
Update_Unconditional ==
    /\ pc = "update" /\ call = "read"
    /\ state_motor_velocity' = speed
    /\ state_motor_position' = [w \in Wheels |-> Position(apos[w], offset[w])]
    /\ pc' = "idle"
    /\ UNCHANGED <<tick, serial, call, localVars, configVars>>

(* read() updates the state of a wheel if its speed has been read; position  *)
(* and speed of a reversed wheel are turned round before, which is constant. *)
Update ==
    /\ pc = "update" /\ call = "read"
    /\ state_motor_velocity' =
         [w \in Wheels |-> IF speed[w] # Unread THEN speed[w]
                           ELSE state_motor_velocity[w]]
    /\ state_motor_position' =
         [w \in Wheels |-> IF speed[w] # Unread THEN Position(apos[w], offset[w])
                           ELSE state_motor_position[w]]
    /\ pc' = "idle"
    /\ UNCHANGED <<tick, serial, call, localVars, configVars>>

(* Bounds: after MaxTick lines the HAT is silent and read_some() waits, and  *)
(* after MaxConfigures calls nobody configures the component again.          *)
Silent ==
    /\ \/ tick = MaxTick /\ serial = <<>>
       \/ pc = "idle" /\ ~ready /\ configures = MaxConfigures
    /\ UNCHANGED vars

Next ==
    \/ \E w \in Wheels : HatReports(w)
    \/ Configure \/ Read
    \/ \E n \in 1 .. BufSize : ReadSome(n) \/ ParseThrows(n)
    \/ ReadError
    \/ UpdateOffsets \/ Update
    \/ Silent

Spec == Init /\ [][Next]_vars

-----------------------------------------------------------------------------
Offsets == [cell : Cells \cup {Zero}, negated : BOOLEAN]

(* Every variable has its type.                                              *)
TypeOK ==
    /\ tick \in Ticks
    /\ serial \in Seq(Cells) /\ Len(serial) <= MaxPending
    /\ call \in {"configure", "read"}
    /\ pc \in {"idle", "reading", "update"}
    /\ buffer \in [1 .. BufSize -> Cells \cup {Zero}]
    /\ speed \in [Wheels -> Cells \cup {Unread}]
    /\ apos \in [Wheels -> Cells \cup {Unread}]
    /\ state_motor_velocity \in [Wheels -> Cells \cup {Zero}]
    /\ offset \in [Wheels -> Offsets]
    /\ state_motor_position \in
           [Wheels -> [cell : Cells \cup {Zero, Unread}, zero : Offsets]]
    /\ ready \in BOOLEAN
    /\ chunks \in Nat
    /\ configures \in 0 .. MaxConfigures
    /\ measured \subseteq Wheels

(* A call that gets by with one chunk reports what the HAT has reported: the *)
(* speed and the position of a wheel come from one line of that wheel, the   *)
(* newest that is complete in the buffer.                                    *)
OneChunkFaithful ==
    pc = "update" /\ chunks = 1 =>
        \A w \in Wheels :
            /\ speed[w] # Unread =>
                   speed[w].kind = "speed" /\ speed[w].wheel = w
            /\ apos[w] = IF speed[w] = Unread THEN Unread
                         ELSE Cell("pos", w, speed[w].tick)
            /\ \A i \in 1 .. BufSize - 3 :
                   SubSeq(buffer, i, i + 3) = Line(w, buffer[i].tick) =>
                       speed[w] # Unread /\ buffer[i].tick <= speed[w].tick

(* However the chunks fall, and although the loop parses the tail of an      *)
(* earlier chunk again, a wheel's velocity is never replaced by one that was *)
(* reported before it.                                                       *)
NeverOlder ==
    [][\A w \in Wheels :
           state_motor_velocity[w].tick <= state_motor_velocity'[w].tick]_vars

(* A wheel whose zero on_configure() has read in one chunk starts from it:   *)
(* the zero is a position of that very wheel, turned round as its positions  *)
(* are, and nothing that read() later calls the wheel's position is older,   *)
(* after any number of configurations, of which some may have thrown.  A     *)
(* wheel of which the last on_configure() has read no line keeps an offset   *)
(* of before, negated once more; with several chunks, the zero may be a      *)
(* number of the other wheel.  Of those wheels, nothing is said.             *)
ZeroKept ==
    \A w \in Wheels :
        LET p == state_motor_position[w] IN
        p.zero = offset[w] /\ w \in measured /\ p.cell \notin {Zero, Unread} =>
            /\ p.zero.cell.kind = "pos" /\ p.zero.cell.wheel = w
            /\ p.zero.negated = Reverse[w]
            /\ p.zero.cell.tick <= p.cell.tick

(* README.md:28 of tuw_spike_control: read() "parses the HAT's periodic      *)
(* P<n>C0: status lines to update motor position and velocity feedback": the *)
(* feedback of a wheel is what one status line of that wheel says.           *)
FeedbackWasReported ==
    \A w \in Wheels :
        state_motor_velocity[w] # Zero =>
            /\ state_motor_velocity[w].wheel = w
            /\ state_motor_position[w].cell =
                   Cell("pos", w, state_motor_velocity[w].tick)
=============================================================================
