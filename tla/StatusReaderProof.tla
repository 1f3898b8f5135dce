------------------------- MODULE StatusReaderProof --------------------------
(* Proofs about StatusReader, for any size of the buffer, any number of      *)
(* lines, and wherever the chunks are cut.                                   *)
EXTENDS StatusReader, WellFoundedInduction, TLAPS

-----------------------------------------------------------------------------
(* What CHOOSE finds: the line before an end, and the last line of a wheel.  *)
LEMMA Largest ==
    ASSUME NEW N \in Nat, NEW S \in SUBSET (1 .. N), S # {}
    PROVE  \E x \in S : \A y \in S : y <= x
<1> DEFINE R == {p \in Nat \X Nat : p[1] < p[2]}
           T == {N - x : x \in S}
<1>1. IsWellFoundedOn(R, Nat)
  BY NatLessThanWellFounded, Zenon DEF OpToRel
<1>2. \A x, y \in Nat : y < x => <<y, x>> \in R
  OBVIOUS
<1>3. T \subseteq Nat /\ T # {}
  <2>1. \A x \in S : N - x \in Nat
    OBVIOUS
  <2> QED BY <2>1
<1> HIDE DEF R
<1>4. \E t \in T : \A u \in T : ~ (<<u, t>> \in R)
  <2> HIDE DEF T
  <2> QED BY <1>1, <1>3, WFMin
<1>5. PICK x \in S : \A u \in T : ~ (<<u, N - x>> \in R)
  BY <1>4
<1>6. \A y \in S : ~ (N - y < N - x)
  <2> SUFFICES ASSUME NEW y \in S PROVE ~ (N - y < N - x)
    OBVIOUS
  <2>1. N - y \in T /\ N - y \in Nat /\ N - x \in Nat
    OBVIOUS
  <2> QED BY <1>2, <1>5, <2>1
<1>7. \A y \in S : y <= x
  BY <1>6
<1> QED BY <1>7

IsStart(b, e, s) ==
    /\ s \in 1 .. e
    /\ s = 1 \/ b[s - 1].kind = "end"
    /\ \A i \in s .. e - 1 : b[i].kind # "end"

LEMMA StartIs ==
    ASSUME NEW b, NEW e \in 1 .. BufSize
    PROVE  /\ IsStart(b, e, Start(b, e))
           /\ \A s : IsStart(b, e, s) => s = Start(b, e)
<1> USE BufSizeAssumption
<1> DEFINE S == {j \in 1 .. e - 1 : b[j].kind = "end"}
<1>1. \E s \in 1 .. e : IsStart(b, e, s)
  <2>1. CASE S = {}
    <3>1. IsStart(b, e, 1)
      BY <2>1 DEF IsStart
    <3> QED BY <3>1
  <2>2. CASE S # {}
    <3>1. e - 1 \in Nat /\ S \in SUBSET (1 .. e - 1)
      OBVIOUS
    <3>2. PICK x \in S : \A y \in S : y <= x
      <4> HIDE DEF S
      <4> QED BY <2>2, <3>1, Largest
    <3>3. IsStart(b, e, x + 1)
      <4>1. x + 1 \in 1 .. e /\ (x + 1) - 1 = x /\ b[x].kind = "end"
        OBVIOUS
      <4>2. ASSUME NEW i \in x + 1 .. e - 1 PROVE b[i].kind # "end"
        BY <3>2, <4>1, <4>2
      <4> QED BY <4>1, <4>2 DEF IsStart
    <3> QED BY <3>3 DEF IsStart
  <2> QED BY <2>1, <2>2
<1>2. IsStart(b, e, Start(b, e))
  BY <1>1 DEF Start, IsStart
<1>3. ASSUME NEW s, NEW t, IsStart(b, e, s), IsStart(b, e, t) PROVE ~ (s < t)
  BY <1>3 DEF IsStart
<1>4. ASSUME NEW s, IsStart(b, e, s) PROVE s = Start(b, e)
  <2>1. s \in Int /\ Start(b, e) \in Int
    BY <1>2, <1>4 DEF IsStart
  <2>2. ~ (s < Start(b, e)) /\ ~ (Start(b, e) < s)
    BY <1>2, <1>3, <1>4
  <2> QED BY <2>1, <2>2
<1> QED BY <1>2, <1>4

(* The lines of wheel w with a number in field k, and the last of them.      *)
LinesOf(b, w, k) == {e \in Ends(b) : Names(b, e, w) /\ Number(b[Start(b, e) + k])}

LEMMA ParsedIs ==
    ASSUME NEW b, NEW w, NEW k, NEW old
    PROVE  \/ LinesOf(b, w, k) = {} /\ Parsed(b, w, k, old) = old
           \/ \E e \in LinesOf(b, w, k) :
                  /\ \A f \in LinesOf(b, w, k) : f <= e
                  /\ Parsed(b, w, k, old) = b[Start(b, e) + k]
<1> DEFINE L == LinesOf(b, w, k)
<1>1. L \in SUBSET (1 .. BufSize) /\ BufSize \in Nat
  BY BufSizeAssumption DEF LinesOf, Ends
<1>2. Parsed(b, w, k, old) =
          IF L = {} THEN old
          ELSE LET last == CHOOSE e \in L : \A f \in L : f <= e
               IN b[Start(b, last) + k]
  BY DEF Parsed, LinesOf
<1> HIDE DEF L
<1>3. CASE L = {}
  BY <1>2, <1>3 DEF L
<1>4. CASE L # {}
  <2>1. \E e \in L : \A f \in L : f <= e
    BY <1>1, <1>4, Largest
  <2> QED BY <1>2, <1>4, <2>1 DEF L
<1> QED BY <1>3, <1>4

(* Parsing leaves a value, or puts a number of the buffer in its place.      *)
LEMMA ParsedIsNumber ==
    ASSUME NEW b, NEW w, NEW k \in {1, 2}, NEW old
    PROVE  \/ Parsed(b, w, k, old) = old
           \/ \E i \in 1 .. BufSize : Number(b[i]) /\ Parsed(b, w, k, old) = b[i]
<1> SUFFICES ASSUME NEW e \in LinesOf(b, w, k),
                    Parsed(b, w, k, old) = b[Start(b, e) + k]
             PROVE  \E i \in 1 .. BufSize : Number(b[i]) /\ Parsed(b, w, k, old) = b[i]
  BY ParsedIs
<1>1. e \in 1 .. BufSize /\ Names(b, e, w) /\ Number(b[Start(b, e) + k])
  BY DEF LinesOf, Ends
<1>2. Start(b, e) \in 1 .. e /\ e - Start(b, e) >= 3
  BY <1>1, StartIs DEF IsStart, Names
<1>3. Start(b, e) + k \in 1 .. BufSize
  BY <1>1, <1>2, BufSizeAssumption
<1> QED BY <1>1, <1>3

-----------------------------------------------------------------------------
LEMMA CellFields ==
    \A kind, w, t :
        /\ Cell(kind, w, t).kind = kind
        /\ Cell(kind, w, t).wheel = w
        /\ Cell(kind, w, t).tick = t
BY DEF Cell

LEMMA OffsetFields ==
    \A c, r : Offset(c, r).cell = c /\ Offset(c, r).negated = r
BY DEF Offset

LEMMA PositionFields ==
    \A c, z : Position(c, z).cell = c /\ Position(c, z).zero = z
BY DEF Position

LEMMA LineIs ==
    ASSUME NEW w \in Wheels, NEW t \in Ticks
    PROVE  /\ Line(w, t) \in Seq(Cells)
           /\ Len(Line(w, t)) = 4
           /\ Line(w, t)[1] = Cell("head", w, t) /\ Line(w, t)[2] = Cell("speed", w, t)
           /\ Line(w, t)[3] = Cell("pos", w, t) /\ Line(w, t)[4] = Cell("end", w, t)
           /\ \A i \in 1 .. 4 : Line(w, t)[i].tick = t
<1>1. \A kind \in {"head", "speed", "pos", "end"} : Cell(kind, w, t) \in Cells
  BY DEF Cell, Cells
<1>2. /\ Line(w, t)[1] = Cell("head", w, t) /\ Line(w, t)[2] = Cell("speed", w, t)
      /\ Line(w, t)[3] = Cell("pos", w, t) /\ Line(w, t)[4] = Cell("end", w, t)
      /\ Len(Line(w, t)) = 4
  BY DEF Line
<1>3. Line(w, t) \in Seq(Cells)
  BY <1>1 DEF Line
<1>4. \A i \in 1 .. 4 : i = 1 \/ i = 2 \/ i = 3 \/ i = 4
  OBVIOUS
<1>5. /\ Line(w, t)[1].tick = t /\ Line(w, t)[2].tick = t
      /\ Line(w, t)[3].tick = t /\ Line(w, t)[4].tick = t
  BY <1>2, CellFields
<1>6. \A i \in 1 .. 4 : Line(w, t)[i].tick = t
  BY <1>4, <1>5, Zenon
<1> QED BY <1>2, <1>3, <1>6

(* What is left of the serial line, and what has got into the buffer.        *)
LEMMA Rest ==
    ASSUME NEW seq \in Seq(Cells), NEW n \in 0 .. Len(seq)
    PROVE  /\ SubSeq(seq, n + 1, Len(seq)) \in Seq(Cells)
           /\ Len(SubSeq(seq, n + 1, Len(seq))) = Len(seq) - n
           /\ \A i \in 1 .. Len(seq) - n :
                  SubSeq(seq, n + 1, Len(seq))[i] = seq[n + i]
OBVIOUS

LEMMA Joined ==
    ASSUME NEW seq \in Seq(Cells), NEW t \in Seq(Cells)
    PROVE  /\ seq \o t \in Seq(Cells)
           /\ Len(seq \o t) = Len(seq) + Len(t)
           /\ \A i \in 1 .. Len(t) : (seq \o t)[Len(seq) + i] = t[i]
           /\ \A i \in 1 .. Len(seq) : (seq \o t)[i] = seq[i]
OBVIOUS

(* Neither 0 nor "no value read" is a cell of a line.                        *)
LEMMA NotCells ==
    /\ Zero \notin Cells /\ Unread \notin Cells /\ Zero # Unread
    /\ Zero.tick = 0 /\ Unread.tick = 0 /\ Zero.kind = "zero"
    /\ \A c \in Cells : c.tick \in Ticks
    /\ ~Number(Zero)
BY DEF Zero, Unread, Cell, Cells, Number

-----------------------------------------------------------------------------
LEMMA TypeInit == Init => TypeOK
<1> SUFFICES ASSUME Init PROVE TypeOK
  OBVIOUS
<1>1. /\ tick \in Ticks
      /\ serial \in Seq(Cells) /\ Len(serial) <= MaxPending
      /\ chunks \in Nat /\ configures \in 0 .. MaxConfigures
  BY MaxTickAssumption, MaxPendingAssumption, MaxConfiguresAssumption
     DEF Init, Ticks
<1>2. /\ buffer \in [1 .. BufSize -> Cells \cup {Zero}]
      /\ speed \in [Wheels -> Cells \cup {Unread}]
      /\ apos \in [Wheels -> Cells \cup {Unread}]
      /\ state_motor_velocity \in [Wheels -> Cells \cup {Zero}]
  BY DEF Init
<1>3. Offset(Zero, FALSE) \in Offsets
  BY DEF Offset, Offsets
<1>4. offset \in [Wheels -> Offsets]
  BY <1>3 DEF Init
<1>5. /\ measured \subseteq Wheels /\ ready \in BOOLEAN
      /\ call \in {"configure", "read"} /\ pc \in {"idle", "reading", "update"}
  BY DEF Init
<1>6. state_motor_position \in
          [Wheels -> [cell : Cells \cup {Zero, Unread}, zero : Offsets]]
  <2>1. Position(Zero, Offset(Zero, FALSE)) \in
            [cell : Cells \cup {Zero, Unread}, zero : Offsets]
    BY <1>3 DEF Position
  <2> QED BY <2>1 DEF Init
<1> QED BY <1>1, <1>2, <1>4, <1>5, <1>6 DEF TypeOK

LEMMA BeginTypes ==
    ASSUME TypeOK, NEW f \in {"configure", "read"}, Begin(f)
    PROVE  /\ tick' \in Ticks
           /\ call' \in {"configure", "read"} /\ pc' \in {"idle", "reading", "update"}
           /\ buffer' \in [1 .. BufSize -> Cells \cup {Zero}]
           /\ speed' \in [Wheels -> Cells \cup {Unread}]
           /\ apos' \in [Wheels -> Cells \cup {Unread}]
           /\ chunks' \in Nat
           /\ UNCHANGED stateVars
BY DEF Begin, TypeOK

LEMMA ReadSomeTypes ==
    ASSUME TypeOK, NEW n \in 1 .. BufSize, ReadSome(n)
    PROVE  TypeOK'
<1>1. n \in 0 .. Len(serial)
  BY BufSizeAssumption DEF ReadSome, Take, TypeOK
<1>2. serial' \in Seq(Cells) /\ Len(serial') <= MaxPending
  BY <1>1, Rest, MaxPendingAssumption DEF ReadSome, Take, TypeOK
<1>3. buffer' \in [1 .. BufSize -> Cells \cup {Zero}]
  BY <1>1 DEF ReadSome, TypeOK
<1>4. \A w \in Wheels, k \in {1, 2}, old \in Cells \cup {Unread} :
          Parsed(buffer', w, k, old) \in Cells \cup {Unread}
  <2>1. \A i \in 1 .. BufSize : Number(buffer'[i]) => buffer'[i] \in Cells
    BY <1>3, NotCells
  <2>2. \A w \in Wheels, k \in {1, 2} : \A old :
            \/ Parsed(buffer', w, k, old) = old
            \/ \E i \in 1 .. BufSize :
                   Number(buffer'[i]) /\ Parsed(buffer', w, k, old) = buffer'[i]
    BY ParsedIsNumber, Zenon
  <2> SUFFICES ASSUME NEW w \in Wheels, NEW k \in {1, 2}, NEW old \in Cells \cup {Unread}
               PROVE  Parsed(buffer', w, k, old) \in Cells \cup {Unread}
    BY Zenon
  <2>3. CASE Parsed(buffer', w, k, old) = old
    BY <2>3
  <2>4. CASE \E i \in 1 .. BufSize :
                 Number(buffer'[i]) /\ Parsed(buffer', w, k, old) = buffer'[i]
    BY <2>1, <2>4
  <2> QED BY <2>2, <2>3, <2>4, Zenon
<1>5. /\ speed' \in [Wheels -> Cells \cup {Unread}]
      /\ apos' \in [Wheels -> Cells \cup {Unread}]
  BY <1>4 DEF ReadSome, TypeOK
<1>6. chunks' \in Nat
  BY DEF ReadSome, TypeOK
<1>7. /\ pc' \in {"idle", "reading", "update"}
      /\ UNCHANGED <<tick, call, offset, ready, configures, measured, stateVars>>
  BY DEF ReadSome, configVars
<1> QED BY <1>2, <1>3, <1>5, <1>6, <1>7 DEF TypeOK, stateVars

(* What ParseThrows has parsed: the lines of a chunk.                        *)
Whole(n) == [i \in 1 .. BufSize |-> IF i <= n THEN serial[i] ELSE Zero]

LEMMA ThrownIs ==
    ASSUME TypeOK, NEW n \in 1 .. BufSize, ParseThrows(n), NEW w \in Wheels
    PROVE  \/ /\ offset'[w] = offset[w]
              /\ call = "read" => measured' = measured
           \/ \E c \in Cells :
                  /\ offset'[w] = Offset(c, FALSE)
                  /\ call = "configure"
                  /\ c = apos[w] \/ \E i \in 1 .. Len(serial) : i <= n /\ c = serial[i]
<1> DEFINE read == Parsed(Whole(n), w, 2, apos[w])
<1>1. offset'[w] = IF call = "configure" /\ read # Unread
                   THEN Offset(read, FALSE) ELSE offset[w]
  BY DEF ParseThrows, Whole
<1>2. call = "read" => measured' = measured
  BY DEF ParseThrows
<1>3. \/ read = apos[w]
      \/ \E i \in 1 .. BufSize : Number(Whole(n)[i]) /\ read = Whole(n)[i]
  BY ParsedIsNumber
<1>4. apos[w] \in Cells \cup {Unread}
  BY DEF TypeOK
<1>5. ASSUME NEW i \in 1 .. BufSize, Number(Whole(n)[i])
      PROVE  i <= n /\ i \in 1 .. Len(serial) /\ Whole(n)[i] = serial[i]
             /\ serial[i] \in Cells
  <2>1. i <= n /\ Whole(n)[i] = serial[i]
    BY <1>5, NotCells DEF Whole
  <2>2. n <= Len(serial) /\ serial \in Seq(Cells)
    BY DEF ParseThrows, Take, TypeOK
  <2>3. i \in 1 .. Len(serial)
    BY <2>1, <2>2, BufSizeAssumption
  <2> QED BY <2>1, <2>2, <2>3
<1> HIDE DEF read
<1>6. CASE call = "configure" /\ read # Unread
  <2>1. offset'[w] = Offset(read, FALSE)
    BY <1>1, <1>6
  <2>2. CASE read = apos[w]
    BY <1>4, <1>6, <2>1, <2>2
  <2>3. CASE \E i \in 1 .. BufSize : Number(Whole(n)[i]) /\ read = Whole(n)[i]
    BY <1>5, <1>6, <2>1, <2>3
  <2> QED BY <1>3, <2>2, <2>3
<1>7. CASE ~(call = "configure" /\ read # Unread)
  BY <1>1, <1>2, <1>7
<1> QED BY <1>6, <1>7

LEMMA ParseThrowsTypes ==
    ASSUME TypeOK, NEW n \in 1 .. BufSize, ParseThrows(n)
    PROVE  TypeOK'
<1>1. n \in 0 .. Len(serial)
  BY BufSizeAssumption DEF ParseThrows, Take, TypeOK
<1>2. serial' \in Seq(Cells) /\ Len(serial') <= MaxPending
  BY <1>1, Rest, MaxPendingAssumption DEF ParseThrows, Take, TypeOK
<1>3. offset' \in [Wheels -> Offsets]
  <2>1. \A w \in Wheels : offset'[w] \in Offsets
    <3> SUFFICES ASSUME NEW w \in Wheels PROVE offset'[w] \in Offsets
      OBVIOUS
    <3>1. \A c \in Cells : Offset(c, FALSE) \in Offsets
      BY DEF Offset, Offsets
    <3>2. offset[w] \in Offsets
      BY DEF TypeOK
    <3> QED BY <3>1, <3>2, ThrownIs
  <2>2. \E f : offset' = [w \in Wheels |-> f[w]]
    <3>1. offset' = [w \in Wheels |-> offset'[w]]
      BY DEF ParseThrows
    <3> QED BY <3>1
  <2> QED BY <2>1, <2>2
<1>4. measured' \subseteq Wheels
  BY DEF ParseThrows, TypeOK
<1>5. /\ pc' = "idle" /\ ready' = FALSE
      /\ UNCHANGED <<tick, call, buffer, speed, apos, chunks, configures, stateVars>>
  BY DEF ParseThrows, localVars
<1> QED BY <1>2, <1>3, <1>4, <1>5 DEF TypeOK, stateVars

LEMMA TypeStep == TypeOK /\ [Next]_vars => TypeOK'
<1> SUFFICES ASSUME TypeOK, [Next]_vars PROVE TypeOK'
  OBVIOUS
<1>1. ASSUME NEW w \in Wheels, HatReports(w) PROVE TypeOK'
  <2>1. tick' \in Ticks
    BY <1>1, MaxTickAssumption DEF HatReports, TypeOK, Ticks
  <2>2. serial' \in Seq(Cells) /\ Len(serial') <= MaxPending
    <3>1. Line(w, tick') \in Seq(Cells) /\ Len(Line(w, tick')) = 4
      BY <2>1, LineIs
    <3>2. serial \in Seq(Cells) /\ Len(serial) + 4 <= MaxPending
      BY <1>1 DEF HatReports, TypeOK
    <3>3. serial' = serial \o Line(w, tick')
      BY <1>1 DEF HatReports
    <3> DEFINE line == Line(w, tick')
    <3> HIDE DEF line
    <3>4. serial \o line \in Seq(Cells) /\ Len(serial \o line) = Len(serial) + Len(line)
      BY <3>1, <3>2, Joined DEF line
    <3>5. Len(serial) \in Nat /\ Len(line) = 4
      BY <3>1, <3>2 DEF line
    <3> QED BY <3>2, <3>3, <3>4, <3>5, MaxPendingAssumption DEF line
  <2> QED BY <1>1, <2>1, <2>2 DEF HatReports, TypeOK, localVars, configVars, stateVars
<1>2. CASE Configure
  <2>1. Begin("configure")
    BY <1>2 DEF Configure
  <2>2. serial' \in Seq(Cells) /\ Len(serial') <= MaxPending
    BY <1>2, MaxPendingAssumption DEF Configure, TypeOK
  <2>3. configures' \in 0 .. MaxConfigures
    BY <1>2, MaxConfiguresAssumption DEF Configure, TypeOK
  <2>4. ready' \in BOOLEAN /\ UNCHANGED <<offset, measured>>
    BY <1>2 DEF Configure
  <2> QED BY <2>1, <2>2, <2>3, <2>4, BeginTypes DEF TypeOK, stateVars
<1>3. CASE Read
  BY <1>3, BeginTypes DEF Read, TypeOK, configVars, stateVars
<1>4. ASSUME NEW n \in 1 .. BufSize, ReadSome(n) PROVE TypeOK'
  BY <1>4, ReadSomeTypes
<1>5. CASE ReadError
  BY <1>5 DEF ReadError, TypeOK, localVars, configVars, stateVars
<1>6. CASE UpdateOffsets
  <2>1. offset' \in [Wheels -> Offsets]
    <3>1. \A w \in Wheels : Reverse[w] \in BOOLEAN
      BY ReverseAssumption
    <3>2. \A c \in Cells \cup {Zero}, r \in BOOLEAN : Offset(c, r) \in Offsets
      BY DEF Offset, Offsets
    <3>3. \A w \in Wheels : offset[w].cell \in Cells \cup {Zero}
      BY DEF TypeOK, Offsets
    <3>4. \A w \in Wheels : apos[w] # Unread => apos[w] \in Cells \cup {Zero}
      BY DEF TypeOK
    <3>5. \A w \in Wheels : (Reverse[w] # offset[w].negated) \in BOOLEAN
      OBVIOUS
    <3>6. \A w \in Wheels :
              (IF apos[w] # Unread THEN Offset(apos[w], Reverse[w])
               ELSE Offset(offset[w].cell, Reverse[w] # offset[w].negated)) \in Offsets
      BY <3>1, <3>2, <3>3, <3>4, <3>5, Zenon
    <3> QED BY <1>6, <3>6 DEF UpdateOffsets
  <2>2. measured' \subseteq Wheels /\ ready' \in BOOLEAN
    BY <1>6 DEF UpdateOffsets
  <2> QED BY <1>6, <2>1, <2>2 DEF UpdateOffsets, TypeOK, localVars, stateVars
<1>7. CASE Update
  <2>1. state_motor_velocity' \in [Wheels -> Cells \cup {Zero}]
    BY <1>7 DEF Update, TypeOK
  <2>2. state_motor_position' \in
            [Wheels -> [cell : Cells \cup {Zero, Unread}, zero : Offsets]]
    <3>1. \A w \in Wheels :
              Position(apos[w], offset[w]) \in [cell : Cells \cup {Zero, Unread},
                                                zero : Offsets]
      BY DEF TypeOK, Position
    <3> QED BY <1>7, <3>1 DEF Update, TypeOK
  <2> QED BY <1>7, <2>1, <2>2 DEF Update, TypeOK, localVars, configVars
<1>8. CASE Silent \/ UNCHANGED vars
  BY <1>8 DEF Silent, vars, localVars, configVars, stateVars, TypeOK
<1>9. ASSUME NEW n \in 1 .. BufSize, ParseThrows(n) PROVE TypeOK'
  BY <1>9, ParseThrowsTypes
<1> QED BY <1>1, <1>2, <1>3, <1>4, <1>5, <1>6, <1>7, <1>8, <1>9 DEF Next

(* Every variable has its type, whatever a chunk makes of the lines.         *)
THEOREM TypeCorrect == Spec => []TypeOK
<1> QED BY TypeInit, TypeStep, PTL DEF Spec

-----------------------------------------------------------------------------
(* Why nothing old comes back.  The serial line holds its lines in the order *)
(* they were sent; what has been kept or read is not younger than what is    *)
(* still there, and what this call has read is not older than what was kept  *)
(* before it: the buffer is a new one, so whatever is parsed again came with *)
(* this call.                                                                *)
Kept(t) ==
    \A w \in Wheels : state_motor_velocity[w].tick <= t /\ offset[w].cell.tick <= t

Past(t) == t <= tick /\ \A j \in 1 .. Len(serial) : t <= serial[j].tick

SerialSorted ==
    /\ \A i, j \in 1 .. Len(serial) : i <= j => serial[i].tick <= serial[j].tick
    /\ \A i \in 1 .. Len(serial) : serial[i].tick <= tick

KeptIsPast ==
    \A w \in Wheels : Past(state_motor_velocity[w].tick) /\ Past(offset[w].cell.tick)

HeldIsBetween ==
    pc # "idle" =>
        /\ \A i \in 1 .. BufSize :
               buffer[i] # Zero => Kept(buffer[i].tick) /\ Past(buffer[i].tick)
        /\ \A w \in Wheels :
               /\ speed[w] # Unread => Kept(speed[w].tick) /\ Past(speed[w].tick)
               /\ apos[w] # Unread => Kept(apos[w].tick) /\ Past(apos[w].tick)

PositionsFollow ==
    \A w \in Wheels :
        state_motor_position[w].cell \notin {Zero, Unread} =>
            state_motor_position[w].zero.cell.tick <= state_motor_position[w].cell.tick

OrderInv ==
    /\ SerialSorted
    /\ KeptIsPast
    /\ HeldIsBetween
    /\ PositionsFollow

(* The ticks are numbers.                                                    *)
LEMMA TicksAreNumbers ==
    ASSUME TypeOK
    PROVE  /\ tick \in Int
           /\ \A i \in 1 .. Len(serial) : serial[i].tick \in Int
           /\ \A i \in 1 .. BufSize : buffer[i].tick \in Int
           /\ \A w \in Wheels : /\ speed[w].tick \in Int /\ apos[w].tick \in Int
                                /\ state_motor_velocity[w].tick \in Int
                                /\ offset[w].cell.tick \in Int
<1>1. \A c \in Cells \cup {Zero, Unread} : c.tick \in Int
  BY NotCells DEF Ticks
<1>2. \A i \in 1 .. Len(serial) : serial[i] \in Cells
  BY DEF TypeOK
<1>3. \A i \in 1 .. BufSize : buffer[i] \in Cells \cup {Zero, Unread}
  BY DEF TypeOK
<1>4. \A w \in Wheels : /\ speed[w] \in Cells \cup {Zero, Unread}
                        /\ apos[w] \in Cells \cup {Zero, Unread}
                        /\ state_motor_velocity[w] \in Cells \cup {Zero, Unread}
                        /\ offset[w].cell \in Cells \cup {Zero, Unread}
  BY DEF TypeOK, Offsets
<1> QED BY <1>1, <1>2, <1>3, <1>4 DEF TypeOK, Ticks

(* The past stays past.                                                      *)
LEMMA PastStays ==
    ASSUME NEW t \in Int, Past(t), tick \in Int, tick' \in Int, tick <= tick',
           \A j \in 1 .. Len(serial') :
               \/ serial'[j].tick = tick'
               \/ \E i \in 1 .. Len(serial) : serial'[j].tick = serial[i].tick
    PROVE  Past(t)'
BY DEF Past

LEMMA OrderInit == Init => OrderInv
<1> SUFFICES ASSUME Init PROVE OrderInv
  OBVIOUS
<1>1. Len(serial) = 0
  BY DEF Init
<1>2. KeptIsPast
  BY <1>1, NotCells DEF Init, KeptIsPast, Past, Offset
<1> QED BY <1>1, <1>2 DEF Init, OrderInv, SerialSorted, HeldIsBetween,
           PositionsFollow, Position, Offset

(* A line that is sent goes to the end of the serial line.                   *)
LEMMA ReportedIs ==
    ASSUME TypeOK, NEW w \in Wheels, HatReports(w)
    PROVE  /\ tick' = tick + 1 /\ tick' \in Ticks
           /\ Len(serial') = Len(serial) + 4 /\ Len(serial) \in Nat
           /\ serial' \in Seq(Cells)
           /\ \A j \in 1 .. Len(serial) : serial'[j] = serial[j]
           /\ \A i \in 1 .. 4 : serial'[Len(serial) + i] = Line(w, tick')[i]
<1>1. /\ tick' = tick + 1 /\ tick' \in Ticks
      /\ serial' = serial \o Line(w, tick') /\ serial \in Seq(Cells)
  BY MaxTickAssumption DEF HatReports, TypeOK, Ticks
<1> DEFINE line == Line(w, tick')
<1>2. line \in Seq(Cells) /\ Len(line) = 4
  BY <1>1, LineIs
<1> HIDE DEF line
<1>3. /\ serial \o line \in Seq(Cells)
      /\ Len(serial \o line) = Len(serial) + Len(line)
      /\ \A i \in 1 .. Len(line) : (serial \o line)[Len(serial) + i] = line[i]
      /\ \A i \in 1 .. Len(serial) : (serial \o line)[i] = serial[i]
  BY <1>1, <1>2, Joined
<1>4. Len(serial) \in Nat
  BY <1>1
<1> QED BY <1>1, <1>2, <1>3, <1>4, Zenon DEF line

(* A chunk that is taken leaves the rest.                                    *)
LEMMA TakenIs ==
    ASSUME TypeOK, NEW n \in 1 .. BufSize, Take(n)
    PROVE  /\ n \in 1 .. Len(serial) /\ n \in Nat
           /\ serial' \in Seq(Cells)
           /\ Len(serial') = Len(serial) - n /\ Len(serial) \in Nat
           /\ \A j \in 1 .. Len(serial') :
                  serial'[j] = serial[n + j] /\ n + j \in 1 .. Len(serial)
<1>1. n \in 1 .. Len(serial) /\ n \in 0 .. Len(serial) /\ n \in Nat
  BY BufSizeAssumption DEF Take, TypeOK
<1>2. /\ serial' \in Seq(Cells) /\ Len(serial') = Len(serial) - n
      /\ \A i \in 1 .. Len(serial) - n : serial'[i] = serial[n + i]
  BY <1>1, Rest DEF Take, TypeOK
<1>3. Len(serial) \in Nat
  BY DEF TypeOK
<1>4. \A j \in 1 .. Len(serial') : n + j \in 1 .. Len(serial)
  BY <1>1, <1>2, <1>3
<1> QED BY <1>1, <1>2, <1>3, <1>4

(* What is left is sorted still, and what is past stays so; what was taken   *)
(* is older than what is left, and younger than what has been kept.          *)
LEMMA TakenOrder ==
    ASSUME TypeOK, OrderInv, NEW n \in 1 .. BufSize, Take(n), tick' = tick
    PROVE  /\ SerialSorted'
           /\ \A t \in Int : Past(t) => Past(t)'
           /\ \A t : \A i \in 1 .. Len(serial) :
                  i <= n /\ t = serial[i].tick => Kept(t) /\ Past(t)'
<1>1. SerialSorted'
  <2>1. \A j \in 1 .. Len(serial') :
            /\ serial'[j] = serial[n + j] /\ n + j \in 1 .. Len(serial)
            /\ serial[n + j].tick <= tick
    BY TakenIs DEF OrderInv, SerialSorted
  <2>2. \A i, j \in 1 .. Len(serial') : i <= j => n + i <= n + j
    BY TakenIs
  <2>3. \A i, j \in 1 .. Len(serial') : i <= j => serial[n + i].tick <= serial[n + j].tick
    BY <2>1, <2>2 DEF OrderInv, SerialSorted
  <2> QED BY <2>1, <2>3 DEF SerialSorted
<1>2. \A t \in Int : Past(t) => Past(t)'
  <2>1. \A j \in 1 .. Len(serial') :
            \E i \in 1 .. Len(serial) : serial'[j].tick = serial[i].tick
    BY TakenIs
  <2>2. tick \in Int /\ tick <= tick'
    BY DEF TypeOK, Ticks
  <2> QED BY <2>1, <2>2, PastStays
<1>3. ASSUME NEW t, NEW i \in 1 .. Len(serial), i <= n, t = serial[i].tick
      PROVE  Kept(t) /\ Past(t)'
  <2>1. Kept(t)
    BY <1>3 DEF OrderInv, KeptIsPast, Past, Kept
  <2>2. \A j \in 1 .. Len(serial') :
            serial'[j] = serial[n + j] /\ n + j \in 1 .. Len(serial) /\ i <= n + j
    BY <1>3, TakenIs
  <2>3. t <= tick' /\ \A j \in 1 .. Len(serial') : t <= serial'[j].tick
    BY <1>3, <2>2 DEF OrderInv, SerialSorted
  <2> QED BY <2>1, <2>3 DEF Past
<1> QED BY <1>1, <1>2, <1>3

(* Steps that keep what has been kept and take nothing from what is held.    *)
LEMMA HeldStays ==
    ASSUME TypeOK, TypeOK', OrderInv, SerialSorted', tick <= tick',
           \A j \in 1 .. Len(serial') :
               \/ serial'[j].tick = tick'
               \/ \E i \in 1 .. Len(serial) : serial'[j].tick = serial[i].tick,
           UNCHANGED <<offset, stateVars>>,
           \/ pc' = "idle"
           \/ /\ \A i \in 1 .. BufSize : buffer'[i] = Zero
              /\ \A w \in Wheels : speed'[w] = Unread /\ apos'[w] = Unread
           \/ pc # "idle" /\ UNCHANGED <<buffer, speed, apos>>
    PROVE  OrderInv'
<1>1. \A t \in Int : Past(t) => Past(t)'
  BY PastStays, TicksAreNumbers DEF TypeOK, Ticks
<1>2. \A t : Kept(t) => Kept(t)'
  BY DEF Kept, stateVars
<1>3. KeptIsPast'
  BY <1>1, TicksAreNumbers DEF OrderInv, KeptIsPast, stateVars
<1>4. PositionsFollow'
  BY DEF OrderInv, PositionsFollow, stateVars
<1>5. HeldIsBetween'
  <2>1. CASE pc' = "idle"
    BY <2>1 DEF HeldIsBetween
  <2>2. CASE /\ \A i \in 1 .. BufSize : buffer'[i] = Zero
             /\ \A w \in Wheels : speed'[w] = Unread /\ apos'[w] = Unread
    BY <2>2 DEF HeldIsBetween
  <2>3. CASE pc # "idle" /\ UNCHANGED <<buffer, speed, apos>>
    BY <1>1, <1>2, <2>3, TicksAreNumbers DEF OrderInv, HeldIsBetween
  <2> QED BY <2>1, <2>2, <2>3
<1> QED BY <1>3, <1>4, <1>5 DEF OrderInv

(* A chunk brings cells that are younger than what has been kept and older   *)
(* than what is left, and parsing finds no others.                           *)
LEMMA ReadSomeOrder ==
    ASSUME TypeOK, TypeOK', OrderInv, NEW n \in 1 .. BufSize, ReadSome(n)
    PROVE  OrderInv'
<1>1. /\ pc = "reading" /\ tick' = tick
      /\ UNCHANGED <<offset, stateVars>>
      /\ speed' = [w \in Wheels |-> Parsed(buffer', w, 1, speed[w])]
      /\ apos' = [w \in Wheels |-> Parsed(buffer', w, 2, apos[w])]
  BY DEF ReadSome, Take, configVars
<1>0. Take(n)
  BY DEF ReadSome
<1>2. SerialSorted'
  BY <1>0, <1>1, TakenOrder
<1>3. \A t \in Int : Past(t) => Past(t)'
  BY <1>0, <1>1, TakenOrder
<1>4. \A t : Kept(t) => Kept(t)'
  BY <1>1 DEF Kept, stateVars
<1>5. KeptIsPast'
  BY <1>1, <1>3, TicksAreNumbers DEF OrderInv, KeptIsPast, stateVars
<1>6. PositionsFollow'
  BY <1>1 DEF OrderInv, PositionsFollow, stateVars
<1>7. ASSUME NEW i \in 1 .. BufSize, NEW c, c = buffer'[i], c # Zero
      PROVE  Kept(c.tick)' /\ Past(c.tick)'
  <2>0. buffer'[i] = IF i <= n THEN serial[i] ELSE buffer[i]
    BY DEF ReadSome
  <2>1. CASE i <= n
    <3>1. i \in 1 .. Len(serial) /\ c = serial[i]
      <4>1. c = serial[i]
        BY <1>7, <2>0, <2>1
      <4>2. n \in 1 .. Len(serial) /\ n \in Nat /\ Len(serial) \in Nat
        BY <1>0, TakenIs
      <4> QED BY <2>1, <4>1, <4>2, BufSizeAssumption
    <3> DEFINE t == c.tick
    <3>2. Kept(t) /\ Past(t)'
      BY <1>0, <1>1, <2>1, <3>1, TakenOrder
    <3> QED BY <1>4, <3>2
  <2>2. CASE ~(i <= n)
    <3>1. c = buffer[i]
      BY <1>7, <2>0, <2>2
    <3>2. Kept(c.tick) /\ Past(c.tick) /\ c.tick \in Int
      BY <1>1, <1>7, <3>1, TicksAreNumbers DEF OrderInv, HeldIsBetween
    <3> QED BY <1>3, <1>4, <3>2
  <2> QED BY <2>1, <2>2
<1>8. ASSUME NEW w, NEW k \in {1, 2}, NEW old, NEW c,
             old # Unread => Kept(old.tick)' /\ Past(old.tick)',
             c = Parsed(buffer', w, k, old), c # Unread
      PROVE  Kept(c.tick)' /\ Past(c.tick)'
  <2>1. CASE c = old
    BY <1>8, <2>1
  <2>2. ASSUME NEW i \in 1 .. BufSize, Number(buffer'[i]), c = buffer'[i]
        PROVE  Kept(c.tick)' /\ Past(c.tick)'
    <3>1. c # Zero
      BY <2>2, NotCells
    <3> QED BY <1>7, <2>2, <3>1
  <2>3. \/ c = old
        \/ \E i \in 1 .. BufSize : Number(buffer'[i]) /\ c = buffer'[i]
    BY <1>8, ParsedIsNumber
  <2> QED BY <2>1, <2>2, <2>3
<1>9. ASSUME NEW w \in Wheels, NEW old \in {speed[w], apos[w]}, old # Unread
      PROVE  Kept(old.tick)' /\ Past(old.tick)'
  <2>1. Kept(old.tick) /\ Past(old.tick) /\ old.tick \in Int
    BY <1>1, <1>9, TicksAreNumbers DEF OrderInv, HeldIsBetween
  <2> QED BY <1>3, <1>4, <2>1
<1>10. ASSUME NEW w \in Wheels, NEW c \in {speed'[w], apos'[w]}, c # Unread
       PROVE  Kept(c.tick)' /\ Past(c.tick)'
  <2>1. /\ speed'[w] = Parsed(buffer', w, 1, speed[w])
        /\ apos'[w] = Parsed(buffer', w, 2, apos[w])
    BY <1>1
  <2>2. CASE c = speed'[w]
    BY <1>8, <1>9, <1>10, <2>1, <2>2
  <2>3. CASE c = apos'[w]
    BY <1>8, <1>9, <1>10, <2>1, <2>3
  <2> QED BY <1>10, <2>2, <2>3
<1>11. HeldIsBetween'
  BY <1>7, <1>10 DEF HeldIsBetween
<1> QED BY <1>2, <1>5, <1>6, <1>11 DEF OrderInv

(* What is left behind when a number does not fit.                           *)
LEMMA ParseThrowsOrder ==
    ASSUME TypeOK, TypeOK', OrderInv, NEW n \in 1 .. BufSize, ParseThrows(n)
    PROVE  OrderInv'
<1>1. /\ Take(n) /\ tick' = tick /\ pc = "reading" /\ pc' = "idle"
      /\ UNCHANGED stateVars
  BY DEF ParseThrows, Take
<1>2. SerialSorted' /\ \A t \in Int : Past(t) => Past(t)'
  BY <1>1, TakenOrder
<1>3. ASSUME NEW w \in Wheels, NEW t,
             t = state_motor_velocity[w].tick \/ t = offset[w].cell.tick
      PROVE  Past(t)'
  <2>1. Past(t) /\ t \in Int
    BY <1>3, TicksAreNumbers DEF OrderInv, KeptIsPast
  <2> QED BY <1>2, <2>1
<1>6. ASSUME NEW w \in Wheels, NEW t, t = offset'[w].cell.tick
      PROVE  Past(t)'
  <2>2. ASSUME NEW c \in Cells, offset'[w] = Offset(c, FALSE),
               c = apos[w] \/ \E i \in 1 .. Len(serial) : i <= n /\ c = serial[i]
        PROVE  Past(t)'
    <3>1. t = c.tick
      BY <1>6, <2>2, OffsetFields
    <3>2. CASE c = apos[w]
      <4>1. Past(t) /\ t \in Int
        BY <1>1, <2>2, <3>1, <3>2, NotCells, TicksAreNumbers DEF OrderInv, HeldIsBetween
      <4> QED BY <1>2, <4>1
    <3>3. CASE \E i \in 1 .. Len(serial) : i <= n /\ c = serial[i]
      BY <1>1, <3>1, <3>3, TakenOrder
    <3> QED BY <2>2, <3>2, <3>3
  <2>3. CASE offset'[w] = offset[w]
    BY <1>3, <1>6, <2>3
  <2> QED BY <2>2, <2>3, ThrownIs
<1>4. KeptIsPast'
  BY <1>1, <1>3, <1>6 DEF KeptIsPast, stateVars
<1>5. HeldIsBetween' /\ PositionsFollow'
  BY <1>1 DEF HeldIsBetween, OrderInv, PositionsFollow, stateVars
<1> QED BY <1>2, <1>4, <1>5 DEF OrderInv

LEMMA OrderStep == TypeOK /\ TypeOK' /\ OrderInv /\ [Next]_vars => OrderInv'
<1> SUFFICES ASSUME TypeOK, TypeOK', OrderInv, [Next]_vars PROVE OrderInv'
  OBVIOUS
<1> tick \in Int /\ tick' \in Int
  BY DEF TypeOK, Ticks
<1>1. ASSUME NEW w \in Wheels, HatReports(w) PROVE OrderInv'
  <2>1. \A j \in 1 .. Len(serial') :
            \/ j \in 1 .. Len(serial)
            \/ \E i \in 1 .. 4 : j = Len(serial) + i
    <3> SUFFICES ASSUME NEW j \in 1 .. Len(serial'), ~(j <= Len(serial))
                 PROVE  \E i \in 1 .. 4 : j = Len(serial) + i
      BY <1>1, ReportedIs
    <3>1. j - Len(serial) \in 1 .. 4 /\ j = Len(serial) + (j - Len(serial))
      BY <1>1, ReportedIs
    <3> QED BY <3>1
  <2>2. \A i \in 1 .. 4 : serial'[Len(serial) + i].tick = tick'
    BY <1>1, ReportedIs, LineIs, SMTT(40)
  <2>3. \A j \in 1 .. Len(serial') :
            \/ j \in 1 .. Len(serial) /\ serial'[j].tick = serial[j].tick
            \/ j \notin 1 .. Len(serial) /\ serial'[j].tick = tick'
    <3>1. \A i \in 1 .. 4 : Len(serial) + i \notin 1 .. Len(serial)
      BY <1>1, ReportedIs
    <3> QED BY <1>1, <2>1, <2>2, <3>1, ReportedIs
  <2>4. tick' = tick + 1 /\ tick <= tick'
    BY <1>1, ReportedIs
  <2>5. SerialSorted'
    <3>1. \A i \in 1 .. Len(serial) : serial[i].tick <= tick' /\ serial[i].tick \in Int
      BY <2>4, TicksAreNumbers DEF OrderInv, SerialSorted
    <3>2. \A i, j \in 1 .. Len(serial') : i <= j /\ j \in 1 .. Len(serial) =>
              i \in 1 .. Len(serial)
      BY <1>1, ReportedIs
    <3> QED BY <2>3, <2>4, <3>1, <3>2 DEF OrderInv, SerialSorted
  <2>6. pc' = "idle" \/ (pc # "idle" /\ UNCHANGED <<buffer, speed, apos>>)
    BY <1>1 DEF HatReports, localVars
  <2>7. UNCHANGED <<offset, stateVars>>
    BY <1>1 DEF HatReports, configVars
  <2>8. \A j \in 1 .. Len(serial') :
            \/ serial'[j].tick = tick'
            \/ \E i \in 1 .. Len(serial) : serial'[j].tick = serial[i].tick
    BY <2>3
  <2> QED BY <2>4, <2>5, <2>6, <2>7, <2>8, HeldStays
<1>2. ASSUME tick' = tick, serial' = serial \/ serial' = <<>>,
             UNCHANGED <<offset, stateVars>>,
             \/ pc' = "idle"
             \/ /\ \A i \in 1 .. BufSize : buffer'[i] = Zero
                /\ \A w \in Wheels : speed'[w] = Unread /\ apos'[w] = Unread
             \/ pc # "idle" /\ UNCHANGED <<buffer, speed, apos>>
      PROVE  OrderInv'
  <2>1. SerialSorted'
    <3>1. CASE serial' = serial
      BY <1>2, <3>1 DEF OrderInv, SerialSorted
    <3>2. CASE serial' = <<>>
      <4>1. Len(serial') = 0
        BY <3>2
      <4> QED BY <4>1 DEF SerialSorted
    <3> QED BY <1>2, <3>1, <3>2
  <2>2. \A j \in 1 .. Len(serial') :
            \E i \in 1 .. Len(serial) : serial'[j].tick = serial[i].tick
    <3>1. CASE serial' = serial
      BY <3>1
    <3>2. CASE serial' = <<>>
      <4>1. Len(serial') = 0
        BY <3>2
      <4> QED BY <4>1
    <3> QED BY <1>2, <3>1, <3>2
  <2>3. tick <= tick'
    BY <1>2
  <2> QED BY <1>2, <2>1, <2>2, <2>3, HeldStays
<1>3. ASSUME NEW f, Begin(f), serial' = serial \/ serial' = <<>>,
             UNCHANGED offset
      PROVE  OrderInv'
  <2>1. /\ tick' = tick /\ UNCHANGED stateVars
        /\ \A i \in 1 .. BufSize : buffer'[i] = Zero
        /\ \A w \in Wheels : speed'[w] = Unread /\ apos'[w] = Unread
    BY <1>3 DEF Begin
  <2> QED BY <1>2, <1>3, <2>1
<1>4. CASE Configure \/ Read
  BY <1>3, <1>4 DEF Configure, Read, configVars
<1>5. ASSUME NEW n \in 1 .. BufSize, ReadSome(n) PROVE OrderInv'
  BY <1>5, ReadSomeOrder
<1>6. CASE ReadError
  BY <1>2, <1>6 DEF ReadError, localVars, configVars
<1>7. CASE Silent \/ UNCHANGED vars
  BY <1>2, <1>7 DEF Silent, vars, localVars, configVars, OrderInv, SerialSorted,
     KeptIsPast, HeldIsBetween, PositionsFollow, Past, Kept, stateVars
<1>8. CASE UpdateOffsets
  <2>1. /\ pc = "update" /\ pc' = "idle"
        /\ UNCHANGED <<tick, serial, stateVars>>
        /\ \A w \in Wheels :
               offset'[w] = IF apos[w] # Unread THEN Offset(apos[w], Reverse[w])
                            ELSE Offset(offset[w].cell, Reverse[w] # offset[w].negated)
    BY <1>8 DEF UpdateOffsets
  <2>2. ASSUME NEW w \in Wheels PROVE Past(offset'[w].cell.tick)
    <3>1. CASE apos[w] # Unread
      <4>1. offset'[w] = Offset(apos[w], Reverse[w])
        BY <2>1, <3>1, Zenon
      <4>2. offset'[w].cell = apos[w]
        BY <4>1, OffsetFields, Zenon
      <4>3. Past(apos[w].tick)
        BY <2>1, <3>1 DEF OrderInv, HeldIsBetween
      <4> QED BY <4>2, <4>3
    <3>2. CASE apos[w] = Unread
      <4>1. offset'[w] = Offset(offset[w].cell, Reverse[w] # offset[w].negated)
        BY <2>1, <3>2, Zenon
      <4>2. offset'[w].cell = offset[w].cell
        BY <4>1, OffsetFields, SMTT(40)
      <4> QED BY <4>2 DEF OrderInv, KeptIsPast
    <3> QED BY <3>1, <3>2
  <2>3. \A t : Past(t)' <=> Past(t)
    BY <2>1 DEF Past
  <2>4. KeptIsPast'
    BY <2>1, <2>2, <2>3 DEF OrderInv, KeptIsPast, Past, stateVars
  <2> QED BY <2>1, <2>4 DEF OrderInv, SerialSorted, HeldIsBetween, PositionsFollow,
             stateVars
<1>9. CASE Update
  <2>1. /\ pc = "update" /\ pc' = "idle"
        /\ UNCHANGED <<tick, serial, offset>>
        /\ \A w \in Wheels :
               /\ state_motor_velocity'[w] = IF speed[w] # Unread THEN speed[w]
                                             ELSE state_motor_velocity[w]
               /\ state_motor_position'[w] =
                      IF speed[w] # Unread THEN Position(apos[w], offset[w])
                      ELSE state_motor_position[w]
    BY <1>9 DEF Update, configVars
  <2>2. KeptIsPast'
    BY <2>1 DEF OrderInv, HeldIsBetween, KeptIsPast, Past
  <2>3. PositionsFollow'
    <3> SUFFICES ASSUME NEW w \in Wheels,
                        state_motor_position'[w].cell \notin {Zero, Unread}
                 PROVE  state_motor_position'[w].zero.cell.tick
                            <= state_motor_position'[w].cell.tick
      BY DEF PositionsFollow
    <3>1. CASE speed[w] # Unread
      <4>1. /\ state_motor_position'[w].cell = apos[w]
            /\ state_motor_position'[w].zero = offset[w]
        BY <2>1, <3>1, PositionFields
      <4>2. Kept(apos[w].tick)
        BY <2>1, <4>1 DEF OrderInv, HeldIsBetween
      <4> QED BY <4>1, <4>2 DEF Kept
    <3>2. CASE speed[w] = Unread
      BY <2>1, <3>2 DEF OrderInv, PositionsFollow
    <3> QED BY <3>1, <3>2
  <2> QED BY <2>1, <2>2, <2>3 DEF OrderInv, SerialSorted, HeldIsBetween
<1>10. ASSUME NEW n \in 1 .. BufSize, ParseThrows(n) PROVE OrderInv'
  BY <1>10, ParseThrowsOrder
<1> QED BY <1>1, <1>4, <1>5, <1>6, <1>7, <1>8, <1>9, <1>10 DEF Next

LEMMA OrderInvariant == Spec => [](TypeOK /\ OrderInv)
<1>1. Init => TypeOK /\ OrderInv
  BY TypeInit, OrderInit
<1>2. TypeOK /\ OrderInv /\ [Next]_vars => (TypeOK /\ OrderInv)'
  BY TypeStep, OrderStep
<1> QED BY <1>1, <1>2, PTL DEF Spec

(* However the chunks fall, no velocity is replaced by an older one, although*)
(* the tail of an earlier chunk is parsed again.                             *)
THEOREM VelocitiesInOrder == Spec => NeverOlder
<1>1. TypeOK /\ OrderInv /\ [Next]_vars =>
          [\A w \in Wheels :
               state_motor_velocity[w].tick <= state_motor_velocity'[w].tick]_vars
  <2> SUFFICES ASSUME TypeOK, OrderInv, [Next]_vars, NEW w \in Wheels
               PROVE  state_motor_velocity[w].tick <= state_motor_velocity'[w].tick
    OBVIOUS
  <2>1. CASE Update
    BY <2>1, TicksAreNumbers DEF Update, OrderInv, HeldIsBetween, Kept
  <2>2. CASE UNCHANGED stateVars
    BY <2>2, TicksAreNumbers DEF stateVars
  <2>3. UNCHANGED stateVars \/ Update
    BY DEF Next, HatReports, Configure, Read, Begin, ReadSome, ParseThrows, ReadError,
       UpdateOffsets, Silent, vars
  <2> QED BY <2>1, <2>2, <2>3
<1> QED BY <1>1, OrderInvariant, PTL DEF Spec, NeverOlder

-----------------------------------------------------------------------------
(* Why one chunk is enough.  The serial line holds the cells of whole lines  *)
(* but for the first, of which a part may have been taken, and a call that   *)
(* has taken nothing has an empty buffer.                                    *)
Follows(c, d) ==
    /\ c.kind = "end" => d.kind = "head"
    /\ c.kind # "end" =>
           /\ d.wheel = c.wheel /\ d.tick = c.tick
           /\ c.kind = "head" => d.kind = "speed"
           /\ c.kind = "speed" => d.kind = "pos"
           /\ c.kind = "pos" => d.kind = "end"

WholeLines ==
    /\ \A i \in 1 .. Len(serial) - 1 : Follows(serial[i], serial[i + 1])
    /\ Len(serial) > 0 => serial[Len(serial)].kind = "end"

EmptyBefore ==
    pc = "reading" /\ chunks = 0 =>
        /\ \A i \in 1 .. BufSize : buffer[i] = Zero
        /\ \A w \in Wheels : speed[w] = Unread /\ apos[w] = Unread

(* What OneChunkFaithful says of a wheel.                                    *)
Faithful(b, w, sp, ap) ==
    /\ sp # Unread => sp.kind = "speed" /\ sp.wheel = w
    /\ ap = IF sp = Unread THEN Unread ELSE Cell("pos", w, sp.tick)
    /\ \A i \in 1 .. BufSize - 3 :
           SubSeq(b, i, i + 3) = Line(w, b[i].tick) =>
               sp # Unread /\ b[i].tick <= sp.tick

FirstChunk ==
    pc # "idle" /\ chunks = 1 => \A w \in Wheels : Faithful(buffer, w, speed[w], apos[w])

LinesInv == WholeLines /\ EmptyBefore /\ FirstChunk

(* A chunk of the serial line at the front of an empty buffer.               *)
Chunk(b, n) ==
    /\ b \in [1 .. BufSize -> Cells \cup {Zero}]
    /\ \A i \in 1 .. n : b[i] \in Cells
    /\ \A i \in 1 .. BufSize : i > n => b[i] = Zero
    /\ \A i \in 1 .. n : i + 1 <= n => Follows(b[i], b[i + 1])
    /\ \A i, j \in 1 .. n : i <= j => b[i].tick <= b[j].tick

(* The two fields of a line that is complete.                                *)
LEMMA FieldsOfLine ==
    ASSUME NEW n \in 1 .. BufSize, NEW b, Chunk(b, n), NEW w \in Wheels,
           NEW e \in Ends(b), Names(b, e, w), NEW s, s = Start(b, e)
    PROVE  /\ s \in 1 .. n /\ s + 1 \in 1 .. n /\ s + 2 \in 1 .. n
           /\ b[s + 1].kind = "speed" /\ b[s + 1].wheel = w
           /\ b[s + 2] = Cell("pos", w, b[s + 1].tick)
           /\ b[s + 1] \in Cells /\ b[s + 1].tick = b[s].tick
<1>1. e \in 1 .. BufSize /\ b[e].kind = "end" /\ n \in Nat
  BY BufSizeAssumption DEF Ends
<1>2. e <= n
  BY <1>1, NotCells DEF Chunk
<1>3. s \in 1 .. e /\ s + 3 <= e /\ b[s].kind = "head" /\ b[s].wheel = w
  BY <1>1, StartIs DEF IsStart, Names
<1>4. s \in 1 .. n /\ s + 1 \in 1 .. n /\ s + 2 \in 1 .. n
  BY <1>1, <1>2, <1>3
<1>5. /\ b[s + 1].kind = "speed" /\ b[s + 1].wheel = w /\ b[s + 1].tick = b[s].tick
  <2>1. Follows(b[s], b[s + 1])
    BY <1>4 DEF Chunk
  <2> QED BY <1>3, <2>1 DEF Follows
<1>6. /\ b[s + 2].kind = "pos" /\ b[s + 2].wheel = w /\ b[s + 2].tick = b[s + 1].tick
  <2>1. Follows(b[s + 1], b[(s + 1) + 1]) /\ (s + 1) + 1 = s + 2
    BY <1>1, <1>4 DEF Chunk
  <2> QED BY <1>5, <2>1 DEF Follows
<1>7. b[s + 1] \in Cells /\ b[s + 2] \in Cells
  BY <1>4 DEF Chunk
<1>8. b[s + 2] = Cell("pos", w, b[s + 1].tick)
  BY <1>6, <1>7 DEF Cells, Cell
<1> QED BY <1>4, <1>5, <1>7, <1>8

(* A complete line is found.                                                 *)
LEMMA LineIsFound ==
    ASSUME NEW n \in 1 .. BufSize, NEW b, Chunk(b, n), NEW w \in Wheels,
           NEW i \in 1 .. BufSize - 3, SubSeq(b, i, i + 3) = Line(w, b[i].tick)
    PROVE  /\ i + 3 \in Ends(b) /\ Names(b, i + 3, w) /\ Start(b, i + 3) = i
           /\ i + 3 \in 1 .. n
<1>1. /\ i \in 1 .. BufSize /\ i + 1 \in 1 .. BufSize /\ i + 2 \in 1 .. BufSize
      /\ i + 3 \in 1 .. BufSize /\ n \in Nat /\ BufSize \in Nat
  BY BufSizeAssumption
<1>2. b[i].tick \in Ticks
  BY <1>1, NotCells, MaxTickAssumption DEF Chunk, Ticks
<1>3. /\ SubSeq(b, i, i + 3)[1] = b[i] /\ SubSeq(b, i, i + 3)[2] = b[i + 1]
      /\ SubSeq(b, i, i + 3)[3] = b[i + 2] /\ SubSeq(b, i, i + 3)[4] = b[i + 3]
  <2>1. /\ i \in Nat /\ 1 + (i + 3) - i = 4
        /\ i + 1 - 1 = i /\ i + 2 - 1 = i + 1 /\ i + 3 - 1 = i + 2 /\ i + 4 - 1 = i + 3
    BY <1>1
  <2>2. SubSeq(b, i, i + 3)[1] = b[i + 1 - 1]
    BY <1>1, <2>1
  <2>3. SubSeq(b, i, i + 3)[2] = b[i + 2 - 1]
    BY <1>1, <2>1
  <2>4. SubSeq(b, i, i + 3)[3] = b[i + 3 - 1]
    BY <1>1, <2>1
  <2>5. SubSeq(b, i, i + 3)[4] = b[i + 4 - 1]
    BY <1>1, <2>1
  <2> QED BY <2>1, <2>2, <2>3, <2>4, <2>5
<1>4. /\ b[i] = Cell("head", w, b[i].tick) /\ b[i + 1] = Cell("speed", w, b[i].tick)
      /\ b[i + 2] = Cell("pos", w, b[i].tick) /\ b[i + 3] = Cell("end", w, b[i].tick)
  <2> DEFINE t == b[i].tick
  <2>1. /\ Line(w, t)[1] = Cell("head", w, t) /\ Line(w, t)[2] = Cell("speed", w, t)
        /\ Line(w, t)[3] = Cell("pos", w, t) /\ Line(w, t)[4] = Cell("end", w, t)
    BY <1>2, LineIs
  <2>2. SubSeq(b, i, i + 3) = Line(w, t)
    OBVIOUS
  <2> HIDE DEF t
  <2>3. /\ b[i] = Cell("head", w, t) /\ b[i + 1] = Cell("speed", w, t)
        /\ b[i + 2] = Cell("pos", w, t) /\ b[i + 3] = Cell("end", w, t)
    BY <1>3, <2>1, <2>2
  <2> QED BY <2>3 DEF t
<1>5. /\ b[i].kind = "head" /\ b[i].wheel = w /\ b[i + 1].kind = "speed"
      /\ b[i + 2].kind = "pos" /\ b[i + 3].kind = "end"
  <2> DEFINE t == b[i].tick
  <2>1. /\ b[i] = Cell("head", w, t) /\ b[i + 1] = Cell("speed", w, t)
        /\ b[i + 2] = Cell("pos", w, t) /\ b[i + 3] = Cell("end", w, t)
    BY <1>4
  <2> HIDE DEF t
  <2> QED BY <2>1, CellFields
<1>6. i + 3 <= n
  BY <1>1, <1>5, NotCells DEF Chunk
<1>7. i = 1 \/ b[i - 1].kind = "end"
  <2> SUFFICES ASSUME i # 1 PROVE b[i - 1].kind = "end"
    OBVIOUS
  <2>1. i - 1 \in 1 .. n /\ (i - 1) + 1 = i /\ i <= n
    BY <1>1, <1>6
  <2>2. Follows(b[i - 1], b[i]) /\ b[i - 1] \in Cells
    BY <2>1 DEF Chunk
  <2> QED BY <1>5, <2>2 DEF Follows, Cells
<1>8. \A j \in i .. (i + 3) - 1 : b[j].kind # "end"
  <2>1. \A j \in i .. (i + 3) - 1 : j = i \/ j = i + 1 \/ j = i + 2
    BY <1>1
  <2> QED BY <1>5, <2>1
<1>9. IsStart(b, i + 3, i)
  <2>1. i \in 1 .. i + 3
    BY <1>1
  <2> QED BY <1>7, <1>8, <2>1 DEF IsStart
<1>10. Start(b, i + 3) = i
  BY <1>1, <1>9, StartIs
<1>11. i + 3 \in Ends(b)
  BY <1>1, <1>5 DEF Ends
<1>12. Names(b, i + 3, w)
  BY <1>1, <1>5, <1>10 DEF Names
<1> QED BY <1>1, <1>6, <1>10, <1>11, <1>12

(* Speed and position are parsed out of the last line of the wheel.          *)
LEMMA ChunkFaithful ==
    ASSUME NEW n \in 1 .. BufSize, NEW b, Chunk(b, n), NEW w \in Wheels,
           NEW sp, sp = Parsed(b, w, 1, Unread),
           NEW ap, ap = Parsed(b, w, 2, Unread)
    PROVE  Faithful(b, w, sp, ap)
<1> DEFINE L == {e \in Ends(b) : Names(b, e, w)}
<1>1. LinesOf(b, w, 1) = L /\ LinesOf(b, w, 2) = L
  <2>1. ASSUME NEW e \in L
        PROVE  Number(b[Start(b, e) + 1]) /\ Number(b[Start(b, e) + 2])
    BY FieldsOfLine, CellFields DEF Number
  <2> QED BY <2>1 DEF LinesOf
<1>2. \A e \in L : e \in 1 .. BufSize /\ e \in Int /\ b[e].kind = "end"
  BY BufSizeAssumption DEF Ends
<1>3. \A i \in 1 .. BufSize - 3 :
          SubSeq(b, i, i + 3) = Line(w, b[i].tick) =>
              /\ i + 3 \in L /\ Start(b, i + 3) = i
              /\ i \in 1 .. n /\ i \in Int
  <2> SUFFICES ASSUME NEW i \in 1 .. BufSize - 3,
                      SubSeq(b, i, i + 3) = Line(w, b[i].tick)
               PROVE  /\ i + 3 \in L /\ Start(b, i + 3) = i
                      /\ i \in 1 .. n /\ i \in Int
    OBVIOUS
  <2>1. i + 3 \in L /\ Start(b, i + 3) = i /\ i + 3 \in 1 .. n
    BY LineIsFound
  <2> QED BY <2>1, BufSizeAssumption
<1>4. \/ L = {} /\ sp = Unread
      \/ \E e \in L : (\A f \in L : f <= e) /\ sp = b[Start(b, e) + 1]
  BY <1>1, ParsedIs
<1>5. \/ L = {} /\ ap = Unread
      \/ \E e \in L : (\A f \in L : f <= e) /\ ap = b[Start(b, e) + 2]
  BY <1>1, ParsedIs
<1>6. CASE L = {}
  <2>1. sp = Unread /\ ap = Unread
    <3> HIDE DEF L
    <3> QED BY <1>4, <1>5, <1>6
  <2> QED BY <1>3, <1>6, <2>1 DEF Faithful
<1>7. ASSUME NEW e \in L, \A f \in L : f <= e,
             sp = b[Start(b, e) + 1], ap = b[Start(b, e) + 2]
      PROVE  Faithful(b, w, sp, ap)
  <2> DEFINE s == Start(b, e)
  <2>1. /\ s \in 1 .. n /\ s + 1 \in 1 .. n
        /\ sp.kind = "speed" /\ sp.wheel = w /\ ap = Cell("pos", w, sp.tick)
        /\ sp \in Cells /\ sp.tick = b[s].tick
    BY <1>7, FieldsOfLine
  <2>2. IsStart(b, e, s)
    BY <1>2, StartIs
  <2> HIDE DEF s
  <2>3. sp # Unread
    BY <2>1, NotCells
  <2>4. ASSUME NEW i \in 1 .. BufSize - 3, SubSeq(b, i, i + 3) = Line(w, b[i].tick)
        PROVE  b[i].tick <= sp.tick
    <3>1. i + 3 \in L /\ Start(b, i + 3) = i /\ i \in 1 .. n /\ i \in Int
      BY <1>3, <2>4
    <3>2. i + 3 <= e /\ b[i + 3].kind = "end" /\ e \in Int
      BY <1>2, <1>7, <3>1
    <3>3. i <= s
      <4>1. CASE e = i + 3
        BY <3>1, <4>1 DEF s
      <4>2. CASE e # i + 3
        <5>1. s \in Int /\ ~(i + 3 \in s .. e - 1)
          BY <2>2, <3>2 DEF IsStart
        <5> QED BY <3>1, <3>2, <4>2, <5>1
      <4> QED BY <4>1, <4>2
    <3> QED BY <2>1, <3>1, <3>3 DEF Chunk
  <2> QED BY <2>1, <2>3, <2>4 DEF Faithful
<1>8. CASE L # {}
  <2> HIDE DEF L
  <2>1. PICK e \in L : (\A f \in L : f <= e) /\ sp = b[Start(b, e) + 1]
    BY <1>4, <1>8
  <2>2. PICK g \in L : (\A f \in L : f <= g) /\ ap = b[Start(b, g) + 2]
    BY <1>5, <1>8
  <2>3. e = g
    BY <1>2, <2>1, <2>2
  <2> QED BY <1>7, <2>1, <2>2, <2>3
<1> QED BY <1>6, <1>8
LEMMA LinesInit == Init => LinesInv
<1> SUFFICES ASSUME Init PROVE LinesInv
  OBVIOUS
<1>1. WholeLines
  BY DEF Init, WholeLines
<1> QED BY <1>1 DEF Init, LinesInv, EmptyBefore, FirstChunk

LEMMA LinesStep == TypeOK /\ TypeOK' /\ OrderInv /\ LinesInv /\ [Next]_vars => LinesInv'
<1> SUFFICES ASSUME TypeOK, TypeOK', OrderInv, LinesInv, [Next]_vars PROVE LinesInv'
  OBVIOUS
<1>1. ASSUME NEW w \in Wheels, HatReports(w) PROVE LinesInv'
  <2> DEFINE N == Len(serial)
  <2>1. /\ N \in Nat /\ Len(serial') = N + 4
        /\ \A j \in 1 .. N : serial'[j] = serial[j]
        /\ \A i \in 1 .. 4 : serial'[N + i] = Line(w, tick')[i]
    BY <1>1, ReportedIs
  <2>2. /\ serial'[N + 1] = Cell("head", w, tick')
        /\ serial'[N + 2] = Cell("speed", w, tick')
        /\ serial'[N + 3] = Cell("pos", w, tick')
        /\ serial'[N + 4] = Cell("end", w, tick')
    <3>1. tick' \in Ticks
      BY <1>1, ReportedIs
    <3>2. /\ Line(w, tick')[1] = Cell("head", w, tick')
          /\ Line(w, tick')[2] = Cell("speed", w, tick')
          /\ Line(w, tick')[3] = Cell("pos", w, tick')
          /\ Line(w, tick')[4] = Cell("end", w, tick')
      BY <3>1, LineIs
    <3> QED BY <2>1, <3>2
  <2>3. /\ Follows(serial'[N + 1], serial'[N + 2])
        /\ Follows(serial'[N + 2], serial'[N + 3])
        /\ Follows(serial'[N + 3], serial'[N + 4])
    BY <2>2, CellFields DEF Follows
  <2>4. N > 0 => Follows(serial[N], serial'[N + 1])
    BY <2>2, CellFields DEF LinesInv, WholeLines, Follows
  <2>5. \A i \in 1 .. Len(serial') - 1 :
            \/ i \in 1 .. N - 1 /\ i + 1 \in 1 .. N /\ i \in 1 .. N
            \/ i = N /\ N > 0 /\ N \in 1 .. N
            \/ i = N + 1 /\ i + 1 = N + 2
            \/ i = N + 2 /\ i + 1 = N + 3
            \/ i = N + 3 /\ i + 1 = N + 4
    BY <2>1
  <2>6. ASSUME NEW i \in 1 .. Len(serial') - 1
        PROVE  Follows(serial'[i], serial'[i + 1])
    <3>1. CASE i \in 1 .. N - 1 /\ i + 1 \in 1 .. N /\ i \in 1 .. N
      BY <2>1, <3>1 DEF LinesInv, WholeLines
    <3>2. CASE i = N /\ N > 0 /\ N \in 1 .. N
      BY <2>1, <2>4, <3>2
    <3> QED BY <2>3, <2>5, <3>1, <3>2
  <2>7. WholeLines'
    <3>1. serial'[Len(serial')].kind = "end"
      BY <2>1, <2>2, CellFields
    <3> QED BY <2>6, <3>1 DEF WholeLines
  <2> QED BY <1>1, <2>7 DEF HatReports, localVars, LinesInv, EmptyBefore, FirstChunk
<1>2. ASSUME NEW f, Begin(f), serial' = serial \/ serial' = <<>> PROVE LinesInv'
  <2>1. WholeLines'
    <3>1. CASE serial' = serial
      BY <3>1 DEF LinesInv, WholeLines
    <3>2. CASE serial' = <<>>
      BY <3>2 DEF WholeLines
    <3> QED BY <1>2, <3>1, <3>2
  <2>2. EmptyBefore' /\ FirstChunk'
    BY <1>2 DEF Begin, EmptyBefore, FirstChunk
  <2> QED BY <2>1, <2>2 DEF LinesInv
<1>3. CASE Configure \/ Read
  BY <1>2, <1>3 DEF Configure, Read
<1>8. ASSUME NEW n \in 1 .. BufSize, Take(n) PROVE WholeLines'
  <2>1. \A i \in 1 .. Len(serial') - 1 :
            /\ serial'[i] = serial[n + i] /\ n + i \in 1 .. Len(serial) - 1
            /\ serial'[i + 1] = serial[(n + i) + 1]
    <3> TAKE i \in 1 .. Len(serial') - 1
    <3>1. /\ i \in 1 .. Len(serial') /\ i + 1 \in 1 .. Len(serial')
          /\ n + i \in 1 .. Len(serial) - 1 /\ n + (i + 1) = (n + i) + 1
      BY <1>8, TakenIs
    <3>2. \A k \in 1 .. Len(serial') : serial'[k] = serial[n + k]
      BY <1>8, TakenIs
    <3>3. serial'[i] = serial[n + i]
      BY <3>1, <3>2
    <3>4. serial'[i + 1] = serial[n + (i + 1)]
      BY <3>1, <3>2
    <3> QED BY <3>1, <3>3, <3>4
  <2>2. Len(serial') > 0 => serial'[Len(serial')] = serial[Len(serial)]
    <3>1. Len(serial') > 0 =>
              Len(serial') \in 1 .. Len(serial') /\ n + Len(serial') = Len(serial)
      BY <1>8, TakenIs
    <3>2. \A k \in 1 .. Len(serial') : serial'[k] = serial[n + k]
      BY <1>8, TakenIs
    <3> QED BY <3>1, <3>2
  <2>3. Len(serial') > 0 => Len(serial) > 0
    BY <1>8, TakenIs
  <2> QED BY <2>1, <2>2, <2>3 DEF LinesInv, WholeLines
<1>9. ASSUME NEW n \in 1 .. BufSize, ParseThrows(n) PROVE LinesInv'
  <2>1. Take(n) /\ pc' = "idle"
    BY <1>9 DEF ParseThrows
  <2> QED BY <1>8, <2>1 DEF LinesInv, EmptyBefore, FirstChunk
<1>4. ASSUME NEW n \in 1 .. BufSize, ReadSome(n) PROVE LinesInv'
  <2>0. Take(n)
    BY <1>4 DEF ReadSome
  <2>1. WholeLines'
    BY <1>8, <2>0
  <2>2. /\ chunks' = chunks + 1 /\ chunks \in Nat /\ pc = "reading"
        /\ speed' = [w \in Wheels |-> Parsed(buffer', w, 1, speed[w])]
        /\ apos' = [w \in Wheels |-> Parsed(buffer', w, 2, apos[w])]
    BY <1>4 DEF ReadSome, Take, TypeOK
  <2>3. EmptyBefore'
    BY <2>2 DEF EmptyBefore
  <2>4. CASE chunks = 0
    <3>1. /\ \A i \in 1 .. BufSize : buffer[i] = Zero
          /\ \A w \in Wheels : speed[w] = Unread /\ apos[w] = Unread
      BY <2>2, <2>4 DEF LinesInv, EmptyBefore
    <3>2. Chunk(buffer', n)
      <4>0. \A i \in 1 .. BufSize : buffer'[i] = IF i <= n THEN serial[i] ELSE buffer[i]
        BY <1>4 DEF ReadSome
      <4>1. \A i \in 1 .. n : i \in 1 .. Len(serial) /\ i \in 1 .. BufSize /\ i <= n
        BY <2>0, TakenIs, BufSizeAssumption
      <4>2. \A i \in 1 .. n : buffer'[i] = serial[i]
        BY <4>0, <4>1
      <4>3. \A i \in 1 .. BufSize : i > n => buffer'[i] = Zero
        <5>1. \A i \in 1 .. BufSize : i > n => ~(i <= n)
          BY BufSizeAssumption
        <5> QED BY <3>1, <4>0, <5>1
      <4>4. \A i \in 1 .. n : i + 1 <= n => Follows(buffer'[i], buffer'[i + 1])
        <5>1. \A i \in 1 .. n : i + 1 <= n => i + 1 \in 1 .. n /\ i \in 1 .. Len(serial) - 1
          BY <2>0, TakenIs
        <5> QED BY <4>2, <5>1 DEF LinesInv, WholeLines
      <4>5. \A i \in 1 .. n : buffer'[i] \in Cells
        BY <4>1, <4>2 DEF TypeOK
      <4>6. \A i, j \in 1 .. n : i <= j => buffer'[i].tick <= buffer'[j].tick
        BY <4>1, <4>2 DEF OrderInv, SerialSorted
      <4> QED BY <4>3, <4>4, <4>5, <4>6 DEF TypeOK, Chunk
    <3>3. ASSUME NEW b, b = buffer', NEW w \in Wheels
          PROVE  Faithful(b, w, speed'[w], apos'[w])
      <4>1. Chunk(b, n)
        BY <3>2, <3>3
      <4>2. speed'[w] = Parsed(b, w, 1, Unread) /\ apos'[w] = Parsed(b, w, 2, Unread)
        BY <2>2, <3>1, <3>3
      <4> QED BY <4>1, <4>2, ChunkFaithful
    <3> QED BY <2>1, <2>3, <3>3 DEF LinesInv, FirstChunk
  <2>5. CASE chunks # 0
    BY <2>1, <2>2, <2>3, <2>5 DEF LinesInv, FirstChunk
  <2> QED BY <2>4, <2>5
<1>5. CASE ReadError
  BY <1>5 DEF ReadError, localVars, LinesInv, WholeLines, EmptyBefore, FirstChunk
<1>6. CASE UpdateOffsets \/ Update
  BY <1>6 DEF UpdateOffsets, Update, LinesInv, WholeLines, EmptyBefore, FirstChunk
<1>7. CASE Silent \/ UNCHANGED vars
  BY <1>7 DEF Silent, vars, localVars, LinesInv, WholeLines, EmptyBefore, FirstChunk
<1> QED BY <1>1, <1>3, <1>4, <1>5, <1>6, <1>7, <1>9 DEF Next

LEMMA LinesInvariant == Spec => [](TypeOK /\ OrderInv /\ LinesInv)
<1>1. Init => TypeOK /\ OrderInv /\ LinesInv
  BY TypeInit, OrderInit, LinesInit
<1>2. TypeOK /\ OrderInv /\ LinesInv /\ [Next]_vars => (TypeOK /\ OrderInv /\ LinesInv)'
  BY TypeStep, OrderStep, LinesStep
<1> QED BY <1>1, <1>2, PTL DEF Spec

(* A call that gets by with one chunk reports one line of the wheel, the     *)
(* newest that is complete in the buffer.                                    *)
THEOREM OneChunkIsFaithful == Spec => []OneChunkFaithful
<1>1. LinesInv => OneChunkFaithful
  BY DEF LinesInv, FirstChunk, OneChunkFaithful, Faithful
<1> QED BY <1>1, LinesInvariant, PTL

-----------------------------------------------------------------------------
(* Why a zero is the wheel's own: it was read out of a first chunk.          *)
MeasuredOwn ==
    \A w \in measured :
        /\ offset[w].cell.kind = "pos" /\ offset[w].cell.wheel = w
        /\ offset[w].negated = Reverse[w]

LEMMA MeasuredStep ==
    ASSUME TypeOK, LinesInv, MeasuredOwn, [Next]_vars
    PROVE  MeasuredOwn'
<1>1. CASE UNCHANGED <<offset, measured>>
  BY <1>1 DEF MeasuredOwn
<1>2. CASE UpdateOffsets
  <2> SUFFICES ASSUME NEW w \in Wheels, apos[w] # Unread, chunks = 1
               PROVE  /\ offset'[w].cell.kind = "pos" /\ offset'[w].cell.wheel = w
                      /\ offset'[w].negated = Reverse[w]
    BY <1>2 DEF UpdateOffsets, MeasuredOwn
  <2>1. pc = "update" /\ offset'[w] = Offset(apos[w], Reverse[w])
    BY <1>2 DEF UpdateOffsets
  <2>2. Faithful(buffer, w, speed[w], apos[w])
    BY <2>1 DEF LinesInv, FirstChunk
  <2>3. apos[w] = Cell("pos", w, speed[w].tick)
    BY <2>2 DEF Faithful
  <2>4. apos[w].kind = "pos" /\ apos[w].wheel = w
    BY <2>3, CellFields
  <2>5. offset'[w].cell = apos[w] /\ offset'[w].negated = Reverse[w]
    BY <2>1, OffsetFields
  <2> QED BY <2>4, <2>5
<1>3. ASSUME NEW n \in 1 .. BufSize, ParseThrows(n) PROVE MeasuredOwn'
  <2>1. CASE call = "configure"
    BY <1>3, <2>1 DEF ParseThrows, MeasuredOwn
  <2>2. CASE call # "configure"
    <3>1. measured' = measured /\ \A w \in Wheels : offset'[w] = offset[w]
      BY <1>3, <2>2 DEF ParseThrows
    <3>2. measured \subseteq Wheels
      BY DEF TypeOK
    <3> QED BY <3>1, <3>2 DEF MeasuredOwn
  <2> QED BY <2>1, <2>2
<1> QED BY <1>1, <1>2, <1>3 DEF Next, HatReports, Configure, Read, Begin, ReadSome,
        ReadError, Update, Silent, vars, configVars

(* A zero that on_configure() has read in one chunk is a position of the     *)
(* wheel it belongs to, turned round as the wheel's positions are, and none  *)
(* of the positions that are relative to it is older.                        *)
THEOREM ZeroIsKept == Spec => []ZeroKept
<1>1. Init => MeasuredOwn
  BY DEF Init, MeasuredOwn
<1>2. TypeOK /\ LinesInv /\ MeasuredOwn /\ [Next]_vars => MeasuredOwn'
  BY MeasuredStep
<1>3. OrderInv /\ MeasuredOwn => ZeroKept
  BY DEF OrderInv, PositionsFollow, MeasuredOwn, ZeroKept
<1> QED BY <1>1, <1>2, <1>3, LinesInvariant, PTL DEF Spec
=============================================================================
