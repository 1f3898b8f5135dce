----------------------------- MODULE FilterLine -----------------------------
(* The edge filter along a ray of the image: FilterLineIterator              *)
(* (tuw_camera_laserscan/include/tuw_camera_laserscan/filter_kernel.hpp).    *)
(* The iterator keeps the last samples of the line in a ring buffer and      *)
(* convolves them with an odd kernel; its value belongs to the sample in the *)
(* middle.  Its specification is here, its clients put the actions to use.   *)
EXTENDS Integers, Sequences

CONSTANTS
    KernelGauss,   \* KERNEL_GAUSS, which the compiler evaluates
    Brightness,    \* bound: the values of a pixel
    Counts,        \* bound: the numbers of pixels of a line
    SizeBits       \* width of size_t

KernelDiff == <<1, 0, -1>>
N2 == Len(KernelGauss)
N == N2 + 2        \* history.size(), and the size of KERNEL
KernelSum ==
    LET sum[j \in 0 .. N2] == IF j = 0 THEN 0 ELSE sum[j - 1] + KernelGauss[j]
    IN sum[N2]

ASSUME KernelAssumption ==
    /\ KernelGauss \in Seq(Nat)
    /\ N2 % 2 = 1
    /\ \A j \in 1 .. N2 : KernelGauss[j] = KernelGauss[N2 + 1 - j]
    /\ 255 * KernelSum <= 32767
ASSUME BrightnessAssumption == Brightness \subseteq 0 .. 255
ASSUME CountAssumption ==
    /\ SizeBits \in Nat /\ 2 ^ SizeBits > 0
    /\ Counts \subseteq 1 .. 2 ^ SizeBits - 2

VARIABLES
    count,          \* line.count: the pixels of the line are 0 .. count - 1
    index,
    history,
    filter_value,
    image           \* ghost: what has been read along the line

lineVars == <<count, index, history, filter_value, image>>

-----------------------------------------------------------------------------
(* Saturation to int16_t.                                                    *)
Saturated(x) == IF x > 32767 THEN 32767 ELSE IF x < -32768 THEN -32768 ELSE x

(* convolve(): a[i - j] is 0 outside of a, for the unsigned i - j wraps.     *)
Convolve(a, b) ==
    [i \in 1 .. Len(a) + Len(b) - 1 |->
        LET sum[j \in 0 .. Len(b)] ==
                IF j = 0 THEN 0
                ELSE sum[j - 1]
                     + (IF i - j + 1 \in 1 .. Len(a) THEN a[i - j + 1] ELSE 0) * b[j]
        IN sum[Len(b)]]

Kernel == Convolve(KernelDiff, KernelGauss)

HistoryIdx(i, offset) == ((i - offset) % (2 ^ SizeBits)) % N

(* The kernel applied to the history h of an iterator at index i.            *)
Filtered(h, i) ==
    LET sum[j \in 0 .. N] ==
            IF j = 0 THEN 0
            ELSE Saturated(sum[j - 1] + h[HistoryIdx(i, j)].value * Kernel[j])
    IN sum[N]

(* There is no iterator before and after the ray.                            *)
NoHistory == [k \in 0 .. N - 1 |-> [pos |-> 0, value |-> 0]]
NoLine ==
    /\ count = 0 /\ index = 0 /\ filter_value = 0
    /\ history = NoHistory
    /\ image = <<>>
Destroy ==
    /\ count' = 0 /\ index' = 0 /\ filter_value' = 0
    /\ history' = NoHistory
    /\ image' = <<>>

(* The constructor, on a line of c pixels that starts with brightness v.     *)
Construct(c, v) ==
    /\ count' = c
    /\ index' = 0
    /\ history' = [k \in 0 .. N - 1 |-> [pos |-> 0, value |-> v]]
    /\ filter_value' = 0
    /\ image' = <<v>>

(* operator++ reads v at the position of the line and moves on.              *)
Increment(v) ==
    /\ index = 0 => v = image[1]
    /\ history' = [history EXCEPT ![HistoryIdx(index, 0)] =
                                      [pos |-> index, value |-> v]]
    /\ index' = index + 1
    /\ filter_value' = IF index' >= N THEN Filtered(history', index')
                       ELSE filter_value
    /\ image' = IF index = 0 THEN image ELSE Append(image, v)
    /\ UNCHANGED count

(* Slip: one more round, with the byte behind the line.                      *)
More_OffByOne(i) == i <= count + 1

(* operator bool and the position of operator*, of an iterator at index i.   *)
More(i) == i <= count
Centre(h, i) == h[HistoryIdx(i, N \div 2 + 1)].pos

-----------------------------------------------------------------------------
LineTypeOK ==
    /\ count \in Counts \cup {0}
    /\ index \in 0 .. 2 ^ SizeBits - 1
    /\ history \in [0 .. N - 1 -> [pos : 0 .. 2 ^ SizeBits - 1,
                                 value : Brightness \cup {0}]]
    /\ filter_value \in Int /\ -32768 <= filter_value /\ filter_value <= 32767
    /\ image \in Seq(Brightness)

(* Reference: the derivative of the smoothed brightness at pixel c, from the *)
(* image alone.                                                              *)
Smoothed(c) ==
    LET sum[j \in 0 .. N2] ==
            IF j = 0 THEN 0
            ELSE sum[j - 1] + image[c + 1 + j - (N2 + 1) \div 2] * KernelGauss[j]
    IN sum[N2]
Response(c) == Smoothed(c + 1) - Smoothed(c - 1)
InnerTo(c) == N \div 2 .. c - 1 - N \div 2

(* While the iterator is valid its value is the response of the image at the *)
(* pixel it points to: the ring buffer, whose index wraps, never mixes in an *)
(* older sample or the byte behind the line, and the sum never saturates.    *)
(* Before the history is full there is no response.                          *)
FilterIsResponse ==
    More(index) =>
        IF index < N THEN filter_value = 0
        ELSE /\ Centre(history, index) \in InnerTo(count)
             /\ Centre(history, index) = index - 1 - N \div 2
             /\ filter_value = Response(Centre(history, index))
=============================================================================
