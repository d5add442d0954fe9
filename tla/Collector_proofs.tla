-------------------------- MODULE Collector_proofs --------------------------
(***************************************************************************)
(* For every queue limit, every number of keys, calls, failures and         *)
(* sessions: WrittenOnceInOrder, NothingLostSilently and PublishedIsValid.  *)
(*                                                                         *)
(* The file and what is unwritten of the queue, Trail, is the log of the    *)
(* open session so far: whatever write failed half-way, it only grows.      *)
(* Good says that it begins with session_start, ends at session_end and has *)
(* the typed keys in order, with the keys in memory after them; ModeLink,   *)
(* that at most the aggregate of the last key's mode is open.  Every        *)
(* operation is shown to keep that (Preserves, Heard, Closes, Hears: what   *)
(* an outcome of it may be, composed by the ...InTurn lemmas), then every   *)
(* action.  What the validator makes of a log, a recursive function, is     *)
(* found at the least position where it could go wrong (LeastOf).           *)
(***************************************************************************)
EXTENDS Collector, FiniteSetTheorems, SequenceTheorems, WellFoundedInduction, TLAPS

-----------------------------------------------------------------------------
(* The inductive invariant *)

(* The queue is within its limit.  A batch the writer is in the middle of   *)
(* has something left to write, and what it has written is in the file.     *)
BatchIsBegun(c) ==
  /\ Len(c.pending) <= MaxPending
  /\ c.payload = None => c.consumed = 0
  /\ c.payload # None => c.consumed < Len(c.payload) /\ Len(c.payload) <= Len(c.pending)
  /\ \A i \in 1..c.consumed : \E j \in 1..Len(c.file) : c.file[j] = c.pending[i]

Sound(c) ==
  c \in ColState /\ BatchIsBegun(c) /\ Cardinality(HeldBuckets(c)) <= MaxBuckets

(* Of the sequence and the text run at most one is open. *)
OneOpen(c) == c.input.sequence = {} \/ c.input.text = {}

(* The trail is the log of one session that has been opened and, once the   *)
(* end is queued, closed; nothing is then left that could follow.           *)
OneSession(c) ==
  /\ Len(Trail(c)) >= 1
  /\ \A i \in 1..Len(Trail(c)) :
       /\ ValidPayload(Trail(c)[i]) /\ Trail(c)[i].session = c.session
       /\ Trail(c)[i].kind = "session_start" <=> i = 1
       /\ Trail(c)[i].kind = "session_end" => i = Len(Trail(c)) /\ c.end_queued
  /\ c.end_queued => Trail(c)[Len(Trail(c))].kind = "session_end" /\ c.input = NoInput

(* Typed keys come in order, the keys held after those in the trail, and    *)
(* all of them before k.                                                    *)
Held(c) == c.input.sequence \cup c.input.text

InOrder(c, k) ==
  /\ \A i, j \in 1..Len(Trail(c)) : i < j /\ Typed(Trail(c)[i]) /\ Typed(Trail(c)[j]) =>
       \A l \in Trail(c)[i].keys, m \in Trail(c)[j].keys : l < m
  /\ \A i \in 1..Len(Trail(c)) : Typed(Trail(c)[i]) =>
       \A l \in Trail(c)[i].keys : l < k /\ \A m \in Held(c) : l < m
  /\ \A l \in Held(c) : l < k

Good(c, k) == Sound(c) /\ OneOpen(c) /\ OneSession(c) /\ InOrder(c, k)

(* Between sessions the collector holds nothing. *)
Blank(c) ==
  /\ c \in ColState /\ c.pending = <<>> /\ c.payload = None /\ c.consumed = 0
  /\ c.file = <<>> /\ c.input = NoInput
  /\ ~c.end_queued /\ ~c.scheduled /\ ~c.published

(* An open aggregate belongs to the mode of the last key. *)
ModeLink(c) ==
  /\ c.input.sequence # {} => c.last_mode \in SequenceModes
  /\ c.input.text # {} => c.last_mode \in Modes /\ c.last_mode = "insert"

Complete(log) ==
  /\ Len(log) >= 1
  /\ log[1].session # NoSession
  /\ \A i \in 1..Len(log) :
       /\ ValidPayload(log[i]) /\ log[i].session = log[1].session
       /\ log[i].kind = "session_start" <=> i = 1
       /\ log[i].kind = "session_end" <=> i = Len(log)

LogsAreComplete ==
  /\ \A i \in 1..Len(logs) : Complete(logs[i]) /\ logs[i][1].session < next_session
  /\ \A i, j \in 1..Len(logs) : i # j => logs[i][1].session # logs[j][1].session
  /\ col.state # "stopped" /\ ~col.published =>
       \A i \in 1..Len(logs) : logs[i][1].session # col.session

Counters ==
  /\ pressed \in 0..MaxKeys /\ calls \in 0..MaxCalls /\ next_session \in 1..MaxSessions + 1
  /\ logs \in Seq(Seq(Event(Ids)))

IInv ==
  /\ Counters
  /\ col \in ColState /\ ~col.in_callback
  /\ col.state = "stopped" => Blank(col)
  /\ col.state # "stopped" => Good(col, pressed + 1) /\ col.session \in 1..next_session - 1
  /\ col.state = "recording" /\ col.error = "none" => ModeLink(col)
  /\ col.end_queued => col.state = "stopping"
  /\ col.published =>
       /\ col.end_queued /\ col.pending = <<>>
       /\ Len(logs) >= 1 /\ logs[Len(logs)] = col.file
  /\ LogsAreComplete

-----------------------------------------------------------------------------
(* The trail *)

(* A part of a sequence, and its elements. *)
LEMMA Slice ==
  ASSUME NEW S, NEW p \in Seq(S), NEW a \in Nat, NEW b \in Nat, a <= b, b <= Len(p)
  PROVE  /\ SubSeq(p, a + 1, b) \in Seq(S)
         /\ Len(SubSeq(p, a + 1, b)) = b - a
         /\ \A i \in 1..b - a : SubSeq(p, a + 1, b)[i] = p[a + i]
<1>1. Len(p) \in Nat
  BY LenProperties
<1>2. \A i \in a + 1..b : p[i] \in S
  BY <1>1, ElementOfSeq
<1>3. a + 1 \in Int /\ b \in Int
  OBVIOUS
<1> DEFINE t == SubSeq(p, a + 1, b)
<1>4. /\ t \in Seq(S)
      /\ Len(t) = IF a + 1 <= b THEN b - (a + 1) + 1 ELSE 0
      /\ \A i \in 1..b - (a + 1) + 1 : t[i] = p[a + 1 + i - 1]
  BY <1>2, <1>3, SubSeqProperties
<1> HIDE DEF t
<1>5. /\ t \in Seq(S) /\ Len(t) = b - a
      /\ \A i \in 1..b - a : t[i] = p[a + i]
  BY <1>4
<1> QED BY <1>5 DEF t

(* Two sequences in a row, element by element. *)
LEMMA Joined ==
  ASSUME NEW S, NEW s \in Seq(S), NEW t \in Seq(S)
  PROVE  /\ s \o t \in Seq(S) /\ Len(s \o t) = Len(s) + Len(t)
         /\ \A i \in 1..Len(s) : (s \o t)[i] = s[i]
         /\ \A i \in 1..Len(t) : (s \o t)[Len(s) + i] = t[i]
<1>1. Len(s) \in Nat /\ Len(t) \in Nat
  BY LenProperties
<1> DEFINE u == s \o t
<1>2. /\ u \in Seq(S) /\ Len(u) = Len(s) + Len(t)
      /\ \A i \in 1..Len(s) + Len(t) : u[i] = IF i <= Len(s) THEN s[i] ELSE t[i - Len(s)]
  BY ConcatProperties
<1> HIDE DEF u
<1>3. \A i \in 1..Len(s) : u[i] = s[i]
  BY <1>1, <1>2
<1>4. ASSUME NEW i \in 1..Len(t)
      PROVE  u[Len(s) + i] = t[i]
  <2>1. /\ Len(s) + i \in 1..Len(s) + Len(t) /\ ~(Len(s) + i <= Len(s))
        /\ (Len(s) + i) - Len(s) = i
    BY <1>1
  <2> QED BY <2>1, <1>2
<1> QED BY <1>2, <1>3, <1>4 DEF u

(* The first part of what is left of a queue ... *)
LEMMA TakeOfRest ==
  ASSUME NEW S, NEW p \in Seq(S), NEW m \in Nat, NEW n \in Nat, m + n <= Len(p)
  PROVE  SubSeq(SubSeq(p, m + 1, Len(p)), 1, n) = SubSeq(p, m + 1, m + n)
<1> DEFINE rest == SubSeq(p, m + 1, Len(p))
<1> DEFINE w == SubSeq(p, m + 1, m + n)
<1> DEFINE written == SubSeq(rest, 0 + 1, n)
<1>1. Len(p) \in Nat /\ m <= Len(p) /\ m + n \in Nat /\ m <= m + n /\ Len(p) <= Len(p)
  BY LenProperties
<1>2. rest \in Seq(S) /\ Len(rest) = Len(p) - m
      /\ \A i \in 1..Len(p) - m : rest[i] = p[m + i]
  BY <1>1, Slice
<1>3. w \in Seq(S) /\ Len(w) = (m + n) - m
      /\ \A i \in 1..(m + n) - m : w[i] = p[m + i]
  BY <1>1, Slice
<1> HIDE DEF rest, w
<1>4. written \in Seq(S) /\ Len(written) = n - 0 /\ \A i \in 1..n - 0 : written[i] = rest[0 + i]
  <2>1. 0 \in Nat /\ 0 <= n /\ n <= Len(rest)
    BY <1>1, <1>2
  <2>2. rest \in Seq(S)
    BY <1>2
  <2> QED BY <2>1, <2>2, Slice
<1> HIDE DEF written
<1>5. Len(written) = Len(w)
  BY <1>3, <1>4
<1>6. ASSUME NEW i \in 1..Len(written)
      PROVE  written[i] = w[i]
  <2>1. i \in 1..n /\ i \in 1..Len(p) - m
    BY <1>1, <1>4
  <2>2. written[i] = rest[i] /\ rest[i] = p[m + i] /\ w[i] = p[m + i]
    BY <2>1, <1>2, <1>3, <1>4
  <2> QED BY <2>2
<1>7. written \in Seq(S) /\ w \in Seq(S)
  BY <1>3, <1>4
<1>8. written = w
  BY <1>5, <1>6, <1>7, SeqEqual
<1> QED BY <1>8 DEF written, rest, w

(* ... written to the file, leaves the trail as it was ... *)
LEMMA PartWritten ==
  ASSUME NEW S, NEW f \in Seq(S), NEW p \in Seq(S), NEW m \in Nat, NEW n \in Nat,
         m + n <= Len(p)
  PROVE  (f \o SubSeq(p, m + 1, m + n)) \o SubSeq(p, m + n + 1, Len(p))
           = f \o SubSeq(p, m + 1, Len(p))
<1> DEFINE w == SubSeq(p, m + 1, m + n)
<1> DEFINE left == SubSeq(p, (m + n) + 1, Len(p))
<1> DEFINE rest == SubSeq(p, m + 1, Len(p))
<1>1. Len(p) \in Nat /\ m + n \in Nat /\ m <= m + n /\ Len(p) <= Len(p)
  BY LenProperties
<1>2. w \in Seq(S)
  BY <1>1, Slice
<1>3. left \in Seq(S)
  BY <1>1, Slice
<1>4. w \o left = rest
  <2>1. /\ m + 1 \in 1..Len(p) + 1 /\ m + n \in (m + 1) - 1..Len(p)
        /\ Len(p) \in m + n..Len(p)
    BY <1>1
  <2> QED BY <2>1, ConcatAdjacentSubSeq
<1> HIDE DEF w, left, rest
<1>5. (f \o w) \o left = f \o (w \o left)
  <2>1. w \in Seq(S)
    BY <1>2
  <2> QED BY <2>1, <1>3, ConcatAssociative
<1>6. (f \o w) \o left = f \o rest
  BY <1>4, <1>5
<1> QED BY <1>6 DEF w, left, rest

(* ... and queueing adds to its end. *)
LEMMA Queued ==
  ASSUME NEW S, NEW p \in Seq(S), NEW e \in Seq(S), NEW m \in Nat, m <= Len(p)
  PROVE  /\ SubSeq(p \o e, m + 1, Len(p \o e)) = SubSeq(p, m + 1, Len(p)) \o e
         /\ SubSeq(p, m + 1, Len(p)) \in Seq(S)
<1> DEFINE rest == SubSeq(p, m + 1, Len(p))
<1> DEFINE q == p \o e
<1> DEFINE u == SubSeq(q, m + 1, Len(q))
<1>1. Len(p) \in Nat /\ Len(e) \in Nat
  BY LenProperties
<1>2. rest \in Seq(S) /\ Len(rest) = Len(p) - m
      /\ \A i \in 1..Len(p) - m : rest[i] = p[m + i]
  BY <1>1, Slice
<1>3. /\ q \in Seq(S) /\ Len(q) = Len(p) + Len(e)
      /\ \A i \in 1..Len(p) : q[i] = p[i]
      /\ \A i \in 1..Len(e) : q[Len(p) + i] = e[i]
  BY Joined
<1> HIDE DEF q
<1>4. u \in Seq(S) /\ Len(u) = Len(q) - m
      /\ \A i \in 1..Len(q) - m : u[i] = q[m + i]
  <2>1. Len(q) \in Nat /\ m <= Len(q) /\ Len(q) <= Len(q)
    BY <1>1, <1>3
  <2>2. q \in Seq(S)
    BY <1>3
  <2> QED BY <2>1, <2>2, Slice
<1> HIDE DEF rest, u
<1>5. /\ rest \o e \in Seq(S) /\ Len(rest \o e) = Len(rest) + Len(e)
      /\ \A i \in 1..Len(rest) : (rest \o e)[i] = rest[i]
      /\ \A i \in 1..Len(e) : (rest \o e)[Len(rest) + i] = e[i]
  <2>1. rest \in Seq(S)
    BY <1>2
  <2> QED BY <2>1, Joined
<1> DEFINE v == rest \o e
<1> HIDE DEF v
<1>6. v \in Seq(S) /\ Len(v) = Len(q) - m
  BY <1>1, <1>2, <1>3, <1>5 DEF v
<1>7. ASSUME NEW i \in 1..Len(q) - m
      PROVE  u[i] = v[i]
  <2>1. u[i] = q[m + i]
    BY <1>4
  <2>2. CASE m + i <= Len(p)
    <3>1. i \in 1..Len(p) - m /\ m + i \in 1..Len(p) /\ i \in 1..Len(rest)
      BY <2>2, <1>1, <1>2, <1>3
    <3>2. v[i] = rest[i] /\ rest[i] = p[m + i] /\ q[m + i] = p[m + i]
      BY <3>1, <1>2, <1>3, <1>5 DEF v
    <3> QED BY <2>1, <3>2
  <2>3. CASE m + i > Len(p)
    <3>1. /\ (m + i) - Len(p) \in 1..Len(e) /\ Len(p) + ((m + i) - Len(p)) = m + i
          /\ Len(rest) + ((m + i) - Len(p)) = i
      BY <2>3, <1>1, <1>2, <1>3
    <3>2. /\ q[Len(p) + ((m + i) - Len(p))] = e[(m + i) - Len(p)]
          /\ v[Len(rest) + ((m + i) - Len(p))] = e[(m + i) - Len(p)]
      BY <3>1, <1>3, <1>5 DEF v
    <3> QED BY <2>1, <3>1, <3>2
  <2> QED BY <2>2, <2>3, <1>1, <1>3
<1>8. u = v
  BY <1>4, <1>6, <1>7, SeqEqual
<1> QED BY <1>2, <1>8 DEF u, v, rest, q

(* The fields of a collector and their types. *)
LEMMA ColFields ==
  ASSUME NEW c \in ColState
  PROVE  /\ c.state \in {"stopped", "recording", "paused", "stopping"} /\ c.error \in Errors
         /\ c.session \in Ids /\ c.last_mode \in Modes \cup {None}
         /\ c.pending \in Seq(Event(Ids)) /\ c.file \in Seq(Event(Ids))
         /\ c.input \in [sequence : SUBSET Nat, text : SUBSET Nat, control : [Buckets -> SUBSET Nat]]
         /\ c.in_callback \in BOOLEAN /\ c.end_queued \in BOOLEAN /\ c.epoch \in Nat
         /\ c.scheduled \in BOOLEAN /\ c.deferred \in SUBSET Nat
         /\ c.payload \in {None} \cup Seq(Event(Ids)) /\ c.consumed \in Nat
         /\ c.published \in BOOLEAN /\ c.faults \in 0..MaxFaults
  BY DEF ColState

(* The trail, element by element. *)
LEMMA TrailParts ==
  ASSUME NEW c \in ColState, c.consumed <= Len(c.pending)
  PROVE  /\ Trail(c) \in Seq(Event(Ids))
         /\ Len(Trail(c)) = Len(c.file) + Len(c.pending) - c.consumed
         /\ \A i \in 1..Len(c.file) : Trail(c)[i] = c.file[i]
         /\ \A i \in 1..Len(c.pending) - c.consumed :
              Trail(c)[Len(c.file) + i] = c.pending[c.consumed + i]
<1> DEFINE S == Event(Ids)
<1> DEFINE rest == SubSeq(c.pending, c.consumed + 1, Len(c.pending))
<1>1. c.pending \in Seq(S) /\ c.file \in Seq(S) /\ c.consumed \in Nat
  BY ColFields
<1> HIDE DEF S
<1>2. Len(c.pending) \in Nat /\ Len(c.file) \in Nat
  BY <1>1, LenProperties
<1>3. /\ rest \in Seq(S) /\ Len(rest) = Len(c.pending) - c.consumed
      /\ \A i \in 1..Len(c.pending) - c.consumed : rest[i] = c.pending[c.consumed + i]
  <2> DEFINE p == c.pending
  <2> DEFINE m == c.consumed
  <2>1. p \in Seq(S) /\ m \in Nat /\ Len(p) \in Nat /\ m <= Len(p) /\ Len(p) <= Len(p)
    BY <1>1, <1>2
  <2> HIDE DEF p, m
  <2>2. /\ SubSeq(p, m + 1, Len(p)) \in Seq(S) /\ Len(SubSeq(p, m + 1, Len(p))) = Len(p) - m
        /\ \A i \in 1..Len(p) - m : SubSeq(p, m + 1, Len(p))[i] = p[m + i]
    BY <2>1, Slice
  <2> QED BY <2>2 DEF p, m
<1>4. Trail(c) = c.file \o rest
  BY DEF Trail
<1> HIDE DEF rest
<1>5. /\ c.file \o rest \in Seq(S) /\ Len(c.file \o rest) = Len(c.file) + Len(rest)
      /\ \A i \in 1..Len(c.file) : (c.file \o rest)[i] = c.file[i]
      /\ \A i \in 1..Len(rest) : (c.file \o rest)[Len(c.file) + i] = rest[i]
  <2> DEFINE front == c.file
  <2>1. front \in Seq(S) /\ rest \in Seq(S)
    BY <1>1, <1>3
  <2> HIDE DEF front
  <2>2. /\ front \o rest \in Seq(S) /\ Len(front \o rest) = Len(front) + Len(rest)
        /\ \A i \in 1..Len(front) : (front \o rest)[i] = front[i]
        /\ \A i \in 1..Len(rest) : (front \o rest)[Len(front) + i] = rest[i]
    BY <2>1, Joined
  <2> QED BY <2>2 DEF front
<1>6. ASSUME NEW i \in 1..Len(c.pending) - c.consumed
      PROVE  Trail(c)[Len(c.file) + i] = c.pending[c.consumed + i]
  BY <1>3, <1>4, <1>5
<1> QED BY <1>1, <1>2, <1>3, <1>4, <1>5, <1>6 DEF S

(* With nothing queued the trail is the file. *)
LEMMA TrailIsFile ==
  ASSUME NEW c \in ColState, c.pending = <<>>, c.consumed = 0
  PROVE  Trail(c) = c.file
<1>1. c.file \in Seq(Event(Ids))
  BY ColFields
<1>2. SubSeq(c.pending, c.consumed + 1, Len(c.pending)) = <<>>
  <2>1. c.consumed + 1 \in Int /\ Len(c.pending) \in Int /\ Len(c.pending) < c.consumed + 1
    OBVIOUS
  <2> QED BY <2>1, SubSeqEmpty
<1> QED BY <1>1, <1>2, ConcatEmptySeq DEF Trail

-----------------------------------------------------------------------------
(* The queue and the session writer *)

(* What a write leaves alone. *)
WriterOnly(c, d) ==
  /\ d.state = c.state /\ d.error = c.error /\ d.session = c.session
  /\ d.last_mode = c.last_mode /\ d.input = c.input /\ d.in_callback = c.in_callback
  /\ d.end_queued = c.end_queued /\ d.epoch = c.epoch /\ d.scheduled = c.scheduled
  /\ d.deferred = c.deferred /\ d.published = c.published

(* Write goes on where the file ends: the trail is the same afterwards, and *)
(* it is all in the file if nothing failed.                                 *)
LEMMA WriteOutcomes ==
  ASSUME NEW c \in ColState, BatchIsBegun(c), NEW o \in Write(c)
  PROVE  /\ o.col \in ColState /\ WriterOnly(c, o.col) /\ o.col.pending = c.pending
         /\ o.end \in {"done", "raised"}
         /\ o.end = "raised" => BatchIsBegun(o.col) /\ Trail(o.col) = Trail(c)
         /\ o.end = "done" => /\ o.col.payload = None /\ o.col.consumed = 0
                              /\ o.col.file = Trail(c)
<1> DEFINE batch == IF c.payload = None THEN c.pending ELSE c.payload
<1> DEFINE rest == SubSeq(batch, c.consumed + 1, Len(batch))
<1> DEFINE S == Event(Ids)
<1>1. /\ c.pending \in Seq(S) /\ c.file \in Seq(S) /\ c.consumed \in Nat
      /\ c.payload \in {None} \cup Seq(S) /\ c.faults \in 0..MaxFaults
  BY ColFields
<1>2. Len(c.pending) \in Nat /\ Len(c.file) \in Nat /\ c.consumed <= Len(c.pending)
  BY <1>1, LenProperties DEF BatchIsBegun
<1>3. CASE batch # c.pending
  <2>1. o = Raised(c)
    BY <1>3 DEF Write
  <2> QED BY <2>1 DEF Raised, WriterOnly
<1>4. CASE batch = c.pending
  <2>1. rest \in Seq(S) /\ Len(rest) = Len(c.pending) - c.consumed
    <3> DEFINE p == c.pending
    <3> DEFINE m == c.consumed
    <3>1. p \in Seq(S) /\ m \in Nat /\ Len(p) \in Nat /\ m <= Len(p) /\ Len(p) <= Len(p)
      BY <1>1, <1>2
    <3>2. rest = SubSeq(p, m + 1, Len(p))
      BY <1>4
    <3> HIDE DEF p, m, rest, S
    <3>3. SubSeq(p, m + 1, Len(p)) \in Seq(S) /\ Len(SubSeq(p, m + 1, Len(p))) = Len(p) - m
      BY <3>1, Slice
    <3> QED BY <3>2, <3>3 DEF p, m
  <2>2. c.file \o rest = Trail(c)
    BY <1>4 DEF Trail
  <2>3. Trail(c) \in Seq(S)
    BY <1>2, TrailParts
  <2>4. CASE o = Done([c EXCEPT !.file = @ \o rest, !.payload = None, !.consumed = 0])
    <3>1. o.end = "done" /\ o.col = [c EXCEPT !.file = Trail(c), !.payload = None, !.consumed = 0]
      BY <2>2, <2>4 DEF Done
    <3>2. o.col \in ColState
      <4> DEFINE d == o.col
      <4> DEFINE t == Trail(c)
      <4>1. t \in Seq(Event(Ids)) /\ d = [c EXCEPT !.file = t, !.payload = None, !.consumed = 0]
        BY <2>3, <3>1
      <4> HIDE DEF d, t, rest, batch
      <4>2. d \in ColState
        BY <4>1 DEF ColState
      <4> QED BY <4>2 DEF d
    <3> QED BY <3>1, <3>2 DEF WriterOnly, ColState
  <2>5. ASSUME NEW n \in 0..Len(rest) - 1, c.faults > 0,
               o = Raised([c EXCEPT !.file = @ \o SubSeq(rest, 1, n), !.payload = batch,
                                    !.consumed = @ + n, !.faults = @ - 1])
        PROVE  /\ o.col \in ColState /\ WriterOnly(c, o.col) /\ o.col.pending = c.pending
               /\ o.end = "raised" /\ BatchIsBegun(o.col) /\ Trail(o.col) = Trail(c)
    <3> DEFINE f == c.file
    <3> DEFINE p == c.pending
    <3> DEFINE m == c.consumed
    <3> DEFINE written == SubSeq(rest, 1, n)
    <3> DEFINE d == o.col
    <3>1. n \in Nat /\ m + n < Len(p) /\ m + n \in Nat
      BY <1>1, <1>2, <2>1
    <3>2. /\ written \in Seq(S) /\ Len(written) = n
          /\ \A i \in 1..n : written[i] = p[m + i]
          /\ (f \o written) \o SubSeq(p, m + n + 1, Len(p)) = f \o SubSeq(p, m + 1, Len(p))
      <4>1. f \in Seq(S)
        BY <1>1
      <4>2. p \in Seq(S)
        BY <1>1
      <4>3. m \in Nat
        BY <1>1
      <4>4. m + n <= Len(p)
        BY <1>1, <1>2, <3>1
      <4>5. written = SubSeq(SubSeq(p, m + 1, Len(p)), 1, n)
        BY <1>4
      <4>6. n \in Nat
        BY <3>1
      <4> HIDE DEF S, f, p, m, written, rest
      <4>7. SubSeq(SubSeq(p, m + 1, Len(p)), 1, n) = SubSeq(p, m + 1, m + n)
        BY <4>2, <4>3, <4>4, <4>6, TakeOfRest
      <4>8. (f \o SubSeq(p, m + 1, m + n)) \o SubSeq(p, m + n + 1, Len(p))
              = f \o SubSeq(p, m + 1, Len(p))
        BY <4>1, <4>2, <4>3, <4>4, <4>6, PartWritten
      <4>9. /\ SubSeq(p, m + 1, m + n) \in Seq(S) /\ Len(SubSeq(p, m + 1, m + n)) = (m + n) - m
            /\ \A i \in 1..(m + n) - m : SubSeq(p, m + 1, m + n)[i] = p[m + i]
        <5>1. m + n \in Nat /\ m <= m + n
          BY <4>3, <4>6
        <5> QED BY <5>1, <4>2, <4>3, <4>4, Slice
      <4>10. (m + n) - m = n
        BY <4>3, <4>6
      <4>11. written = SubSeq(p, m + 1, m + n)
        BY <4>5, <4>7
      <4> QED BY <4>8, <4>9, <4>10, <4>11
    <3>3. /\ d = [c EXCEPT !.file = f \o written, !.payload = p, !.consumed = m + n,
                           !.faults = c.faults - 1]
          /\ o.end = "raised"
      BY <1>4, <2>5 DEF Raised
    <3>4. /\ f \o written \in Seq(S) /\ Len(f \o written) = Len(f) + n
          /\ \A i \in 1..Len(f) : (f \o written)[i] = f[i]
          /\ \A i \in 1..n : (f \o written)[Len(f) + i] = p[m + i]
      <4>1. f \in Seq(S) /\ written \in Seq(S)
        BY <1>1, <3>2
      <4>2. Len(written) = n /\ \A i \in 1..n : written[i] = p[m + i]
        BY <3>2
      <4> HIDE DEF S, f, p, m, written
      <4>3. /\ f \o written \in Seq(S) /\ Len(f \o written) = Len(f) + Len(written)
            /\ \A i \in 1..Len(f) : (f \o written)[i] = f[i]
            /\ \A i \in 1..Len(written) : (f \o written)[Len(f) + i] = written[i]
        BY <4>1, Joined
      <4> QED BY <4>2, <4>3
    <3>5. d \in ColState
      <4>1. c.faults - 1 \in 0..MaxFaults
        <5>1. c.faults \in 0..MaxFaults /\ c.faults > 0 /\ MaxFaults \in Nat
          BY <1>1, <2>5, CollectorAssumption
        <5> QED BY <5>1
      <4> HIDE DEF d, written
      <4> QED BY <1>1, <3>1, <3>3, <3>4, <4>1 DEF ColState
    <3>6. WriterOnly(c, d) /\ d.pending = p
      <4> HIDE DEF written
      <4> QED BY <3>3 DEF WriterOnly, ColState
    <3>7. d.file = f \o written /\ d.payload = p /\ d.consumed = m + n
      <4> HIDE DEF written
      <4> QED BY <3>3 DEF ColState
    <3>8. Trail(d) = Trail(c)
      <4> HIDE DEF written, d
      <4> QED BY <3>2, <3>6, <3>7 DEF Trail
    <3>9. BatchIsBegun(d)
      <4> HIDE DEF written, d
      <4>1. Len(d.pending) <= MaxPending
        BY <3>6 DEF BatchIsBegun
      <4>2. d.payload # None
        BY <1>1, <3>7, CollectorAssumption DEF Ids
      <4>3. d.consumed < Len(d.payload) /\ Len(d.payload) <= Len(d.pending)
        BY <1>2, <3>1, <3>6, <3>7
      <4>4. ASSUME NEW i \in 1..d.consumed
            PROVE  \E j \in 1..Len(d.file) : d.file[j] = d.pending[i]
        <5>1. CASE i <= m
          <6>1. PICK j \in 1..Len(f) : f[j] = p[i]
            <7>1. i \in 1..m
              BY <1>1, <3>1, <3>7, <5>1
            <7> QED BY <7>1 DEF BatchIsBegun
          <6>2. j \in 1..Len(d.file) /\ d.file[j] = p[i]
            BY <1>2, <3>1, <3>4, <3>7, <6>1
          <6> QED BY <3>6, <6>2
        <5>2. CASE i > m
          <6>1. i - m \in 1..n /\ m + (i - m) = i
            BY <1>1, <3>1, <3>7, <5>2
          <6>2. (f \o written)[Len(f) + (i - m)] = p[m + (i - m)]
            BY <3>4, <6>1
          <6>3. Len(f) + (i - m) \in 1..Len(d.file)
            BY <1>2, <3>1, <3>4, <3>7, <6>1
          <6> QED BY <3>6, <3>7, <6>1, <6>2, <6>3
        <5> QED BY <5>1, <5>2, <1>1, <3>1
      <4> QED BY <4>1, <4>2, <4>3, <4>4 DEF BatchIsBegun
    <3> QED BY <3>3, <3>5, <3>6, <3>8, <3>9
  <2>6. \/ o = Done([c EXCEPT !.file = @ \o rest, !.payload = None, !.consumed = 0])
        \/ \E n \in 0..Len(rest) - 1 : c.faults > 0 /\
             o = Raised([c EXCEPT !.file = @ \o SubSeq(rest, 1, n), !.payload = batch,
                                  !.consumed = @ + n, !.faults = @ - 1])
    BY <1>4 DEF Write
  <2> HIDE DEF rest, batch
  <2> QED BY <2>4, <2>5, <2>6
<1> QED BY <1>3, <1>4

(* _write_pending leaves the trail as it is, and nothing in the queue if it *)
(* does not fail.                                                           *)
LEMMA WritePendingOutcomes ==
  ASSUME NEW c \in ColState, BatchIsBegun(c), NEW o \in WritePending(c)
  PROVE  /\ o.col \in ColState /\ BatchIsBegun(o.col) /\ WriterOnly(c, o.col)
         /\ Trail(o.col) = Trail(c)
         /\ o.end \in {"done", "raised"}
         /\ o.end = "done" => /\ o.col.pending = <<>> /\ o.col.payload = None
                              /\ o.col.consumed = 0 /\ o.col.file = Trail(c)
<1>1. /\ c.pending \in Seq(Event(Ids)) /\ c.consumed \in Nat
      /\ c.payload \in {None} \cup Seq(Event(Ids))
  BY ColFields
<1>2. CASE c.pending = <<>>
  <2>1. o = Done(c)
    BY <1>2 DEF WritePending
  <2>2. c.payload = None
    <3>1. c.payload # None => c.payload \in Seq(Event(Ids))
      BY <1>1
    <3>2. c.payload # None => Len(c.payload) \in Nat
      BY <3>1, LenProperties
    <3>3. c.payload # None => c.consumed < Len(c.payload) /\ Len(c.payload) <= 0
      BY <1>2 DEF BatchIsBegun
    <3> QED BY <1>1, <3>2, <3>3
  <2>3. c.consumed = 0
    BY <2>2 DEF BatchIsBegun
  <2>4. Trail(c) = c.file
    BY <1>2, <2>3, TrailIsFile
  <2> QED BY <1>2, <2>1, <2>2, <2>3, <2>4 DEF Done, WriterOnly
<1>3. CASE c.pending # <<>>
  <2>1. PICK w \in Write(c) : IF w.end = "done" THEN o = Done([w.col EXCEPT !.pending = <<>>])
                                                ELSE o = w
    BY <1>3 DEF WritePending, Then
  <2>2. /\ w.col \in ColState /\ WriterOnly(c, w.col) /\ w.col.pending = c.pending
        /\ w.end \in {"done", "raised"}
        /\ w.end = "raised" => BatchIsBegun(w.col) /\ Trail(w.col) = Trail(c)
        /\ w.end = "done" => /\ w.col.payload = None /\ w.col.consumed = 0
                             /\ w.col.file = Trail(c)
    BY WriteOutcomes
  <2>3. CASE w.end = "done"
    <3> DEFINE d == [w.col EXCEPT !.pending = <<>>]
    <3>1. o = Done(d)
      BY <2>1, <2>3
    <3>2. d \in ColState
      <4>1. <<>> \in Seq(Event(Ids))
        BY EmptySeq
      <4> QED BY <2>2, <4>1 DEF ColState
    <3>3. /\ d.pending = <<>> /\ d.payload = None /\ d.consumed = 0 /\ d.file = Trail(c)
          /\ WriterOnly(c, d)
      BY <2>2, <2>3 DEF WriterOnly, ColState
    <3> HIDE DEF d
    <3>4. Trail(d) = Trail(c)
      BY <3>2, <3>3, TrailIsFile
    <3>5. BatchIsBegun(d)
      <4>1. Len(d.pending) <= MaxPending
        BY <3>3, CollectorAssumption
      <4> QED BY <3>3, <4>1 DEF BatchIsBegun
    <3> QED BY <3>1, <3>2, <3>3, <3>4, <3>5 DEF Done
  <2>4. CASE w.end # "done"
    BY <2>1, <2>2, <2>4
  <2> QED BY <2>3, <2>4
<1> QED BY <1>2, <1>3

(* A failure in Neovim or the file system changes nothing of the collector. *)
LEMMA MayFailOutcomes ==
  ASSUME NEW c \in ColState, NEW o \in MayFail(c)
  PROVE  /\ o.col \in ColState /\ WriterOnly(c, o.col)
         /\ o.col.pending = c.pending /\ o.col.payload = c.payload
         /\ o.col.consumed = c.consumed /\ o.col.file = c.file
         /\ o.end \in {"done", "raised"}
         /\ o.end = "done" => o.col = c
<1>1. c.faults \in 0..MaxFaults /\ MaxFaults \in Nat
  BY ColFields, CollectorAssumption
<1>2. CASE o = Done(c)
  BY <1>2 DEF Done, WriterOnly
<1>3. CASE c.faults > 0 /\ o = Raised([c EXCEPT !.faults = @ - 1])
  <2>1. c.faults - 1 \in 0..MaxFaults
    BY <1>1, <1>3
  <2>2. [c EXCEPT !.faults = @ - 1] \in ColState
    BY <2>1 DEF ColState
  <2> QED BY <1>3, <2>2 DEF Raised, WriterOnly, ColState
<1> QED BY <1>2, <1>3 DEF MayFail

(* What queueing leaves alone when it is not refused. *)
QueueOnly(c, d) ==
  /\ d.state = c.state /\ d.error = c.error /\ d.session = c.session
  /\ d.last_mode = c.last_mode /\ d.input = c.input /\ d.in_callback = c.in_callback
  /\ d.end_queued = c.end_queued /\ d.epoch = c.epoch /\ d.published = c.published

(* _queue_many refuses and drops nothing but open input, or appends the     *)
(* events to the trail, written or not.                                     *)
LEMMA QueueManyOutcomes ==
  ASSUME NEW c \in ColState, BatchIsBegun(c), NEW events \in Seq(Event(Ids)),
         NEW o \in QueueMany(c, events)
  PROVE  /\ o.end \in {"done", "refused", "raised"}
         /\ o.end = "refused" =>
              \/ o.col = c /\ c.in_callback /\ c.error # "none"
              \/ o.col = OverLimit(c) /\ Len(c.pending) + Len(events) > MaxPending
         /\ o.end # "refused" =>
              /\ o.col \in ColState /\ BatchIsBegun(o.col) /\ QueueOnly(c, o.col)
              /\ Trail(o.col) = Trail(c) \o events
              /\ c.in_callback => o.end = "done" /\ Len(o.col.pending) = Len(c.pending) + Len(events)
              /\ ~c.in_callback /\ o.end = "done" =>
                   /\ o.col.pending = <<>> /\ o.col.payload = None
                   /\ o.col.consumed = 0 /\ o.col.file = Trail(c) \o events
<1> DEFINE S == Event(Ids)
<1> DEFINE p == c.pending
<1> DEFINE q == p \o events
<1> DEFINE queued == [c EXCEPT !.pending = q]
<1>1. /\ p \in Seq(S) /\ c.file \in Seq(S) /\ c.consumed \in Nat
      /\ c.payload \in {None} \cup Seq(S) /\ c.scheduled \in BOOLEAN
      /\ c.deferred \in SUBSET Nat /\ c.epoch \in Nat
  BY ColFields
<1>2. Len(p) \in Nat /\ Len(events) \in Nat /\ c.consumed <= Len(p)
  <2>1. Len(p) \in Nat /\ Len(events) \in Nat
    BY <1>1, LenProperties
  <2> QED BY <1>1, <2>1 DEF BatchIsBegun
<1>3. CASE c.in_callback /\ c.error # "none"
  BY <1>3 DEF QueueMany, Refused
<1>4. CASE ~(c.in_callback /\ c.error # "none") /\ Len(p) + Len(events) > MaxPending
  BY <1>4 DEF QueueMany, Refused
<1>5. CASE ~(c.in_callback /\ c.error # "none") /\ Len(p) + Len(events) <= MaxPending
  <2>1. o \in (IF c.in_callback THEN {Done(SchedulePendingWrite(queued))} ELSE WritePending(queued))
    <3>1. ~(Len(p) + Len(events) > MaxPending)
      BY <1>2, <1>5, CollectorAssumption
    <3> QED BY <1>5, <3>1 DEF QueueMany
  <2>2. /\ q \in Seq(S) /\ Len(q) = Len(p) + Len(events)
        /\ \A i \in 1..Len(p) : q[i] = p[i]
    <3>1. p \in Seq(S) /\ events \in Seq(S)
      BY <1>1
    <3> HIDE DEF p, S
    <3> QED BY <3>1, Joined
  <2>3. queued \in ColState
    <3> HIDE DEF q
    <3> QED BY <2>2 DEF ColState
  <2>4. /\ queued.pending = q /\ queued.payload = c.payload /\ queued.consumed = c.consumed
        /\ queued.file = c.file /\ WriterOnly(c, queued)
    <3> HIDE DEF q
    <3> QED BY DEF ColState, WriterOnly
  <2>5. BatchIsBegun(queued)
    <3> HIDE DEF queued, q
    <3>1. Len(queued.pending) <= MaxPending
      BY <1>5, <2>2, <2>4
    <3>2. queued.payload # None =>
            queued.consumed < Len(queued.payload) /\ Len(queued.payload) <= Len(queued.pending)
      <4>1. c.payload # None => Len(c.payload) \in Nat
        BY <1>1, LenProperties
      <4>2. c.payload # None => c.consumed < Len(c.payload) /\ Len(c.payload) <= Len(p)
        BY DEF BatchIsBegun
      <4> QED BY <1>2, <2>2, <2>4, <4>1, <4>2
    <3>3. ASSUME NEW i \in 1..queued.consumed
          PROVE  \E j \in 1..Len(queued.file) : queued.file[j] = queued.pending[i]
      <4>1. i \in 1..c.consumed /\ i \in 1..Len(p)
        BY <1>1, <1>2, <2>4
      <4>2. PICK j \in 1..Len(c.file) : c.file[j] = p[i]
        BY <4>1 DEF BatchIsBegun
      <4>3. queued.pending[i] = p[i]
        BY <2>2, <2>4, <4>1
      <4> QED BY <2>4, <4>2, <4>3
    <3>4. queued.payload = None => queued.consumed = 0
      BY <2>4 DEF BatchIsBegun
    <3> QED BY <3>1, <3>2, <3>3, <3>4 DEF BatchIsBegun
  <2>6. Trail(queued) = Trail(c) \o events
    <3> DEFINE f == c.file
    <3> DEFINE m == c.consumed
    <3> DEFINE e == events
    <3>1. f \in Seq(S)
      BY <1>1
    <3>2. p \in Seq(S)
      BY <1>1
    <3>3. e \in Seq(S)
      OBVIOUS
    <3>4. m \in Nat
      BY <1>1
    <3>5. m <= Len(p)
      BY <1>2
    <3>6. /\ Trail(queued) = f \o SubSeq(p \o e, m + 1, Len(p \o e))
          /\ Trail(c) = f \o SubSeq(p, m + 1, Len(p))
      <4> HIDE DEF queued
      <4> QED BY <2>4 DEF Trail
    <3> HIDE DEF f, m, p, S, e, queued, q
    <3> DEFINE rest == SubSeq(p, m + 1, Len(p))
    <3>7. SubSeq(p \o e, m + 1, Len(p \o e)) = rest \o e /\ rest \in Seq(S)
      BY <3>2, <3>3, <3>4, <3>5, Queued
    <3>8. Trail(queued) = f \o (rest \o e) /\ Trail(c) = f \o rest
      BY <3>6, <3>7
    <3> HIDE DEF rest
    <3>9. (f \o rest) \o e = f \o (rest \o e)
      BY <3>1, <3>3, <3>7, ConcatAssociative
    <3>10. Trail(queued) = Trail(c) \o e
      BY <3>8, <3>9
    <3> QED BY <3>10 DEF e
  <2>7. CASE c.in_callback
    <3> DEFINE d == SchedulePendingWrite(queued)
    <3>1. o = Done(d)
      BY <2>1, <2>7
    <3>2. d = queued \/ d = [queued EXCEPT !.scheduled = TRUE, !.deferred = @ \cup {queued.epoch}]
      BY DEF SchedulePendingWrite
    <3>3. queued.epoch \in Nat /\ queued.deferred \in SUBSET Nat
      BY <2>3, ColFields
    <3> HIDE DEF queued, q
    <3>4. /\ d \in ColState /\ QueueOnly(queued, d) /\ d.pending = queued.pending
          /\ d.payload = queued.payload /\ d.consumed = queued.consumed /\ d.file = queued.file
      <4>1. CASE d = queued
        BY <2>3, <4>1 DEF QueueOnly
      <4>2. CASE d = [queued EXCEPT !.scheduled = TRUE, !.deferred = @ \cup {queued.epoch}]
        <5>1. queued.deferred \cup {queued.epoch} \in SUBSET Nat
          BY <3>3
        <5> HIDE DEF d
        <5> QED BY <2>3, <4>2, <5>1 DEF QueueOnly, ColState
      <4> QED BY <3>2, <4>1, <4>2
    <3> HIDE DEF d
    <3>5. BatchIsBegun(d)
      BY <2>5, <3>4 DEF BatchIsBegun
    <3>6. Trail(d) = Trail(queued)
      BY <3>4 DEF Trail
    <3>7. QueueOnly(c, d)
      BY <2>4, <3>4 DEF QueueOnly, WriterOnly
    <3>8. Len(d.pending) = Len(p) + Len(events)
      BY <2>2, <2>4, <3>4
    <3>9. o.end = "done" /\ o.col = d
      BY <3>1 DEF Done
    <3> QED BY <2>6, <2>7, <3>4, <3>5, <3>6, <3>7, <3>8, <3>9
  <2>8. CASE ~c.in_callback
    <3>1. o \in WritePending(queued)
      BY <2>1, <2>8
    <3> HIDE DEF queued, q
    <3>2. /\ o.col \in ColState /\ BatchIsBegun(o.col) /\ WriterOnly(queued, o.col)
          /\ Trail(o.col) = Trail(queued)
          /\ o.end \in {"done", "raised"}
          /\ o.end = "done" => /\ o.col.pending = <<>> /\ o.col.payload = None
                               /\ o.col.consumed = 0 /\ o.col.file = Trail(queued)
      BY <2>3, <2>5, <3>1, WritePendingOutcomes
    <3>3. QueueOnly(c, o.col)
      BY <2>4, <3>2 DEF QueueOnly, WriterOnly
    <3> QED BY <2>6, <2>8, <3>2, <3>3
  <2>9. c.in_callback \in BOOLEAN
    BY ColFields
  <2> QED BY <2>7, <2>8, <2>9
<1>6. Len(p) + Len(events) <= MaxPending \/ Len(p) + Len(events) > MaxPending
  BY <1>2, CollectorAssumption
<1> QED BY <1>3, <1>4, <1>5, <1>6

-----------------------------------------------------------------------------
(* Events added to the trail *)

(* The trail is a sequence of events as long as what is written and what is *)
(* not.                                                                     *)
LEMMA TrailType ==
  ASSUME NEW c \in ColState, BatchIsBegun(c)
  PROVE  /\ Trail(c) \in Seq(Event(Ids)) /\ Len(Trail(c)) \in Nat
         /\ c.consumed <= Len(c.pending) /\ Len(c.pending) \in Nat /\ Len(c.file) \in Nat
         /\ Len(Trail(c)) = Len(c.file) + Len(c.pending) - c.consumed
<1>1. /\ c.pending \in Seq(Event(Ids)) /\ c.consumed \in Nat /\ c.file \in Seq(Event(Ids))
      /\ c.payload \in {None} \cup Seq(Event(Ids))
  BY ColFields
<1>2. Len(c.pending) \in Nat /\ Len(c.file) \in Nat
  BY <1>1, LenProperties
<1>3. c.consumed <= Len(c.pending)
  <2>1. c.payload # None => Len(c.payload) \in Nat
    BY <1>1, LenProperties
  <2> QED BY <1>1, <1>2, <2>1 DEF BatchIsBegun
<1>4. Trail(c) \in Seq(Event(Ids)) /\ Len(Trail(c)) = Len(c.file) + Len(c.pending) - c.consumed
  BY <1>3, TrailParts
<1>5. Len(Trail(c)) \in Nat
  BY <1>4, LenProperties
<1> QED BY <1>2, <1>3, <1>4, <1>5

(* An element of a log with events added is one of the log or one of them. *)
LEMMA Added ==
  ASSUME NEW S, NEW t \in Seq(S), NEW events \in Seq(S), NEW i \in 1..Len(t \o events)
  PROVE  /\ i \in Nat /\ Len(t) \in Nat /\ Len(events) \in Nat
         /\ Len(t \o events) = Len(t) + Len(events)
         /\ \/ i \in 1..Len(t) /\ (t \o events)[i] = t[i]
            \/ /\ i > Len(t) /\ i - Len(t) \in 1..Len(events)
               /\ (t \o events)[i] = events[i - Len(t)]
<1> DEFINE u == t \o events
<1>1. Len(t) \in Nat /\ Len(events) \in Nat
  BY LenProperties
<1>2. /\ u \in Seq(S) /\ Len(u) = Len(t) + Len(events)
      /\ \A j \in 1..Len(t) : u[j] = t[j]
      /\ \A j \in 1..Len(events) : u[Len(t) + j] = events[j]
  BY Joined
<1>3. i \in 1..Len(u)
  OBVIOUS
<1> HIDE DEF u
<1>4. CASE i <= Len(t)
  <2>1. i \in 1..Len(t)
    BY <1>1, <1>2, <1>3, <1>4
  <2> QED BY <1>1, <1>2, <2>1 DEF u
<1>5. CASE i > Len(t)
  <2>1. i - Len(t) \in 1..Len(events) /\ Len(t) + (i - Len(t)) = i /\ i \in Nat
    BY <1>1, <1>2, <1>3, <1>5
  <2>2. u[Len(t) + (i - Len(t))] = events[i - Len(t)]
    BY <1>2, <2>1
  <2> QED BY <1>1, <1>2, <1>5, <2>1, <2>2 DEF u
<1> QED BY <1>1, <1>2, <1>3, <1>4, <1>5

(* Marks of a log with events added. *)
LEMMA MarksAdded ==
  ASSUME NEW S, NEW t \in Seq(S), NEW events \in Seq(S)
  PROVE  Marks(t \o events) = Marks(t) \cup Marks(events)
<1> DEFINE u == t \o events
<1>1. Len(t) \in Nat /\ Len(events) \in Nat
  BY LenProperties
<1>2. /\ u \in Seq(S) /\ Len(u) = Len(t) + Len(events)
      /\ \A j \in 1..Len(t) : u[j] = t[j]
      /\ \A j \in 1..Len(events) : u[Len(t) + j] = events[j]
  BY Joined
<1>3. DOMAIN t = 1..Len(t) /\ DOMAIN events = 1..Len(events) /\ DOMAIN u = 1..Len(u)
  BY <1>2, LenProperties
<1>4. ToSet(t) \subseteq ToSet(u)
  <2>1. \A j \in 1..Len(t) : j \in 1..Len(u)
    BY <1>1, <1>2
  <2> HIDE DEF u
  <2> QED BY <2>1, <1>2, <1>3 DEF ToSet
<1>5. ToSet(events) \subseteq ToSet(u)
  <2>1. \A j \in 1..Len(events) : Len(t) + j \in 1..Len(u)
    BY <1>1, <1>2
  <2> HIDE DEF u
  <2> QED BY <2>1, <1>2, <1>3 DEF ToSet
<1>6. ToSet(u) \subseteq ToSet(t) \cup ToSet(events)
  <2>1. ASSUME NEW i \in 1..Len(u)
        PROVE  u[i] \in ToSet(t) \cup ToSet(events)
    <3>1. \/ i \in 1..Len(t) /\ u[i] = t[i]
          \/ i - Len(t) \in 1..Len(events) /\ u[i] = events[i - Len(t)]
      BY Added
    <3> HIDE DEF u
    <3> QED BY <3>1, <1>3 DEF ToSet
  <2> HIDE DEF u
  <2> QED BY <2>1, <1>3 DEF ToSet
<1>7. ToSet(u) = ToSet(t) \cup ToSet(events)
  BY <1>4, <1>5, <1>6
<1> HIDE DEF u
<1>8. Marks(u) = Marks(t) \cup Marks(events)
  BY <1>7 DEF Marks
<1> QED BY <1>8 DEF u

(* The input that is held only shrinks. *)
Shrinks(c, d) ==
  /\ d.input.sequence \subseteq c.input.sequence /\ d.input.text \subseteq c.input.text
  /\ HeldBuckets(d) \subseteq HeldBuckets(c)

(* The events an open session may get next: none starts or ends it, and a   *)
(* sequence or text run comes alone, with keys that were held and come      *)
(* before those still held.                                                 *)
MayFollow(c, d, events) ==
  /\ c.end_queued => Len(events) = 0
  /\ \A i \in 1..Len(events) :
       /\ ValidPayload(events[i]) /\ events[i].session = c.session
       /\ events[i].kind \notin {"session_start", "session_end"}
       /\ Typed(events[i]) =>
            /\ Len(events) = 1 /\ events[i].keys \subseteq Held(c)
            /\ \A l \in events[i].keys, m \in Held(d) : l < m

(* Where nothing is held, dropping input leaves nothing held. *)
LEMMA NoInputLeft ==
  ASSUME NEW c \in ColState, c.input = NoInput, NEW d \in ColState, Shrinks(c, d)
  PROVE  d.input = NoInput
<1>1. d.input \in [sequence : SUBSET Nat, text : SUBSET Nat, control : [Buckets -> SUBSET Nat]]
  BY ColFields
<1>2. d.input.sequence = {} /\ d.input.text = {}
  BY DEF Shrinks, NoInput
<1>3. HeldBuckets(c) = {}
  BY DEF HeldBuckets, NoInput
<1>4. \A b \in Buckets : d.input.control[b] = {}
  BY <1>3 DEF Shrinks, HeldBuckets
<1>5. d.input.control = [b \in Buckets |-> {}]
  BY <1>1, <1>4
<1> QED BY <1>1, <1>2, <1>5 DEF NoInput

(* Fewer held buckets are still within the limit. *)
LEMMA FewBuckets ==
  ASSUME NEW c, Cardinality(HeldBuckets(c)) <= MaxBuckets, NEW d,
         HeldBuckets(d) \subseteq HeldBuckets(c)
  PROVE  Cardinality(HeldBuckets(d)) <= MaxBuckets
<1>1. IsFiniteSet(HeldBuckets(c))
  <2>1. HeldBuckets(c) \subseteq Buckets
    BY DEF HeldBuckets
  <2> QED BY <2>1, FS_Subset, CollectorAssumption
<1>2. IsFiniteSet(HeldBuckets(d)) /\ Cardinality(HeldBuckets(d)) <= Cardinality(HeldBuckets(c))
  BY <1>1, FS_Subset
<1>3. Cardinality(HeldBuckets(c)) \in Nat /\ Cardinality(HeldBuckets(d)) \in Nat
  BY <1>1, <1>2, FS_CardinalityType
<1> QED BY <1>2, <1>3, CollectorAssumption

(* What is queued from an aggregate keeps everything in order. *)
LEMMA Moved ==
  ASSUME NEW k \in Nat, NEW c, Good(c, k), NEW d \in ColState, BatchIsBegun(d),
         NEW events \in Seq(Event(Ids)), Trail(d) = Trail(c) \o events,
         d.session = c.session, d.end_queued = c.end_queued,
         Shrinks(c, d), MayFollow(c, d, events)
  PROVE  Good(d, k)
<1> DEFINE S == Event(Ids)
<1> DEFINE t == Trail(c)
<1> DEFINE u == Trail(d)
<1>1. c \in ColState /\ BatchIsBegun(c) /\ Cardinality(HeldBuckets(c)) <= MaxBuckets
  BY DEF Good, Sound
<1>2. t \in Seq(S) /\ u \in Seq(S) /\ Len(t) \in Nat /\ Len(u) \in Nat /\ Len(events) \in Nat
  BY <1>1, TrailType, LenProperties
<1>3. u = t \o events
  OBVIOUS
<1>4. Held(d) \subseteq Held(c) /\ Held(c) \subseteq Nat /\ Held(d) \subseteq Nat
  <2>1. c.input \in [sequence : SUBSET Nat, text : SUBSET Nat, control : [Buckets -> SUBSET Nat]]
    BY <1>1, ColFields
  <2> QED BY <2>1 DEF Held, Shrinks
<1>5. \A i \in 1..Len(t) : t[i].keys \subseteq Nat
  <2>1. \A i \in 1..Len(t) : t[i] \in S
    BY <1>2, ElementOfSeq
  <2> HIDE DEF t
  <2> QED BY <2>1 DEF Event
<1>6. \A i \in 1..Len(events) : events[i].keys \subseteq Nat
  <2>1. \A i \in 1..Len(events) : events[i] \in S
    BY <1>2, ElementOfSeq
  <2> QED BY <2>1 DEF Event
<1>7. Len(u) = Len(t) + Len(events)
  <2> HIDE DEF t, u, S
  <2> QED BY <1>2, <1>3, Joined
<1>8. ASSUME NEW i \in 1..Len(u)
      PROVE  \/ i \in 1..Len(t) /\ u[i] = t[i]
             \/ i > Len(t) /\ i - Len(t) \in 1..Len(events) /\ u[i] = events[i - Len(t)]
  <2>1. i \in 1..Len(t \o events)
    BY <1>3
  <2>2. t \in Seq(S) /\ events \in Seq(S)
    BY <1>2
  <2> HIDE DEF t, u, S
  <2>3. \/ i \in 1..Len(t) /\ (t \o events)[i] = t[i]
        \/ i > Len(t) /\ i - Len(t) \in 1..Len(events) /\ (t \o events)[i] = events[i - Len(t)]
    BY <2>1, <2>2, Added
  <2> QED BY <1>3, <2>3
<1> HIDE DEF t, u, S
<1>9. Sound(d)
  <2>1. Cardinality(HeldBuckets(d)) <= MaxBuckets
    BY <1>1, FewBuckets DEF Shrinks
  <2> QED BY <2>1 DEF Sound
<1>10. OneOpen(d)
  BY DEF Good, OneOpen, Shrinks
<1>11. OneSession(d)
  <2>1. /\ Len(t) >= 1
        /\ \A i \in 1..Len(t) :
             /\ ValidPayload(t[i]) /\ t[i].session = c.session
             /\ t[i].kind = "session_start" <=> i = 1
             /\ t[i].kind = "session_end" => i = Len(t) /\ c.end_queued
        /\ c.end_queued => t[Len(t)].kind = "session_end" /\ c.input = NoInput
    BY DEF Good, OneSession, t
  <2>2. ASSUME NEW i \in 1..Len(u)
        PROVE  /\ ValidPayload(u[i]) /\ u[i].session = d.session
               /\ u[i].kind = "session_start" <=> i = 1
               /\ u[i].kind = "session_end" => i = Len(u) /\ d.end_queued
    <3>1. CASE i \in 1..Len(t) /\ u[i] = t[i]
      <4>1. /\ ValidPayload(t[i]) /\ t[i].session = c.session
            /\ t[i].kind = "session_start" <=> i = 1
            /\ t[i].kind = "session_end" => i = Len(t) /\ c.end_queued
        BY <2>1, <3>1
      <4>2. c.end_queued => Len(events) = 0
        BY DEF MayFollow
      <4>3. t[i].kind = "session_end" => i = Len(u)
        BY <1>2, <1>7, <4>1, <4>2
      <4> QED BY <3>1, <4>1, <4>3
    <3>2. CASE i > Len(t) /\ i - Len(t) \in 1..Len(events) /\ u[i] = events[i - Len(t)]
      <4>1. /\ ValidPayload(u[i]) /\ u[i].session = c.session
            /\ u[i].kind # "session_start" /\ u[i].kind # "session_end"
        BY <3>2 DEF MayFollow
      <4>2. i # 1
        BY <1>2, <2>1, <3>2
      <4> QED BY <4>1, <4>2
    <3> QED BY <1>8, <3>1, <3>2
  <2>3. d.end_queued => u[Len(u)].kind = "session_end" /\ d.input = NoInput
    <3>1. HAVE d.end_queued
    <3>2. c.end_queued /\ Len(events) = 0
      BY <3>1 DEF MayFollow
    <3>3. Len(u) = Len(t) /\ Len(u) \in 1..Len(u)
      BY <1>2, <1>7, <2>1, <3>2
    <3>4. u[Len(u)] = t[Len(t)]
      BY <1>2, <1>8, <3>3
    <3>5. d.input = NoInput
      BY <1>1, <2>1, <3>2, NoInputLeft
    <3> QED BY <2>1, <3>2, <3>4, <3>5
  <2>4. Len(u) >= 1
    BY <1>2, <1>7, <2>1
  <2> QED BY <2>2, <2>3, <2>4 DEF OneSession, u
<1>12. InOrder(d, k)
  <2>1. ASSUME NEW i \in 1..Len(t), NEW j \in 1..Len(t), i < j, Typed(t[i]), Typed(t[j])
        PROVE  \A l \in t[i].keys, m \in t[j].keys : l < m
    BY <2>1 DEF Good, InOrder, t
  <2>2. ASSUME NEW i \in 1..Len(t), Typed(t[i])
        PROVE  \A l \in t[i].keys : l < k /\ \A m \in Held(c) : l < m
    BY <2>2 DEF Good, InOrder, t
  <2>3. \A l \in Held(c) : l < k
    BY DEF Good, InOrder
  <2>4. ASSUME NEW i \in 1..Len(u), NEW j \in 1..Len(u), i < j, Typed(u[i]), Typed(u[j])
        PROVE  \A l \in u[i].keys, m \in u[j].keys : l < m
    <3>1. CASE i \in 1..Len(t) /\ u[i] = t[i] /\ j \in 1..Len(t) /\ u[j] = t[j]
      BY <2>1, <2>4, <3>1
    <3>2. CASE /\ i \in 1..Len(t) /\ u[i] = t[i]
               /\ j > Len(t) /\ j - Len(t) \in 1..Len(events) /\ u[j] = events[j - Len(t)]
      <4>1. u[j].keys \subseteq Held(c)
        BY <2>4, <3>2 DEF MayFollow
      <4> QED BY <2>2, <2>4, <3>2, <4>1
    <3>3. CASE i > Len(t) /\ i - Len(t) \in 1..Len(events) /\ u[i] = events[i - Len(t)]
      <4>1. Len(events) = 1
        BY <2>4, <3>3 DEF MayFollow
      <4>2. i = Len(t) + 1 /\ j <= Len(t) + 1
        BY <1>2, <1>7, <3>3, <4>1
      <4> QED BY <1>2, <2>4, <4>2
    <3> QED BY <1>8, <3>1, <3>2, <3>3
  <2>5. ASSUME NEW i \in 1..Len(u), Typed(u[i])
        PROVE  \A l \in u[i].keys : l < k /\ \A m \in Held(d) : l < m
    <3>1. CASE i \in 1..Len(t) /\ u[i] = t[i]
      BY <1>4, <2>2, <2>5, <3>1
    <3>2. CASE i > Len(t) /\ i - Len(t) \in 1..Len(events) /\ u[i] = events[i - Len(t)]
      <4>1. /\ u[i].keys \subseteq Held(c)
            /\ \A l \in u[i].keys, m \in Held(d) : l < m
        BY <2>5, <3>2 DEF MayFollow
      <4> QED BY <2>3, <4>1
    <3> QED BY <1>8, <3>1, <3>2
  <2>6. \A l \in Held(d) : l < k
    BY <1>4, <2>3
  <2> QED BY <2>4, <2>5, <2>6 DEF InOrder, u
<1> QED BY <1>9, <1>10, <1>11, <1>12 DEF Good

(* The same queue and file. *)
SameLog(c, d) ==
  /\ d.pending = c.pending /\ d.payload = c.payload /\ d.consumed = c.consumed
  /\ d.file = c.file /\ d.session = c.session /\ d.end_queued = c.end_queued

(* The trail depends on the queue and the writer alone. *)
LEMMA SameTrail ==
  ASSUME NEW c, NEW d, SameLog(c, d)
  PROVE  /\ Trail(d) = Trail(c)
         /\ BatchIsBegun(c) => BatchIsBegun(d)
<1>1. Trail(d) = Trail(c)
  BY DEF SameLog, Trail
<1>2. BatchIsBegun(c) => BatchIsBegun(d)
  BY DEF SameLog, BatchIsBegun
<1> QED BY <1>1, <1>2

(* Dropping input keeps the invariant of a session. *)
LEMMA Dropped ==
  ASSUME NEW k \in Nat, NEW c, Good(c, k), NEW d \in ColState, SameLog(c, d), Shrinks(c, d)
  PROVE  Good(d, k)
<1>1. Trail(d) = Trail(c) /\ BatchIsBegun(d) /\ c \in ColState /\ BatchIsBegun(c)
  BY SameTrail DEF Good, Sound
<1>2. Trail(c) \in Seq(Event(Ids))
  BY <1>1, TrailType
<1> DEFINE none == <<>>
<1>3. none \in Seq(Event(Ids)) /\ Len(none) = 0
  BY EmptySeq
<1>4. Trail(c) \o none = Trail(c)
  BY <1>2, ConcatEmptySeq
<1> HIDE DEF none
<1>5. MayFollow(c, d, none)
  BY <1>3 DEF MayFollow
<1>6. Trail(d) = Trail(c) \o none
  BY <1>1, <1>4
<1>7. d.session = c.session /\ d.end_queued = c.end_queued
  BY DEF SameLog
<1> QED BY <1>1, <1>3, <1>5, <1>6, <1>7, Moved

-----------------------------------------------------------------------------
(* What an operation on an open session guarantees *)

Frame(c, d) ==
  /\ d.state = c.state /\ d.session = c.session /\ d.last_mode = c.last_mode
  /\ d.in_callback = c.in_callback /\ d.end_queued = c.end_queued
  /\ d.epoch = c.epoch /\ d.published = c.published

KeptBy(c) == InMemory(c) \cup Marks(Trail(c))

(* An operation is refused only where the queue may be full, inside the     *)
(* callback or before it is written; nothing is dropped unless it is.       *)
Preserves(c, o, k) ==
  /\ o.end \in {"done", "refused", "raised"}
  /\ Good(o.col, k) /\ Frame(c, o.col) /\ Shrinks(c, o.col)
  /\ o.end # "refused" => o.col.error = c.error /\ KeptBy(c) \subseteq KeptBy(o.col)
  /\ o.end = "refused" => /\ c.in_callback \/ c.pending # <<>>
                          /\ c.error = "none" => o.col.error = "limit"
  /\ o.end = "done" /\ ~c.in_callback /\ c.pending = <<>> => o.col.pending = <<>>

(* Operations in a row. *)
LEMMA PreservesInTurn ==
  ASSUME NEW k, NEW c, NEW o, Preserves(c, o, k), o.end = "done",
         NEW p, Preserves(o.col, p, k)
  PROVE  Preserves(c, p, k)
<1>1. Frame(c, p.col)
  BY DEF Preserves, Frame
<1>2. Shrinks(c, p.col)
  BY DEF Preserves, Shrinks
<1>3. p.end # "refused" => p.col.error = c.error /\ KeptBy(c) \subseteq KeptBy(p.col)
  BY DEF Preserves
<1>4. p.end = "refused" => /\ c.in_callback \/ c.pending # <<>>
                           /\ c.error = "none" => p.col.error = "limit"
  <2>1. HAVE p.end = "refused"
  <2>2. o.col.in_callback \/ o.col.pending # <<>>
    BY <2>1 DEF Preserves
  <2>3. o.col.in_callback <=> c.in_callback
    BY DEF Preserves, Frame
  <2>4. ~c.in_callback /\ c.pending = <<>> => o.col.pending = <<>>
    BY DEF Preserves
  <2>5. c.error = "none" => p.col.error = "limit"
    BY <2>1 DEF Preserves
  <2> QED BY <2>2, <2>3, <2>4, <2>5
<1>5. p.end = "done" /\ ~c.in_callback /\ c.pending = <<>> => p.col.pending = <<>>
  <2>1. o.col.in_callback <=> c.in_callback
    BY DEF Preserves, Frame
  <2> QED BY <2>1 DEF Preserves
<1>6. p.end \in {"done", "refused", "raised"} /\ Good(p.col, k)
  BY DEF Preserves
<1> QED BY <1>1, <1>2, <1>3, <1>4, <1>5, <1>6 DEF Preserves

(* An operation with nothing to do preserves it. *)
LEMMA DoneNothing ==
  ASSUME NEW k, NEW c, Good(c, k)
  PROVE  Preserves(c, Done(c), k)
<1>1. Done(c).col = c /\ Done(c).end = "done"
  BY DEF Done
<1>2. Frame(c, c) /\ Shrinks(c, c)
  BY DEF Frame, Shrinks
<1> DEFINE o == Done(c)
<1>3. o.col = c /\ o.end = "done"
  BY <1>1
<1> HIDE DEF o
<1>4. Preserves(c, o, k)
  BY <1>2, <1>3 DEF Preserves
<1> QED BY <1>4 DEF o

(* Writing the queue preserves it. *)
LEMMA WritePendingPreserves ==
  ASSUME NEW k \in Nat, NEW c, Good(c, k), NEW o \in WritePending(c)
  PROVE  /\ Preserves(c, o, k)
         /\ o.end \in {"done", "raised"} /\ o.col.input = c.input
         /\ Trail(o.col) = Trail(c)
         /\ o.end = "done" => /\ o.col.pending = <<>> /\ o.col.payload = None
                              /\ o.col.consumed = 0
<1>1. c \in ColState /\ BatchIsBegun(c) /\ Trail(c) \in Seq(Event(Ids))
  BY TrailType DEF Good, Sound
<1>2. /\ o.col \in ColState /\ BatchIsBegun(o.col) /\ WriterOnly(c, o.col)
      /\ Trail(o.col) = Trail(c)
      /\ o.end \in {"done", "raised"}
      /\ o.end = "done" => /\ o.col.pending = <<>> /\ o.col.payload = None
                           /\ o.col.consumed = 0 /\ o.col.file = Trail(c)
  BY <1>1, WritePendingOutcomes
<1> DEFINE d == o.col
<1>3. d.input = c.input /\ Frame(c, d) /\ d.error = c.error
  BY <1>2 DEF WriterOnly, Frame
<1>4. Shrinks(c, d)
  BY <1>3 DEF Shrinks, HeldBuckets
<1>5. Good(d, k)
  <2> DEFINE none == <<>>
  <2>1. none \in Seq(Event(Ids)) /\ Len(none) = 0
    BY EmptySeq
  <2>2. Trail(d) = Trail(c) \o none
    BY <1>1, <1>2, ConcatEmptySeq
  <2> HIDE DEF none
  <2>3. MayFollow(c, d, none)
    BY <2>1 DEF MayFollow
  <2>4. d.session = c.session /\ d.end_queued = c.end_queued
    BY <1>3 DEF Frame
  <2>5. d \in ColState /\ BatchIsBegun(d)
    BY <1>2
  <2> HIDE DEF d
  <2> QED BY <2>1, <2>2, <2>3, <2>4, <2>5, <1>4, Moved
<1>6. KeptBy(d) = KeptBy(c)
  BY <1>2, <1>3 DEF KeptBy, InMemory
<1> QED BY <1>2, <1>3, <1>4, <1>5, <1>6 DEF Preserves

(* Going over the limit drops input, says so and leaves the log alone. *)
LEMMA OverLimitDrops ==
  ASSUME NEW c \in ColState
  PROVE  /\ OverLimit(c) \in ColState /\ SameLog(c, OverLimit(c)) /\ Frame(c, OverLimit(c))
         /\ Shrinks(c, OverLimit(c)) /\ OverLimit(c).error = "limit"
<1> DEFINE d == OverLimit(c)
<1>1. c.input \in [sequence : SUBSET Nat, text : SUBSET Nat, control : [Buckets -> SUBSET Nat]]
  BY ColFields
<1> DEFINE i == [c.input EXCEPT !.sequence = {}, !.text = {}]
<1>2. /\ i \in [sequence : SUBSET Nat, text : SUBSET Nat, control : [Buckets -> SUBSET Nat]]
      /\ i.sequence = {} /\ i.text = {} /\ i.control = c.input.control
  BY <1>1
<1>3. d = [c EXCEPT !.error = "limit", !.input = i]
  <2>1. d = [[[c EXCEPT !.error = "limit"] EXCEPT !.input.sequence = {}] EXCEPT !.input.text = {}]
    BY <1>1 DEF OverLimit, ColState
  <2>2. DOMAIN c.input = {"sequence", "text", "control"}
    BY <1>1
  <2> QED BY <1>1, <2>1, <2>2 DEF ColState
<1> HIDE DEF d, i
<1>4. d \in ColState
  <2>1. "limit" \in Errors
    BY DEF Errors
  <2> QED BY <1>2, <1>3, <2>1 DEF ColState
<1>5. SameLog(c, d) /\ Frame(c, d) /\ d.error = "limit" /\ d.input = i
  BY <1>3 DEF SameLog, Frame, ColState
<1>6. Shrinks(c, d)
  BY <1>2, <1>5 DEF Shrinks, HeldBuckets
<1> QED BY <1>4, <1>5, <1>6 DEF d

(* An aggregate of c becomes events, which leaves b to be held. *)
LEMMA QueuePreserves ==
  ASSUME NEW k \in Nat, NEW c, Good(c, k), NEW b \in ColState, SameLog(c, b), Frame(c, b),
         b.error = c.error, Shrinks(c, b),
         NEW events \in Seq(Event(Ids)), Len(events) <= MaxPending, MayFollow(c, b, events),
         InMemory(c) \subseteq InMemory(b) \cup Marks(events),
         NEW o \in QueueMany(b, events)
  PROVE  /\ Preserves(c, o, k)
         /\ o.end # "refused" => o.col.input = b.input /\ Trail(o.col) = Trail(c) \o events
         /\ o.end = "done" /\ c.in_callback => Len(o.col.pending) = Len(c.pending) + Len(events)
<1>1. c \in ColState /\ BatchIsBegun(c) /\ Trail(c) \in Seq(Event(Ids)) /\ Len(c.pending) \in Nat
  BY TrailType DEF Good, Sound
<1>2. Trail(b) = Trail(c) /\ BatchIsBegun(b)
  BY <1>1, SameTrail
<1>3. /\ o.end \in {"done", "refused", "raised"}
      /\ o.end = "refused" =>
           \/ o.col = b /\ b.in_callback /\ b.error # "none"
           \/ o.col = OverLimit(b) /\ Len(b.pending) + Len(events) > MaxPending
      /\ o.end # "refused" =>
           /\ o.col \in ColState /\ BatchIsBegun(o.col) /\ QueueOnly(b, o.col)
           /\ Trail(o.col) = Trail(b) \o events
           /\ b.in_callback => o.end = "done" /\ Len(o.col.pending) = Len(b.pending) + Len(events)
           /\ ~b.in_callback /\ o.end = "done" =>
                /\ o.col.pending = <<>> /\ o.col.payload = None
                /\ o.col.consumed = 0 /\ o.col.file = Trail(b) \o events
  BY <1>2, QueueManyOutcomes
<1> DEFINE d == o.col
<1>4. CASE o.end = "refused" /\ d = b /\ b.in_callback /\ b.error # "none"
  <2>1. Good(d, k)
    BY <1>4, Dropped
  <2>2. c.in_callback /\ c.error # "none"
    BY <1>4 DEF Frame
  <2> QED BY <1>4, <2>1, <2>2 DEF Preserves
<1>5. CASE o.end = "refused" /\ d = OverLimit(b) /\ Len(b.pending) + Len(events) > MaxPending
  <2>1. /\ d \in ColState /\ SameLog(b, d) /\ Frame(b, d) /\ Shrinks(b, d) /\ d.error = "limit"
    BY <1>5, OverLimitDrops
  <2>2. SameLog(c, d) /\ Frame(c, d) /\ Shrinks(c, d)
    BY <2>1 DEF SameLog, Frame, Shrinks
  <2>3. Good(d, k)
    BY <2>1, <2>2, Dropped
  <2>4. b.pending = c.pending
    BY DEF SameLog
  <2>5. c.pending # <<>>
    <3>1. Len(events) \in Nat
      BY LenProperties
    <3>2. Len(c.pending) # 0
      BY <1>1, <1>5, <2>4, <3>1, CollectorAssumption
    <3> QED BY <3>2
  <2> QED BY <1>5, <2>1, <2>2, <2>3, <2>5 DEF Preserves
<1>6. CASE o.end # "refused"
  <2>1. /\ d \in ColState /\ BatchIsBegun(d) /\ QueueOnly(b, d) /\ Trail(d) = Trail(c) \o events
        /\ ~b.in_callback /\ o.end = "done" => d.pending = <<>>
        /\ b.in_callback => Len(d.pending) = Len(b.pending) + Len(events)
    BY <1>2, <1>3, <1>6
  <2>2. Frame(c, d) /\ d.error = c.error /\ d.input = b.input
    BY <2>1 DEF QueueOnly, Frame
  <2>3. Shrinks(c, d) /\ MayFollow(c, d, events)
    <3>1. HeldBuckets(d) = HeldBuckets(b) /\ Held(d) = Held(b)
      BY <2>2 DEF HeldBuckets, Held
    <3> QED BY <2>2, <3>1 DEF Shrinks, MayFollow
  <2>4. d.session = c.session /\ d.end_queued = c.end_queued
    BY <2>2 DEF Frame
  <2>5. Good(d, k)
    <3> HIDE DEF d
    <3> QED BY <2>1, <2>3, <2>4, Moved
  <2>6. KeptBy(c) \subseteq KeptBy(d)
    <3>1. Marks(Trail(d)) = Marks(Trail(c)) \cup Marks(events)
      BY <1>1, <2>1, MarksAdded
    <3>2. InMemory(d) = InMemory(b)
      BY <2>2 DEF InMemory
    <3> QED BY <3>1, <3>2 DEF KeptBy
  <2>7. (c.in_callback <=> b.in_callback) /\ b.pending = c.pending
    BY DEF Frame, SameLog
  <2> QED BY <1>3, <1>6, <2>1, <2>2, <2>3, <2>5, <2>6, <2>7 DEF Preserves
<1> QED BY <1>3, <1>4, <1>5, <1>6

-----------------------------------------------------------------------------
(* From keys to events *)

(* The events of schema.lua. *)
LEMMA EventType ==
  ASSUME NEW c \in ColState, NEW keys \in SUBSET Nat,
         NEW kind \in {"session_start", "key_sequence", "text_run", "control_key_use",
                       "mapping_use", "mode_transition", "session_end"}
  PROVE  /\ Ev(c, kind, keys) \in Event(Ids)
         /\ Ev(c, kind, keys).kind = kind /\ Ev(c, kind, keys).keys = keys
         /\ Ev(c, kind, keys).session = c.session
<1>1. c.session \in Ids
  BY ColFields
<1> QED BY <1>1 DEF Ev, Event

(* A log of one event. *)
LEMMA Single ==
  ASSUME NEW S, NEW e \in S
  PROVE  /\ <<e>> \in Seq(S) /\ Len(<<e>>) = 1 /\ <<e>>[1] = e
         /\ \A i \in 1..Len(<<e>>) : <<e>>[i] = e
         /\ Marks(<<e>>) = {<<e.kind, k>> : k \in e.keys}
<1>1. <<e>> \in Seq(S) /\ Len(<<e>>) = 1 /\ <<e>>[1] = e /\ DOMAIN <<e>> = {1}
  OBVIOUS
<1>2. ToSet(<<e>>) = {e}
  BY <1>1 DEF ToSet
<1>3. Marks(<<e>>) = {<<e.kind, k>> : k \in e.keys}
  BY <1>2 DEF Marks
<1> QED BY <1>1, <1>3

(* Queueing the open sequence, the open text run ... *)
LEMMA EmitSequencePreserves ==
  ASSUME NEW k \in Nat, NEW c, Good(c, k), NEW o \in EmitSequence(c)
  PROVE  /\ Preserves(c, o, k)
         /\ o.end = "done" => o.col.input.sequence = {}
<1>1. c \in ColState
  BY DEF Good, Sound
<1>2. c.input \in [sequence : SUBSET Nat, text : SUBSET Nat, control : [Buckets -> SUBSET Nat]]
  BY <1>1, ColFields
<1>3. CASE c.input.sequence = {}
  <2>1. o = Done(c)
    BY <1>3 DEF EmitSequence
  <2>2. o.col = c
    BY <2>1 DEF Done
  <2> QED BY <1>3, <2>1, <2>2, DoneNothing
<1>4. CASE c.input.sequence # {}
  <2> DEFINE b == [c EXCEPT !.input.sequence = {}]
  <2> DEFINE i == [c.input EXCEPT !.sequence = {}]
  <2> DEFINE e == Ev(b, "key_sequence", c.input.sequence)
  <2> DEFINE events == <<e>>
  <2>1. o \in QueueMany(b, events)
    BY <1>4 DEF EmitSequence, Queue
  <2>2. /\ i \in [sequence : SUBSET Nat, text : SUBSET Nat, control : [Buckets -> SUBSET Nat]]
        /\ i.sequence = {} /\ i.text = c.input.text /\ i.control = c.input.control
    BY <1>2
  <2>3. b = [c EXCEPT !.input = i]
    BY <1>1 DEF ColState
  <2> HIDE DEF i, b
  <2>4. b \in ColState /\ b.input = i
    BY <1>1, <2>2, <2>3 DEF ColState
  <2>5. SameLog(c, b) /\ Frame(c, b) /\ b.error = c.error
    BY <1>1, <2>3 DEF SameLog, Frame, ColState
  <2>6. Shrinks(c, b)
    BY <2>2, <2>4 DEF Shrinks, HeldBuckets
  <2>7. /\ e \in Event(Ids) /\ e.kind = "key_sequence" /\ e.keys = c.input.sequence
        /\ e.session = c.session
    BY <1>2, <2>4, <2>5, EventType DEF Frame
  <2> HIDE DEF e
  <2>8. /\ events \in Seq(Event(Ids)) /\ Len(events) = 1 /\ events[1] = e
        /\ \A j \in 1..Len(events) : events[j] = e
        /\ Marks(events) = {<<e.kind, l>> : l \in e.keys}
    BY <2>7, Single
  <2> HIDE DEF events
  <2>9. MayFollow(c, b, events)
    <3>1. ~c.end_queued
      <4>1. c.input # NoInput
        BY <1>4 DEF NoInput
      <4> QED BY <1>1, <4>1, ColFields DEF Good, OneSession
    <3>2. ValidPayload(e) /\ e.session = c.session /\ e.kind \notin {"session_start", "session_end"}
      BY <1>4, <2>7 DEF ValidPayload
    <3>3. e.keys \subseteq Held(c)
      BY <2>7 DEF Held
    <3>4. Held(b) = {}
      BY <1>4, <2>2, <2>4 DEF Good, OneOpen, Held
    <3> QED BY <2>8, <3>1, <3>2, <3>3, <3>4 DEF MayFollow
  <2>10. InMemory(c) \subseteq InMemory(b) \cup Marks(events)
    BY <2>2, <2>4, <2>7, <2>8 DEF InMemory
  <2>11. Len(events) <= MaxPending
    BY <2>8, CollectorAssumption
  <2>12. /\ Preserves(c, o, k)
         /\ o.end # "refused" => o.col.input = b.input
    BY <2>1, <2>4, <2>5, <2>6, <2>8, <2>9, <2>10, <2>11, QueuePreserves
  <2> QED BY <2>2, <2>4, <2>12
<1> QED BY <1>3, <1>4

LEMMA EmitTextRunPreserves ==
  ASSUME NEW k \in Nat, NEW c, Good(c, k), NEW o \in EmitTextRun(c)
  PROVE  /\ Preserves(c, o, k)
         /\ o.end = "done" => o.col.input.text = {}
<1>1. c \in ColState
  BY DEF Good, Sound
<1>2. c.input \in [sequence : SUBSET Nat, text : SUBSET Nat, control : [Buckets -> SUBSET Nat]]
  BY <1>1, ColFields
<1>3. CASE c.input.text = {}
  <2>1. o = Done(c)
    BY <1>3 DEF EmitTextRun
  <2>2. o.col = c
    BY <2>1 DEF Done
  <2> QED BY <1>3, <2>1, <2>2, DoneNothing
<1>4. CASE c.input.text # {}
  <2> DEFINE b == [c EXCEPT !.input.text = {}]
  <2> DEFINE i == [c.input EXCEPT !.text = {}]
  <2> DEFINE e == Ev(b, "text_run", c.input.text)
  <2> DEFINE events == <<e>>
  <2>1. o \in QueueMany(b, events)
    BY <1>4 DEF EmitTextRun, Queue
  <2>2. /\ i \in [sequence : SUBSET Nat, text : SUBSET Nat, control : [Buckets -> SUBSET Nat]]
        /\ i.text = {} /\ i.sequence = c.input.sequence /\ i.control = c.input.control
    BY <1>2
  <2>3. b = [c EXCEPT !.input = i]
    BY <1>1 DEF ColState
  <2> HIDE DEF i, b
  <2>4. b \in ColState /\ b.input = i
    BY <1>1, <2>2, <2>3 DEF ColState
  <2>5. SameLog(c, b) /\ Frame(c, b) /\ b.error = c.error
    BY <1>1, <2>3 DEF SameLog, Frame, ColState
  <2>6. Shrinks(c, b)
    BY <2>2, <2>4 DEF Shrinks, HeldBuckets
  <2>7. /\ e \in Event(Ids) /\ e.kind = "text_run" /\ e.keys = c.input.text
        /\ e.session = c.session
    BY <1>2, <2>4, <2>5, EventType DEF Frame
  <2> HIDE DEF e
  <2>8. /\ events \in Seq(Event(Ids)) /\ Len(events) = 1 /\ events[1] = e
        /\ \A j \in 1..Len(events) : events[j] = e
        /\ Marks(events) = {<<e.kind, l>> : l \in e.keys}
    BY <2>7, Single
  <2> HIDE DEF events
  <2>9. MayFollow(c, b, events)
    <3>1. ~c.end_queued
      <4>1. c.input # NoInput
        BY <1>4 DEF NoInput
      <4> QED BY <1>1, <4>1, ColFields DEF Good, OneSession
    <3>2. ValidPayload(e) /\ e.session = c.session /\ e.kind \notin {"session_start", "session_end"}
      BY <1>4, <2>7 DEF ValidPayload
    <3>3. e.keys \subseteq Held(c)
      BY <2>7 DEF Held
    <3>4. Held(b) = {}
      BY <1>4, <2>2, <2>4 DEF Good, OneOpen, Held
    <3> QED BY <2>8, <3>1, <3>2, <3>3, <3>4 DEF MayFollow
  <2>10. InMemory(c) \subseteq InMemory(b) \cup Marks(events)
    BY <2>2, <2>4, <2>7, <2>8 DEF InMemory
  <2>11. Len(events) <= MaxPending
    BY <2>8, CollectorAssumption
  <2>12. /\ Preserves(c, o, k)
         /\ o.end # "refused" => o.col.input = b.input
    BY <2>1, <2>4, <2>5, <2>6, <2>8, <2>9, <2>10, <2>11, QueuePreserves
  <2> QED BY <2>2, <2>4, <2>12
<1> QED BY <1>3, <1>4

(* A set of naturals has a least element ... *)
LEMMA LeastOf ==
  ASSUME NEW S, S \subseteq Nat, S # {}
  PROVE  \E x \in S : \A y \in S : x <= y
<1> DEFINE Below == {ss \in Nat \X Nat : ss[1] < ss[2]}
<1>1. IsWellFoundedOn(Below, Nat)
  BY NatLessThanWellFounded DEF OpToRel
<1>2. PICK x \in S : \A y \in S : <<y, x>> \notin Below
  <2> HIDE DEF Below
  <2> QED BY <1>1, WFMin
<1>3. ASSUME NEW y \in S PROVE x <= y
  <2>1. y \in Nat /\ x \in Nat /\ <<y, x>> \notin Below
    BY <1>2
  <2>2. y < x => <<y, x>> \in Below
    BY <2>1
  <2> HIDE DEF Below
  <2> QED BY <2>1, <2>2
<1> QED BY <1>3

(* ... and, when it is finite, can be put in ascending order: of the sets   *)
(* that could not, a smallest one would still be one without its least      *)
(* element.                                                                 *)
Sorted(S, s) ==
  /\ s \in [1..Cardinality(S) -> S] /\ Range(s) = S
  /\ \A i, j \in DOMAIN s : i < j => s[i] < s[j]

(* A finite set of naturals can be sorted: in a smallest set that cannot,   *)
(* take out the greatest element.                                           *)
LEMMA AscendingExists ==
  ASSUME NEW S, S \subseteq Nat, IsFiniteSet(S)
  PROVE  \E s : Sorted(S, s)
<1> DEFINE Bad == {n \in Nat : \E T \in SUBSET Nat : /\ IsFiniteSet(T) /\ Cardinality(T) = n
                                                    /\ ~\E s : Sorted(T, s)}
<1>1. SUFFICES ASSUME Bad # {} PROVE FALSE
  <2>1. Cardinality(S) \in Nat
    BY FS_CardinalityType
  <2>2. (\E s : Sorted(S, s)) \/ Cardinality(S) \in Bad
    BY <2>1
  <2> QED BY <2>2
<1>2. PICK n \in Bad : \A m \in Bad : n <= m
  <2>1. Bad \subseteq Nat
    OBVIOUS
  <2> HIDE DEF Bad
  <2> QED BY <1>1, <2>1, LeastOf
<1>3. PICK T \in SUBSET Nat : IsFiniteSet(T) /\ Cardinality(T) = n /\ ~\E s : Sorted(T, s)
  OBVIOUS
<1>4. n \in Nat
  OBVIOUS
<1>5. T # {}
  <2>1. ASSUME T = {} PROVE Sorted(T, <<>>)
    <3>1. Cardinality(T) = 0
      BY <2>1, FS_EmptySet
    <3>2. <<>> \in [1..0 -> T] /\ DOMAIN <<>> = {}
      OBVIOUS
    <3> QED BY <2>1, <3>1, <3>2 DEF Sorted, Range
  <2> QED BY <1>3, <2>1
<1>6. PICK x \in T : \A y \in T : x <= y
  BY <1>5, LeastOf
<1> DEFINE R == T \ {x}
<1>7. IsFiniteSet(R) /\ Cardinality(R) = n - 1 /\ n # 0
  <2>1. IsFiniteSet(R) /\ Cardinality(R) = Cardinality(T) - 1
    BY <1>3, <1>6, FS_RemoveElement
  <2>2. n # 0
    BY <1>3, <1>5, FS_EmptySet
  <2> QED BY <1>3, <2>1, <2>2
<1>8. PICK r : Sorted(R, r)
  <2>1. n - 1 \in Nat /\ ~(n <= n - 1)
    BY <1>4, <1>7
  <2>2. n - 1 \notin Bad
    <3> HIDE DEF Bad
    <3> QED BY <1>2, <2>1
  <2>3. R \in SUBSET Nat
    OBVIOUS
  <2> HIDE DEF R
  <2> QED BY <1>7, <2>1, <2>2, <2>3
<1> DEFINE s == [i \in 1..n |-> IF i = 1 THEN x ELSE r[i - 1]]
<1>9. r \in [1..n - 1 -> R] /\ Range(r) = R /\ \A i, j \in 1..n - 1 : i < j => r[i] < r[j]
  BY <1>7, <1>8 DEF Sorted
<1>10. \A i \in 1..n : i # 1 => i - 1 \in 1..n - 1
  BY <1>4
<1>11. s \in [1..n -> T]
  BY <1>6, <1>9, <1>10
<1>12. \A y \in T : \E i \in 1..n : s[i] = y
  <2> TAKE y \in T
  <2>1. CASE y = x
    <3>1. 1 \in 1..n /\ s[1] = x
      BY <1>4, <1>7
    <3> QED BY <2>1, <3>1
  <2>2. CASE y # x
    <3>1. PICK i \in 1..n - 1 : r[i] = y
      <4>1. y \in Range(r)
        BY <1>9, <2>2
      <4> QED BY <1>9, <4>1 DEF Range
    <3>2. i + 1 \in 1..n /\ i + 1 # 1 /\ (i + 1) - 1 = i
      BY <1>4
    <3>3. s[i + 1] = r[i]
      BY <3>2
    <3> QED BY <3>1, <3>2, <3>3
  <2> QED BY <2>1, <2>2
<1>13. Range(s) = T
  <2>1. DOMAIN s = 1..n
    BY <1>11
  <2>2. \A i \in 1..n : s[i] \in T
    BY <1>11
  <2> HIDE DEF s
  <2> QED BY <1>12, <2>1, <2>2 DEF Range
<1>14. ASSUME NEW i \in 1..n, NEW j \in 1..n, i < j
       PROVE  s[i] < s[j]
  <2>1. j # 1 /\ s[j] = r[j - 1] /\ j - 1 \in 1..n - 1
    BY <1>4, <1>14
  <2>2. CASE i = 1
    <3>1. r[j - 1] \in T /\ r[j - 1] # x
      BY <1>9, <2>1
    <3>2. x <= r[j - 1] /\ x \in Nat /\ r[j - 1] \in Nat
      BY <1>6, <3>1
    <3> QED BY <2>1, <2>2, <3>1, <3>2
  <2>3. CASE i # 1
    <3>1. s[i] = r[i - 1] /\ i - 1 \in 1..n - 1 /\ i - 1 < j - 1
      BY <1>10, <1>14, <2>3
    <3> QED BY <1>9, <2>1, <3>1
  <2> QED BY <2>2, <2>3
<1>15. Sorted(T, s)
  <2>1. DOMAIN s = 1..n
    BY <1>11
  <2> HIDE DEF s
  <2> QED BY <1>3, <1>11, <1>13, <1>14, <2>1 DEF Sorted
<1> QED BY <1>3, <1>15

(* Sorting keeps the elements. *)
LEMMA AscendingIs ==
  ASSUME NEW S, S \subseteq Nat, IsFiniteSet(S)
  PROVE  /\ Ascending(S) \in Seq(S) /\ Len(Ascending(S)) = Cardinality(S)
         /\ Range(Ascending(S)) = S
<1> DEFINE P(s) == /\ s \in [1..Cardinality(S) -> S]
                   /\ Range(s) = S /\ \A i, j \in DOMAIN s : i < j => s[i] < s[j]
<1>1. PICK s : Sorted(S, s)
  BY AscendingExists
<1>2. \E q : P(q)
  BY <1>1 DEF Sorted
<1>3. Ascending(S) = CHOOSE q \in [1..Cardinality(S) -> S] :
                       Range(q) = S /\ \A i, j \in DOMAIN q : i < j => q[i] < q[j]
  BY DEF Ascending
<1>4. P(Ascending(S))
  <2>1. \E q \in [1..Cardinality(S) -> S] :
          Range(q) = S /\ \A i, j \in DOMAIN q : i < j => q[i] < q[j]
    BY <1>2
  <2> QED BY <1>3, <2>1
<1>5. Cardinality(S) \in Nat
  BY FS_CardinalityType
<1> QED BY <1>4, <1>5

(* The batch of control-key events: as many of the buckets as there is room *)
(* for, each with its keys; outside the callback all of them.               *)
LEMMA ControlBatch ==
  ASSUME NEW c \in ColState, Cardinality(HeldBuckets(c)) <= MaxBuckets, Room(c) \in Nat
  PROVE  /\ Counts(c) \in Seq(Event(Ids)) /\ Len(Counts(c)) <= Room(c)
         /\ ToSet(Batch(c)) \subseteq HeldBuckets(c)
         /\ \A i \in 1..Len(Counts(c)) : \E b \in HeldBuckets(c) :
              Counts(c)[i] = Ev(c, "control_key_use", c.input.control[b])
         /\ \A b \in ToSet(Batch(c)) : \E i \in 1..Len(Counts(c)) :
              Counts(c)[i] = Ev(c, "control_key_use", c.input.control[b])
         /\ Room(c) >= MaxBuckets => ToSet(Batch(c)) = HeldBuckets(c)
<1> DEFINE room == Room(c)
<1> DEFINE batch == Batch(c)
<1> DEFINE events == Counts(c)
<1> DEFINE held == Ascending(HeldBuckets(c))
<1> DEFINE B == HeldBuckets(c)
<1>1. B \subseteq Nat /\ IsFiniteSet(B) /\ B \subseteq Buckets
  <2>1. B \subseteq Buckets
    BY DEF HeldBuckets
  <2> QED BY <2>1, FS_Subset, CollectorAssumption
<1>2. held \in Seq(B) /\ Len(held) = Cardinality(B) /\ Range(held) = B
  BY <1>1, AscendingIs
<1>3. Len(held) \in Nat /\ DOMAIN held = 1..Len(held)
  BY <1>2, LenProperties
<1> DEFINE n == IF room < Len(held) THEN room ELSE Len(held)
<1>4. room \in Nat
  OBVIOUS
<1>5. n \in Nat /\ n <= Len(held) /\ n <= room
  <2> HIDE DEF room, held
  <2> QED BY <1>3, <1>4
<1>6. batch = SubSeq(held, 1, n)
  BY DEF Batch
<1>7. events = [i \in DOMAIN batch |-> Ev(c, "control_key_use", c.input.control[batch[i]])]
  BY DEF Counts
<1> HIDE DEF B, n, room, batch, events, held
<1>8. batch \in Seq(B) /\ Len(batch) = n /\ \A i \in 1..n : batch[i] = held[i]
  <2>1. 0 \in Nat /\ 0 <= n
    BY <1>5
  <2>2. /\ SubSeq(held, 0 + 1, n) \in Seq(B) /\ Len(SubSeq(held, 0 + 1, n)) = n - 0
        /\ \A i \in 1..n - 0 : SubSeq(held, 0 + 1, n)[i] = held[0 + i]
    BY <1>2, <1>5, <2>1, Slice
  <2>3. batch = SubSeq(held, 1, n)
    BY <1>6
  <2>4. 0 + 1 = 1 /\ n - 0 = n
    BY <1>5
  <2>5. \A i \in 1..n : 0 + i = i
    BY <1>5
  <2>6. batch = SubSeq(held, 0 + 1, n)
    BY <2>3, <2>4
  <2> QED BY <2>2, <2>4, <2>5, <2>6
<1>9. DOMAIN batch = 1..n /\ \A i \in 1..n : batch[i] \in B
  <2>1. DOMAIN batch = 1..Len(batch)
    BY <1>8, LenProperties
  <2> QED BY <1>8, <2>1, ElementOfSeq
<1>10. ToSet(batch) = {batch[i] : i \in 1..n}
  BY <1>9 DEF ToSet
<1>11. c.input.control \in [Buckets -> SUBSET Nat]
  BY ColFields
<1>12. ASSUME NEW b \in B
      PROVE  Ev(c, "control_key_use", c.input.control[b]) \in Event(Ids)
  <2>1. c.input.control[b] \in SUBSET Nat
    BY <1>1, <1>11
  <2> QED BY <2>1, EventType
<1> DEFINE E(b) == Ev(c, "control_key_use", c.input.control[b])
<1>13. events = [i \in 1..n |-> E(batch[i])]
  BY <1>9, <1>7
<1>14. \A i \in 1..n : E(batch[i]) \in Event(Ids)
  BY <1>9, <1>12
<1> HIDE DEF E
<1>15. events \in [1..n -> Event(Ids)]
  BY <1>13, <1>14
<1>16. events \in Seq(Event(Ids)) /\ Len(events) = n
  BY <1>5, <1>15
<1>17. \A i \in 1..n : events[i] = E(batch[i])
  BY <1>13
<1>18. \A i \in 1..Len(events) : \E b \in B : events[i] = E(b)
  BY <1>9, <1>16, <1>17
<1>19. \A b \in ToSet(batch) : \E i \in 1..Len(events) : events[i] = E(b)
  <2> TAKE b \in ToSet(batch)
  <2>1. PICK i \in 1..n : b = batch[i]
    BY <1>10
  <2>2. i \in 1..Len(events) /\ events[i] = E(batch[i])
    BY <1>16, <1>17
  <2>3. E(batch[i]) = E(b)
    BY <2>1
  <2> QED BY <2>2, <2>3
<1>20. ASSUME room >= MaxBuckets
       PROVE  ToSet(batch) = B
  <2>1. Len(held) <= room
    BY <1>2, <1>3, <1>20, <1>4, CollectorAssumption DEF B
  <2>2. n = Len(held)
    <3>1. ~(room < Len(held))
      BY <1>3, <1>4, <2>1
    <3> QED BY <3>1 DEF n
  <2>3. B = {held[i] : i \in 1..n}
    BY <1>2, <1>3, <2>2 DEF Range
  <2> QED BY <1>8, <1>10, <2>3
<1>21. ToSet(batch) \subseteq B
  BY <1>9, <1>10
<1> QED BY <1>5, <1>16, <1>18, <1>19, <1>20, <1>21 DEF B, E, room, batch, events

(* ... and the counts of the control keys, or as many of them as fit. *)
LEMMA EmitControlKeysPreserves ==
  ASSUME NEW k \in Nat, NEW c, Good(c, k), NEW o \in EmitControlKeys(c)
  PROVE  /\ Preserves(c, o, k)
         /\ o.end = "done" /\ ~c.in_callback /\ c.pending = <<>> => HeldBuckets(o.col) = {}
<1>1. /\ c \in ColState /\ BatchIsBegun(c) /\ Cardinality(HeldBuckets(c)) <= MaxBuckets
      /\ Trail(c) \in Seq(Event(Ids)) /\ Len(c.pending) \in Nat
  BY TrailType DEF Good, Sound
<1>2. c.input \in [sequence : SUBSET Nat, text : SUBSET Nat, control : [Buckets -> SUBSET Nat]]
  BY <1>1, ColFields
<1>3. MaxPending \in Nat \ {0} /\ MaxBuckets \in 0..MaxPending
  BY CollectorAssumption
<1> DEFINE room == Room(c)
<1> DEFINE batch == Batch(c)
<1> DEFINE events == Counts(c)
<1> DEFINE cleared == ToSet(batch)
<1> DEFINE Clear(d) == [d EXCEPT !.input.control =
                          [b \in Buckets |-> IF b \in cleared THEN {} ELSE @[b]]]
<1>4. /\ HeldBuckets(c) = {} => o = Done(c)
      /\ HeldBuckets(c) # {} /\ Len(c.pending) >= MaxPending => o = Refused(OverLimit(c))
      /\ HeldBuckets(c) # {} /\ ~(Len(c.pending) >= MaxPending) /\ room = 0 => o = Done(c)
      /\ HeldBuckets(c) # {} /\ ~(Len(c.pending) >= MaxPending) /\ room # 0 =>
           \E w \in QueueMany(c, events) : IF w.end = "done" THEN o = Done(Clear(w.col)) ELSE o = w
  <2>1. o \in IF HeldBuckets(c) = {} THEN {Done(c)}
              ELSE IF Len(c.pending) >= MaxPending THEN {Refused(OverLimit(c))}
              ELSE IF room = 0 THEN {Done(c)}
              ELSE UNION {IF w.end = "done" THEN {Done(Clear(w.col))} ELSE {w} :
                            w \in QueueMany(c, events)}
    BY DEF EmitControlKeys, Then
  <2> HIDE DEF room, events, Clear
  <2> QED BY <2>1
<1>5. ~(Len(c.pending) >= MaxPending) =>
        /\ room \in Nat /\ room <= MaxPending
        /\ ~c.in_callback => room = MaxPending - Len(c.pending) /\ room # 0
  <2> DEFINE n == Len(c.pending)
  <2>1. n \in Nat /\ c.in_callback \in BOOLEAN
    BY <1>1, ColFields
  <2>2. c.in_callback => room = MaxPending - n - 1
    BY DEF Room
  <2>3. ~c.in_callback => room = MaxPending - n - 0
    BY DEF Room
  <2> HIDE DEF n, room
  <2>4. ~(n >= MaxPending) =>
          /\ room \in Nat /\ room <= MaxPending
          /\ ~c.in_callback => room = MaxPending - n /\ room # 0
    BY <1>3, <2>1, <2>2, <2>3
  <2> QED BY <2>4 DEF n
<1>7. CASE HeldBuckets(c) = {} /\ o = Done(c)
  <2>1. o.col = c
    BY <1>7 DEF Done
  <2> QED BY <1>7, <2>1, DoneNothing
<1>8. CASE Len(c.pending) >= MaxPending /\ o = Refused(OverLimit(c))
  <2> DEFINE d == OverLimit(c)
  <2>1. o.col = d /\ o.end = "refused"
    BY <1>8 DEF Refused
  <2>2. d \in ColState /\ SameLog(c, d) /\ Frame(c, d) /\ Shrinks(c, d) /\ d.error = "limit"
    BY <1>1, OverLimitDrops
  <2> HIDE DEF d
  <2>3. Good(d, k)
    BY <2>2, Dropped
  <2>4. c.pending # <<>>
    <3>1. Len(c.pending) # 0
      BY <1>1, <1>3, <1>8
    <3> QED BY <3>1
  <2> QED BY <2>1, <2>2, <2>3, <2>4 DEF Preserves
<1>9. CASE ~(Len(c.pending) >= MaxPending) /\ room = 0 /\ o = Done(c)
  <2>1. c.in_callback
    BY <1>5, <1>9, <1>1, ColFields
  <2> QED BY <1>9, <2>1, DoneNothing
<1>10. ASSUME ~(Len(c.pending) >= MaxPending), room # 0, NEW w \in QueueMany(c, events),
              IF w.end = "done" THEN o = Done(Clear(w.col)) ELSE o = w
       PROVE  /\ Preserves(c, o, k)
              /\ o.end = "done" /\ ~c.in_callback /\ c.pending = <<>> => HeldBuckets(o.col) = {}
  <2>1. room \in Nat
    BY <1>5, <1>10
  <2>2. /\ events \in Seq(Event(Ids)) /\ Len(events) <= room
        /\ ToSet(batch) \subseteq HeldBuckets(c)
        /\ \A i \in 1..Len(events) : \E b \in HeldBuckets(c) :
             events[i] = Ev(c, "control_key_use", c.input.control[b])
        /\ \A b \in ToSet(batch) : \E i \in 1..Len(events) :
             events[i] = Ev(c, "control_key_use", c.input.control[b])
        /\ room >= MaxBuckets => ToSet(batch) = HeldBuckets(c)
    BY <1>1, <2>1, ControlBatch
  <2>3. ~c.in_callback /\ c.pending = <<>> => room >= MaxBuckets
    BY <1>3, <1>5, <1>10
  <2>4. Len(events) <= MaxPending
    <3>1. Len(events) \in Nat
      BY <2>2, LenProperties
    <3>2. Len(events) <= room /\ room \in Nat /\ room <= MaxPending
      BY <1>5, <1>10, <2>2
    <3> HIDE DEF events, room
    <3> QED BY <1>3, <3>1, <3>2
  <2> HIDE DEF events, room
  <2>5. \A i \in 1..Len(events) :
          /\ ValidPayload(events[i]) /\ events[i].session = c.session
          /\ events[i].kind = "control_key_use"
    <3> TAKE i \in 1..Len(events)
    <3>1. PICK b \in HeldBuckets(c) : events[i] = Ev(c, "control_key_use", c.input.control[b])
      BY <2>2
    <3>2. c.input.control[b] # {}
      BY DEF HeldBuckets
    <3> QED BY <3>1, <3>2 DEF Ev, ValidPayload
  <2>6. MayFollow(c, c, events)
    <3>1. c.end_queued => Len(events) = 0
      <4>1. HAVE c.end_queued
      <4>2. HeldBuckets(c) = {}
        BY <4>1 DEF Good, OneSession, NoInput, HeldBuckets
      <4>3. Len(events) \in Nat
        BY <2>2, LenProperties
      <4>4. ~(1 \in 1..Len(events))
        BY <2>2, <4>2
      <4> QED BY <4>3, <4>4
    <3> QED BY <2>5, <3>1 DEF MayFollow, Typed
  <2>7. SameLog(c, c) /\ Frame(c, c) /\ Shrinks(c, c)
    BY DEF SameLog, Frame, Shrinks
  <2>8. /\ Preserves(c, w, k)
        /\ w.end # "refused" => w.col.input = c.input /\ Trail(w.col) = Trail(c) \o events
    <3>1. events \in Seq(Event(Ids)) /\ Len(events) <= MaxPending
      BY <2>2, <2>4
    <3>2. InMemory(c) \subseteq InMemory(c) \cup Marks(events)
      OBVIOUS
    <3> QED BY <1>1, <1>10, <2>6, <2>7, <3>1, <3>2, QueuePreserves
  <2>9. CASE w.end # "done"
    BY <1>10, <2>8, <2>9
  <2>10. CASE w.end = "done"
    <3> DEFINE d == w.col
    <3> DEFINE e == Clear(d)
    <3> DEFINE f == [b \in Buckets |-> IF b \in cleared THEN {} ELSE c.input.control[b]]
    <3> DEFINE i == [c.input EXCEPT !.control = f]
    <3>1. o = Done(e)
      BY <1>10, <2>10
    <3>2. Good(d, k) /\ Frame(c, d) /\ d.input = c.input /\ d \in ColState
      BY <2>8, <2>10 DEF Preserves, Good, Sound
    <3>3. /\ i \in [sequence : SUBSET Nat, text : SUBSET Nat, control : [Buckets -> SUBSET Nat]]
          /\ i.sequence = c.input.sequence /\ i.text = c.input.text /\ i.control = f
      <4>1. f \in [Buckets -> SUBSET Nat]
        BY <1>2
      <4> HIDE DEF f
      <4> QED BY <1>2, <4>1
    <3>4. e = [d EXCEPT !.input = i]
      <4>1. e = [d EXCEPT !.input = [d.input EXCEPT !.control =
                   [b \in Buckets |-> IF b \in cleared THEN {} ELSE d.input.control[b]]]]
        BY <3>2 DEF ColState
      <4> QED BY <3>2, <4>1
    <3> HIDE DEF d, e, i, cleared
    <3>5. e \in ColState /\ e.input = i /\ SameLog(d, e) /\ Frame(d, e) /\ e.error = d.error
      BY <3>2, <3>3, <3>4 DEF ColState, SameLog, Frame
    <3>6. /\ \A b \in cleared : f[b] = {}
          /\ \A b \in Buckets : b \notin cleared => f[b] = c.input.control[b]
      <4>1. cleared \subseteq Buckets
        BY <2>2 DEF cleared, HeldBuckets
      <4> QED BY <4>1
    <3> HIDE DEF f
    <3>7. HeldBuckets(e) = HeldBuckets(c) \ cleared
      BY <3>3, <3>5, <3>6 DEF HeldBuckets
    <3>8. Shrinks(c, e) /\ Shrinks(d, e)
      <4>1. HeldBuckets(d) = HeldBuckets(c)
        BY <3>2 DEF HeldBuckets
      <4> QED BY <3>2, <3>3, <3>5, <3>7, <4>1 DEF Shrinks
    <3>9. Good(e, k)
      BY <3>2, <3>5, <3>8, Dropped
    <3>10. Trail(e) = Trail(c) \o events
      <4>1. Trail(e) = Trail(d)
        BY <3>5, SameTrail
      <4>2. Trail(d) = Trail(c) \o events
        BY <2>8, <2>10 DEF d
      <4> QED BY <4>1, <4>2
    <3>11. KeptBy(c) \subseteq KeptBy(e)
      <4>1. Marks(Trail(e)) = Marks(Trail(c)) \cup Marks(events)
        BY <1>1, <2>2, <3>10, MarksAdded
      <4>2. ASSUME NEW b \in cleared, NEW l \in c.input.control[b]
            PROVE  <<"control_key_use", l>> \in Marks(events)
        <5>1. PICK j \in 1..Len(events) : events[j] = Ev(c, "control_key_use", c.input.control[b])
          BY <2>2 DEF cleared
        <5>2. events[j] \in ToSet(events)
          <6>1. DOMAIN events = 1..Len(events)
            BY <2>2, LenProperties
          <6> QED BY <5>1, <6>1 DEF ToSet
        <5>3. events[j].kind = "control_key_use" /\ events[j].keys = c.input.control[b]
          BY <5>1 DEF Ev
        <5> QED BY <5>2, <5>3 DEF Marks
      <4>3. ASSUME NEW l \in UNION Range(c.input.control)
            PROVE  <<"control_key_use", l>> \in InMemory(e) \cup Marks(events)
        <5>1. PICK b \in Buckets : l \in c.input.control[b]
          BY <1>2 DEF Range
        <5>2. CASE b \in cleared
          BY <4>2, <5>1, <5>2
        <5>3. CASE b \notin cleared
          <6>1. e.input.control \in [Buckets -> SUBSET Nat] /\ l \in e.input.control[b]
            BY <3>3, <3>5, <3>6, <5>1, <5>3
          <6>2. l \in UNION Range(e.input.control)
            BY <6>1 DEF Range
          <6> QED BY <6>2 DEF InMemory
        <5> QED BY <5>2, <5>3
      <4>4. e.input.sequence = c.input.sequence /\ e.input.text = c.input.text
        BY <3>3, <3>5
      <4>5. InMemory(c) \subseteq InMemory(e) \cup Marks(events)
        BY <4>3, <4>4 DEF InMemory
      <4> QED BY <4>1, <4>5 DEF KeptBy
    <3>12. Frame(c, e) /\ e.error = c.error
      <4>1. d.error = c.error
        BY <2>8, <2>10 DEF Preserves, d
      <4> QED BY <3>2, <3>5, <4>1 DEF Frame
    <3>13. ~c.in_callback /\ c.pending = <<>> => e.pending = <<>> /\ HeldBuckets(e) = {}
      <4>1. ~c.in_callback /\ c.pending = <<>> => d.pending = <<>>
        BY <2>8, <2>10 DEF Preserves, d
      <4>2. ~c.in_callback /\ c.pending = <<>> => cleared = HeldBuckets(c)
        BY <2>2, <2>3 DEF cleared
      <4> QED BY <3>5, <3>7, <4>1, <4>2 DEF SameLog
    <3>14. o.end = "done" /\ o.col = e
      BY <3>1 DEF Done
    <3> QED BY <3>8, <3>9, <3>11, <3>12, <3>13, <3>14 DEF Preserves
  <2> QED BY <2>9, <2>10
<1> HIDE DEF room, batch, events, Clear
<1> QED BY <1>4, <1>7, <1>8, <1>9, <1>10

(* All of the input, in that order; nothing is left if the queue takes it. *)
LEMMA FlushInputPreserves ==
  ASSUME NEW k \in Nat, NEW c, Good(c, k), NEW o \in FlushInput(c)
  PROVE  /\ Preserves(c, o, k)
         /\ o.end = "done" => o.col.input.sequence = {} /\ o.col.input.text = {}
         /\ o.end = "done" /\ ~c.in_callback /\ c.pending = <<>> => o.col.input = NoInput
         /\ c.input = NoInput => o = Done(c)
<1> DEFINE sequence == {IF p.end = "refused" THEN Refused([p.col EXCEPT !.input.text = {}]) ELSE p :
                          p \in EmitSequence(c)}
<1>1. PICK s \in sequence : \/ s.end # "done" /\ o = s
                            \/ /\ s.end = "done"
                               /\ \E q \in EmitTextRun(s.col) :
                                    \/ q.end # "done" /\ o = q
                                    \/ q.end = "done" /\ o \in EmitControlKeys(q.col)
  <2>1. o \in Then(Then(sequence, EmitTextRun), EmitControlKeys)
    BY DEF FlushInput
  <2>2. PICK q \in Then(sequence, EmitTextRun) :
               IF q.end = "done" THEN o \in EmitControlKeys(q.col) ELSE o = q
    <3> HIDE DEF sequence
    <3> QED BY <2>1 DEF Then
  <2>3. PICK s \in sequence : IF s.end = "done" THEN q \in EmitTextRun(s.col) ELSE q = s
    <3> HIDE DEF sequence
    <3> QED BY <2>2 DEF Then
  <2> HIDE DEF sequence
  <2>4. CASE s.end # "done"
    BY <2>2, <2>3, <2>4
  <2>5. CASE s.end = "done"
    BY <2>2, <2>3, <2>5
  <2> QED BY <2>4, <2>5
<1>2. PICK p \in EmitSequence(c) :
             s = IF p.end = "refused" THEN Refused([p.col EXCEPT !.input.text = {}]) ELSE p
  OBVIOUS
<1> HIDE DEF sequence
<1>3. /\ Preserves(c, p, k)
      /\ p.end = "done" => p.col.input.sequence = {}
  BY EmitSequencePreserves
<1>4. Preserves(c, s, k) /\ (s.end = "done" => p.end = "done" /\ s = p)
  <2>1. CASE p.end # "refused"
    BY <1>2, <1>3, <2>1
  <2>2. CASE p.end = "refused"
    <3> DEFINE b == p.col
    <3> DEFINE d == [b EXCEPT !.input.text = {}]
    <3> DEFINE i == [b.input EXCEPT !.text = {}]
    <3>1. s.end = "refused" /\ s.col = d
      BY <1>2, <2>2 DEF Refused
    <3>2. Good(b, k) /\ Frame(c, b) /\ Shrinks(c, b) /\ b \in ColState
      BY <1>3 DEF Preserves, Good, Sound
    <3> HIDE DEF b
    <3>3. b.input \in [sequence : SUBSET Nat, text : SUBSET Nat, control : [Buckets -> SUBSET Nat]]
      BY <3>2, ColFields
    <3>4. /\ i \in [sequence : SUBSET Nat, text : SUBSET Nat, control : [Buckets -> SUBSET Nat]]
          /\ i.text = {} /\ i.sequence = b.input.sequence /\ i.control = b.input.control
      BY <3>3
    <3>5. d = [b EXCEPT !.input = i]
      BY <3>2 DEF ColState
    <3> HIDE DEF i, d
    <3>6. d \in ColState /\ d.input = i /\ SameLog(b, d) /\ Frame(b, d) /\ d.error = b.error
      BY <3>2, <3>4, <3>5 DEF ColState, SameLog, Frame
    <3>7. Shrinks(b, d)
      BY <3>4, <3>6 DEF Shrinks, HeldBuckets
    <3>8. Good(d, k)
      BY <3>2, <3>6, <3>7, Dropped
    <3>9. Frame(c, d) /\ Shrinks(c, d)
      BY <3>2, <3>6, <3>7 DEF Frame, Shrinks
    <3>10. (c.in_callback \/ c.pending # <<>>) /\ (c.error = "none" => d.error = "limit")
      BY <1>3, <2>2, <3>6 DEF Preserves, b
    <3> QED BY <3>1, <3>8, <3>9, <3>10 DEF Preserves
  <2> QED BY <2>1, <2>2
<1>5. CASE s.end # "done" /\ o = s
  <2>1. c.input # NoInput
    <3>1. c.input = NoInput => p = Done(c)
      BY DEF EmitSequence, NoInput
    <3>2. Done(c).end = "done"
      BY DEF Done
    <3> QED BY <1>2, <1>5, <3>1, <3>2
  <2> QED BY <1>4, <1>5, <2>1
<1>6. ASSUME s.end = "done", NEW q \in EmitTextRun(s.col),
             \/ q.end # "done" /\ o = q
             \/ q.end = "done" /\ o \in EmitControlKeys(q.col)
      PROVE  /\ Preserves(c, o, k)
             /\ o.end = "done" => o.col.input.sequence = {} /\ o.col.input.text = {}
             /\ o.end = "done" /\ ~c.in_callback /\ c.pending = <<>> => o.col.input = NoInput
             /\ c.input = NoInput => o = Done(c)
  <2>1. Good(s.col, k) /\ s.col.input.sequence = {}
    BY <1>3, <1>4, <1>6 DEF Preserves
  <2>2. /\ Preserves(s.col, q, k)
        /\ q.end = "done" => q.col.input.text = {}
    BY <1>6, <2>1, EmitTextRunPreserves
  <2>3. Preserves(c, q, k)
    BY <1>4, <1>6, <2>2, PreservesInTurn
  <2>4. c.input = NoInput => q = Done(c)
    <3>1. HAVE c.input = NoInput
    <3>2. p = Done(c) /\ s = Done(c)
      <4>1. p = Done(c)
        BY <3>1 DEF EmitSequence, NoInput
      <4> QED BY <1>4, <1>6, <4>1
    <3>3. s.col = c
      BY <3>2 DEF Done
    <3> QED BY <1>6, <3>1, <3>3 DEF EmitTextRun, NoInput
  <2>5. CASE q.end # "done" /\ o = q
    <3>1. Done(c).end = "done"
      BY DEF Done
    <3> QED BY <2>3, <2>4, <2>5, <3>1
  <2>6. CASE q.end = "done" /\ o \in EmitControlKeys(q.col)
    <3>1. Good(q.col, k)
      BY <2>2 DEF Preserves
    <3>2. /\ Preserves(q.col, o, k)
          /\ o.end = "done" /\ ~q.col.in_callback /\ q.col.pending = <<>> => HeldBuckets(o.col) = {}
      BY <2>6, <3>1, EmitControlKeysPreserves
    <3>3. Preserves(c, o, k)
      BY <2>3, <2>6, <3>2, PreservesInTurn
    <3>4. o.col.input.sequence = {} /\ o.col.input.text = {}
      BY <2>1, <2>2, <2>6, <3>2 DEF Preserves, Shrinks
    <3>5. o.end = "done" /\ ~c.in_callback /\ c.pending = <<>> => o.col.input = NoInput
      <4>1. HAVE o.end = "done" /\ ~c.in_callback /\ c.pending = <<>>
      <4>2. ~q.col.in_callback /\ q.col.pending = <<>>
        BY <2>3, <2>6, <4>1 DEF Preserves, Frame
      <4>3. HeldBuckets(o.col) = {}
        BY <3>2, <4>1, <4>2
      <4>4. o.col \in ColState
        BY <3>3 DEF Preserves, Good, Sound
      <4>5. o.col.input \in [sequence : SUBSET Nat, text : SUBSET Nat, control : [Buckets -> SUBSET Nat]]
        BY <4>4, ColFields
      <4>6. o.col.input.control = [b \in Buckets |-> {}]
        BY <4>3, <4>5 DEF HeldBuckets
      <4> QED BY <3>4, <4>5, <4>6 DEF NoInput
    <3>6. c.input = NoInput => o = Done(c)
      <4>1. HAVE c.input = NoInput
      <4>2. q.col = c
        BY <2>4, <4>1 DEF Done
      <4>3. HeldBuckets(c) = {}
        BY <4>1 DEF HeldBuckets, NoInput
      <4> QED BY <2>6, <4>2, <4>3 DEF EmitControlKeys
    <3> QED BY <3>3, <3>4, <3>5, <3>6
  <2> QED BY <1>6, <2>5, <2>6
<1> QED BY <1>1, <1>5, <1>6

-----------------------------------------------------------------------------
(* Flushing everything *)

(* A call into Neovim or the file system changes nothing of the session. *)
LEMMA MayFailPreserves ==
  ASSUME NEW k \in Nat, NEW c, Good(c, k), NEW o \in MayFail(c)
  PROVE  /\ Preserves(c, o, k) /\ o.end \in {"done", "raised"}
         /\ SameLog(c, o.col) /\ o.col.input = c.input /\ o.col.error = c.error
         /\ o.end = "done" => o.col = c
<1>1. c \in ColState
  BY DEF Good, Sound
<1> DEFINE d == o.col
<1>2. /\ d \in ColState /\ WriterOnly(c, d)
      /\ d.pending = c.pending /\ d.payload = c.payload
      /\ d.consumed = c.consumed /\ d.file = c.file
      /\ o.end \in {"done", "raised"}
      /\ o.end = "done" => d = c
  BY <1>1, MayFailOutcomes
<1> HIDE DEF d
<1>3. SameLog(c, d) /\ Frame(c, d) /\ d.input = c.input /\ d.error = c.error
  BY <1>2 DEF SameLog, Frame, WriterOnly
<1>4. Shrinks(c, d)
  BY <1>3 DEF Shrinks, HeldBuckets
<1>5. Good(d, k)
  BY <1>2, <1>3, <1>4, Dropped
<1>6. KeptBy(d) = KeptBy(c)
  <2>1. Trail(d) = Trail(c)
    BY <1>3, SameTrail
  <2> QED BY <1>3, <2>1 DEF KeptBy, InMemory
<1>7. Preserves(c, o, k)
  BY <1>2, <1>3, <1>4, <1>5, <1>6 DEF Preserves, d
<1> QED BY <1>2, <1>3, <1>7 DEF d

(* Outside the callback a flush is never refused: the queue is written      *)
(* first, so there is room for all the input held.                          *)
LEMMA FlushAllPreserves ==
  ASSUME NEW k \in Nat, NEW c, Good(c, k), ~c.in_callback, NEW o \in FlushAll(c)
  PROVE  /\ Preserves(c, o, k) /\ o.end \in {"done", "raised"}
         /\ o.end = "done" => /\ o.col.pending = <<>> /\ o.col.payload = None
                              /\ o.col.consumed = 0 /\ o.col.input = NoInput
         /\ c.pending = <<>> /\ c.input = NoInput /\ c.published => o = Done(c)
<1>1. PICK w \in WritePending(c) :
        \/ w.end # "done" /\ (w.end # "raised" => FALSE) /\ o = w
        \/ /\ w.end = "done"
           /\ \E i \in FlushInput(w.col) :
                \/ i.end = "raised" /\ o = i
                \/ /\ i.end # "raised"
                   /\ \E v \in WritePending(i.col) :
                        \/ v.end # "done" /\ o = v
                        \/ v.end = "done" /\ o \in Sync(v.col)
  <2>1. PICK u \in Anyway(Then(WritePending(c), FlushInput), WritePending) :
               IF u.end = "done" THEN o \in Sync(u.col) ELSE o = u
    BY DEF FlushAll, Then
  <2>2. PICK i \in Then(WritePending(c), FlushInput) :
               IF i.end # "raised" THEN u \in WritePending(i.col) ELSE u = i
    BY <2>1 DEF Anyway
  <2>3. PICK w \in WritePending(c) : IF w.end = "done" THEN i \in FlushInput(w.col) ELSE i = w
    BY <2>2 DEF Then
  <2>4. w.end \in {"done", "raised"}
    BY WritePendingPreserves
  <2>5. CASE w.end = "raised"
    <3>1. i = w
      BY <2>3, <2>5
    <3>2. u = i
      BY <2>2, <2>5, <3>1
    <3>3. o = u
      BY <2>1, <2>5, <3>1, <3>2
    <3> QED BY <2>5, <3>1, <3>2, <3>3
  <2>6. CASE w.end = "done"
    <3>1. i \in FlushInput(w.col)
      BY <2>3, <2>6
    <3>2. CASE i.end = "raised"
      BY <2>1, <2>2, <2>6, <3>1, <3>2
    <3>3. CASE i.end # "raised"
      <4>1. u \in WritePending(i.col)
        BY <2>2, <3>3
      <4> QED BY <2>1, <2>6, <3>1, <3>3, <4>1
    <3> QED BY <3>2, <3>3
  <2> QED BY <2>4, <2>5, <2>6
<1>2. /\ Preserves(c, w, k)
      /\ w.end \in {"done", "raised"} /\ w.col.input = c.input
      /\ w.end = "done" => w.col.pending = <<>>
  BY WritePendingPreserves
<1>3. c.pending = <<>> => w = Done(c)
  BY DEF WritePending
<1>4. CASE w.end # "done" /\ o = w
  <2>1. c.pending # <<>>
    BY <1>3, <1>4 DEF Done
  <2> QED BY <1>2, <1>4, <2>1
<1>5. ASSUME w.end = "done", NEW i \in FlushInput(w.col),
             \/ i.end = "raised" /\ o = i
             \/ /\ i.end # "raised"
                /\ \E v \in WritePending(i.col) :
                     \/ v.end # "done" /\ o = v
                     \/ v.end = "done" /\ o \in Sync(v.col)
      PROVE  /\ Preserves(c, o, k) /\ o.end \in {"done", "raised"}
             /\ o.end = "done" => /\ o.col.pending = <<>> /\ o.col.payload = None
                                  /\ o.col.consumed = 0 /\ o.col.input = NoInput
             /\ c.pending = <<>> /\ c.input = NoInput /\ c.published => o = Done(c)
  <2>1. Good(w.col, k) /\ ~w.col.in_callback /\ w.col.pending = <<>>
    BY <1>2, <1>5 DEF Preserves, Frame
  <2>2. /\ Preserves(w.col, i, k)
        /\ i.end = "done" /\ ~w.col.in_callback /\ w.col.pending = <<>> => i.col.input = NoInput
        /\ w.col.input = NoInput => i = Done(w.col)
    BY <1>5, <2>1, FlushInputPreserves
  <2>3. Preserves(c, i, k)
    BY <1>2, <1>5, <2>2, PreservesInTurn
  <2>4. i.end \in {"done", "raised"}
    BY <2>1, <2>2 DEF Preserves
  <2>5. CASE i.end = "raised" /\ o = i
    <3>1. c.pending = <<>> /\ c.input = NoInput => i = Done(w.col)
      BY <1>2, <2>2
    <3>2. ~(c.pending = <<>> /\ c.input = NoInput)
      BY <2>5, <3>1 DEF Done
    <3> QED BY <2>3, <2>5, <3>2
  <2>6. ASSUME i.end # "raised", NEW v \in WritePending(i.col),
               \/ v.end # "done" /\ o = v
               \/ v.end = "done" /\ o \in Sync(v.col)
        PROVE  /\ Preserves(c, o, k) /\ o.end \in {"done", "raised"}
               /\ o.end = "done" => /\ o.col.pending = <<>> /\ o.col.payload = None
                                    /\ o.col.consumed = 0 /\ o.col.input = NoInput
               /\ c.pending = <<>> /\ c.input = NoInput /\ c.published => o = Done(c)
    <3>1. i.end = "done" /\ Good(i.col, k) /\ i.col.input = NoInput /\ i.col.pending = <<>>
      BY <2>1, <2>2, <2>4, <2>6 DEF Preserves
    <3>2. /\ Preserves(i.col, v, k) /\ v.end \in {"done", "raised"} /\ v.col.input = i.col.input
          /\ v.end = "done" => /\ v.col.pending = <<>> /\ v.col.payload = None
                               /\ v.col.consumed = 0
      BY <2>6, <3>1, WritePendingPreserves
    <3>3. Preserves(c, v, k)
      BY <2>3, <3>1, <3>2, PreservesInTurn
    <3>4. v = Done(i.col)
      BY <2>6, <3>1 DEF WritePending
    <3>5. v.end = "done" /\ v.col = i.col /\ o \in Sync(v.col)
      BY <2>6, <3>4 DEF Done
    <3>6. Good(v.col, k)
      BY <3>1, <3>5
    <3>7. /\ Preserves(v.col, o, k) /\ o.end \in {"done", "raised"}
          /\ o.end = "done" => o.col = v.col
          /\ v.col.published => o = Done(v.col)
      <4>1. CASE v.col.published
        <5>1. o = Done(v.col)
          BY <3>5, <4>1 DEF Sync
        <5> QED BY <3>6, <5>1, DoneNothing DEF Done
      <4>2. CASE ~v.col.published
        <5>1. o \in MayFail(v.col)
          BY <3>5, <4>2 DEF Sync
        <5> QED BY <3>6, <4>2, <5>1, MayFailPreserves
      <4> QED BY <4>1, <4>2
    <3>8. Preserves(c, o, k)
      BY <3>3, <3>5, <3>7, PreservesInTurn
    <3>9. ASSUME c.pending = <<>>, c.input = NoInput, c.published
          PROVE  o = Done(c)
      <4>1. w.col = c /\ w = Done(c)
        BY <1>3, <3>9 DEF Done
      <4>2. i = Done(c) /\ i.col = c
        BY <2>2, <3>9, <4>1 DEF Done
      <4> QED BY <3>5, <3>7, <3>9, <4>2
    <3> QED BY <3>1, <3>2, <3>5, <3>7, <3>8, <3>9
  <2> QED BY <1>5, <2>5, <2>6
<1> QED BY <1>1, <1>4, <1>5

-----------------------------------------------------------------------------
(* Ending the session *)

(* The end of the session is the last event of its trail. *)
LEMMA Closed ==
  ASSUME NEW k \in Nat, NEW c, Good(c, k), ~c.end_queued, NEW d \in ColState, BatchIsBegun(d),
         NEW events \in Seq(Event(Ids)), Trail(d) = Trail(c) \o events,
         d.session = c.session, d.end_queued, d.input = NoInput,
         Len(events) = 1, events[1].kind = "session_end", events[1].session = c.session
  PROVE  Good(d, k)
<1> DEFINE S == Event(Ids)
<1> DEFINE t == Trail(c)
<1> DEFINE u == Trail(d)
<1>1. c \in ColState /\ BatchIsBegun(c)
  BY DEF Good, Sound
<1>2. t \in Seq(S) /\ u \in Seq(S) /\ Len(t) \in Nat /\ Len(u) \in Nat
  BY <1>1, TrailType, LenProperties
<1>3. u = t \o events
  OBVIOUS
<1>4. Len(u) = Len(t) + 1
  <2> DEFINE v == events
  <2>1. t \in Seq(S) /\ v \in Seq(S) /\ u = t \o v /\ Len(v) = 1
    BY <1>2
  <2> HIDE DEF t, u, v, S
  <2>2. Len(t \o v) = Len(t) + Len(v)
    BY <2>1, Joined
  <2> QED BY <2>1, <2>2
<1>5. ASSUME NEW i \in 1..Len(u)
      PROVE  (i \in 1..Len(t) /\ u[i] = t[i]) \/ (i = Len(u) /\ u[i] = events[1])
  <2>1. i \in 1..Len(t \o events)
    BY <1>3
  <2>2. t \in Seq(S) /\ events \in Seq(S)
    BY <1>2
  <2> HIDE DEF t, u, S
  <2>3. \/ i \in 1..Len(t) /\ (t \o events)[i] = t[i]
        \/ i > Len(t) /\ i - Len(t) \in 1..Len(events) /\ (t \o events)[i] = events[i - Len(t)]
    BY <2>1, <2>2, Added
  <2>4. i > Len(t) => i = Len(u) /\ i - Len(t) = 1
    BY <1>2, <1>4
  <2> QED BY <1>3, <2>3, <2>4
<1>6. HeldBuckets(d) = {} /\ Held(d) = {}
  BY DEF HeldBuckets, Held, NoInput
<1> HIDE DEF t, u, S
<1>7. Sound(d)
  <2>1. Cardinality(HeldBuckets(d)) = 0
    BY <1>6, FS_EmptySet
  <2> QED BY <2>1, CollectorAssumption DEF Sound
<1>8. OneOpen(d)
  BY DEF OneOpen, NoInput
<1>9. OneSession(d)
  <2>1. /\ Len(t) >= 1
        /\ \A i \in 1..Len(t) :
             /\ ValidPayload(t[i]) /\ t[i].session = c.session
             /\ t[i].kind = "session_start" <=> i = 1
             /\ t[i].kind # "session_end"
    BY DEF Good, OneSession, t
  <2>2. Len(u) \in 1..Len(u) /\ ~(Len(u) \in 1..Len(t)) /\ Len(u) # 1 /\ Len(u) >= 1
    BY <1>2, <1>4, <2>1
  <2>3. u[Len(u)] = events[1]
    BY <1>5, <2>2
  <2>4. ASSUME NEW i \in 1..Len(u)
        PROVE  /\ ValidPayload(u[i]) /\ u[i].session = d.session
               /\ u[i].kind = "session_start" <=> i = 1
               /\ u[i].kind = "session_end" => i = Len(u) /\ d.end_queued
    <3>1. CASE i \in 1..Len(t) /\ u[i] = t[i]
      <4>1. /\ ValidPayload(t[i]) /\ t[i].session = c.session
            /\ t[i].kind = "session_start" <=> i = 1
            /\ t[i].kind # "session_end"
        BY <2>1, <3>1
      <4> QED BY <3>1, <4>1
    <3>2. CASE i = Len(u) /\ u[i] = events[1]
      BY <2>2, <3>2 DEF ValidPayload
    <3> QED BY <1>5, <3>1, <3>2
  <2> QED BY <2>2, <2>3, <2>4 DEF OneSession, u
<1>10. InOrder(d, k)
  <2>1. ASSUME NEW i \in 1..Len(u), Typed(u[i])
        PROVE  i \in 1..Len(t) /\ u[i] = t[i]
    BY <1>5, <2>1 DEF Typed
  <2>2. ASSUME NEW i \in 1..Len(u), NEW j \in 1..Len(u), i < j, Typed(u[i]), Typed(u[j])
        PROVE  \A l \in u[i].keys, m \in u[j].keys : l < m
    <3>1. i \in 1..Len(t) /\ j \in 1..Len(t) /\ u[i] = t[i] /\ u[j] = t[j]
      BY <2>1, <2>2
    <3> QED BY <2>2, <3>1 DEF Good, InOrder, t
  <2>3. ASSUME NEW i \in 1..Len(u), Typed(u[i])
        PROVE  \A l \in u[i].keys : l < k /\ \A m \in Held(d) : l < m
    <3>1. i \in 1..Len(t) /\ u[i] = t[i]
      BY <2>1, <2>3
    <3> QED BY <1>6, <2>3, <3>1 DEF Good, InOrder, t
  <2> QED BY <1>6, <2>2, <2>3 DEF InOrder, u
<1> QED BY <1>7, <1>8, <1>9, <1>10 DEF Good

(* What ending the session guarantees: as Preserves, but for the end.       *)
Closes(c, o, k) ==
  /\ o.end \in {"done", "raised"}
  /\ Good(o.col, k) /\ o.col.error = c.error /\ KeptBy(c) \subseteq KeptBy(o.col)
  /\ o.col.state = c.state /\ o.col.session = c.session /\ o.col.last_mode = c.last_mode
  /\ o.col.in_callback = c.in_callback /\ o.col.published = c.published
  /\ c.end_queued => o.col.end_queued

(* What preserves a session may be a step of closing it. *)
LEMMA PreservesEnds ==
  ASSUME NEW k \in Nat, NEW c, NEW o, Preserves(c, o, k), o.end # "refused"
  PROVE  Closes(c, o, k)
BY DEF Preserves, Frame, Closes

(* session_end is queued once, after all input, and stays queued if its     *)
(* write fails.                                                             *)
LEMMA EndSessionPreserves ==
  ASSUME NEW k \in Nat, NEW c, Good(c, k), ~c.in_callback, c.pending = <<>>,
         NEW o \in EndSession(c)
  PROVE  /\ Closes(c, o, k)
         /\ o.end = "done" => o.col.end_queued /\ o.col.pending = <<>>
         /\ c.end_queued => o = Done(c)
<1>1. CASE c.end_queued
  <2>1. o = Done(c)
    BY <1>1 DEF EndSession
  <2>2. o.col = c /\ o.end = "done"
    BY <2>1 DEF Done
  <2>3. Closes(c, o, k)
    BY <2>2 DEF Closes
  <2> QED BY <1>1, <2>1, <2>2, <2>3
<1>2. CASE ~c.end_queued
  <2>1. PICK i \in FlushInput(c) :
               \/ i.end = "raised" /\ o = i
               \/ /\ i.end # "raised"
                  /\ o \in Queue([i.col EXCEPT !.end_queued = TRUE], "session_end", {})
    BY <1>2 DEF EndSession, Anyway
  <2>2. /\ Preserves(c, i, k)
        /\ i.end = "done" /\ ~c.in_callback /\ c.pending = <<>> => i.col.input = NoInput
    BY <2>1, FlushInputPreserves
  <2>3. i.end \in {"done", "raised"}
    BY <2>2 DEF Preserves
  <2>4. CASE i.end = "raised" /\ o = i
    BY <1>2, <2>2, <2>4, PreservesEnds
  <2>5. CASE i.end # "raised" /\ o \in Queue([i.col EXCEPT !.end_queued = TRUE], "session_end", {})
    <3> DEFINE d == i.col
    <3> DEFINE b == [d EXCEPT !.end_queued = TRUE]
    <3> DEFINE e == Ev(b, "session_end", {})
    <3> DEFINE events == <<e>>
    <3>1. /\ i.end = "done" /\ d.input = NoInput /\ d.pending = <<>>
          /\ Good(d, k) /\ d \in ColState /\ BatchIsBegun(d)
      BY <2>2, <2>3, <2>5 DEF Preserves, Good, Sound
    <3>2. o \in QueueMany(b, events)
      BY <2>5 DEF Queue
    <3> HIDE DEF d
    <3>3. /\ b \in ColState /\ b.input = NoInput /\ b.pending = <<>> /\ b.end_queued
          /\ b.payload = d.payload /\ b.consumed = d.consumed /\ b.file = d.file
          /\ b.state = d.state /\ b.error = d.error /\ b.session = d.session
          /\ b.last_mode = d.last_mode /\ b.in_callback = d.in_callback
          /\ b.published = d.published
      BY <3>1 DEF ColState
    <3> HIDE DEF b
    <3>4. Trail(b) = Trail(d) /\ BatchIsBegun(b)
      BY <3>1, <3>3 DEF Trail, BatchIsBegun
    <3>5. /\ e \in Event(Ids) /\ e.kind = "session_end" /\ e.session = d.session /\ e.keys = {}
      BY <3>3, EventType
    <3> HIDE DEF e
    <3>6. /\ events \in Seq(Event(Ids)) /\ Len(events) = 1 /\ events[1] = e
          /\ Marks(events) = {<<e.kind, l>> : l \in e.keys}
      BY <3>5, Single
    <3> HIDE DEF events
    <3>7. ~c.in_callback /\ ~d.in_callback /\ d.error = c.error /\ ~d.end_queued
      BY <1>2, <2>2, <3>1 DEF Preserves, Frame, d
    <3>8. Len(b.pending) + Len(events) <= MaxPending
      BY <3>3, <3>6, CollectorAssumption
    <3>9. /\ o.end \in {"done", "refused", "raised"}
          /\ o.end = "refused" =>
              \/ o.col = b /\ b.in_callback /\ b.error # "none"
              \/ o.col = OverLimit(b) /\ Len(b.pending) + Len(events) > MaxPending
          /\ o.end # "refused" =>
              /\ o.col \in ColState /\ BatchIsBegun(o.col) /\ QueueOnly(b, o.col)
              /\ Trail(o.col) = Trail(b) \o events
              /\ ~b.in_callback /\ o.end = "done" => o.col.pending = <<>>
      BY <3>2, <3>3, <3>4, <3>6, QueueManyOutcomes
    <3>10. o.end # "refused"
      <4>1. ~(Len(b.pending) + Len(events) > MaxPending)
        BY <3>3, <3>6, CollectorAssumption
      <4> QED BY <3>3, <3>7, <3>9, <4>1
    <3> DEFINE f == o.col
    <3>11. /\ f \in ColState /\ BatchIsBegun(f) /\ Trail(f) = Trail(d) \o events
           /\ f.session = d.session /\ f.end_queued /\ f.input = NoInput
           /\ f.state = d.state /\ f.error = d.error /\ f.last_mode = d.last_mode
           /\ f.in_callback = d.in_callback /\ f.published = d.published
           /\ o.end = "done" => f.pending = <<>>
      BY <3>3, <3>4, <3>7, <3>9, <3>10 DEF QueueOnly
    <3>12. Good(f, k)
      <4>1. events[1].kind = "session_end" /\ events[1].session = d.session
        BY <3>5, <3>6
      <4> HIDE DEF f
      <4> QED BY <3>1, <3>6, <3>7, <3>11, <4>1, Closed
    <3>13. KeptBy(d) \subseteq KeptBy(f)
      <4>1. Trail(d) \in Seq(Event(Ids))
        BY <3>1, TrailType
      <4>2. Marks(Trail(d) \o events) = Marks(Trail(d)) \cup Marks(events)
        BY <3>6, <4>1, MarksAdded
      <4>3. InMemory(d) = InMemory(f)
        BY <3>1, <3>11 DEF InMemory
      <4> HIDE DEF f
      <4> QED BY <3>11, <4>2, <4>3 DEF KeptBy
    <3>14. /\ d.state = c.state /\ d.session = c.session /\ d.last_mode = c.last_mode
           /\ d.in_callback = c.in_callback /\ d.published = c.published
           /\ KeptBy(c) \subseteq KeptBy(d)
      BY <2>2, <3>1 DEF Preserves, Frame, d
    <3> HIDE DEF d
    <3> QED BY <1>2, <3>7, <3>9, <3>10, <3>11, <3>12, <3>13, <3>14 DEF Closes
  <2> QED BY <2>1, <2>4, <2>5
<1>3. c.end_queued \in BOOLEAN
  BY ColFields DEF Good, Sound
<1> QED BY <1>1, <1>2, <1>3

-----------------------------------------------------------------------------
(* Keys *)

(* A key k joins the keys held, all of which came before. *)
LEMMA KeyHeld ==
  ASSUME NEW k \in Nat, NEW c, Good(c, k), ~c.end_queued, NEW d \in ColState, SameLog(c, d),
         Held(d) \subseteq Held(c) \cup {k}, OneOpen(d),
         Cardinality(HeldBuckets(d)) <= MaxBuckets
  PROVE  Good(d, k + 1)
<1> DEFINE t == Trail(c)
<1>1. Trail(d) = t /\ BatchIsBegun(d) /\ c \in ColState /\ BatchIsBegun(c)
  BY SameTrail DEF Good, Sound
<1>2. t \in Seq(Event(Ids))
  BY <1>1, TrailType
<1>3. \A i \in 1..Len(t) : t[i].keys \subseteq Nat
  <2>1. \A i \in 1..Len(t) : t[i] \in Event(Ids)
    BY <1>2, ElementOfSeq
  <2> HIDE DEF t
  <2> QED BY <2>1 DEF Event
<1>4. Held(c) \subseteq Nat
  <2>1. c.input \in [sequence : SUBSET Nat, text : SUBSET Nat, control : [Buckets -> SUBSET Nat]]
    BY <1>1, ColFields
  <2> QED BY <2>1 DEF Held
<1> HIDE DEF t
<1>5. Sound(d)
  BY <1>1 DEF Sound
<1>6. OneSession(d)
  BY <1>1 DEF Good, OneSession, SameLog, t
<1>7. InOrder(d, k + 1)
  <2>1. \A i, j \in 1..Len(t) : i < j /\ Typed(t[i]) /\ Typed(t[j]) =>
          \A l \in t[i].keys, m \in t[j].keys : l < m
    BY DEF Good, InOrder, t
  <2>2. ASSUME NEW i \in 1..Len(t), Typed(t[i]), NEW l \in t[i].keys
        PROVE  l < k + 1 /\ \A m \in Held(d) : l < m
    <3>1. l < k /\ \A m \in Held(c) : l < m
      BY <2>2 DEF Good, InOrder, t
    <3>2. l \in Nat
      BY <1>3
    <3> QED BY <3>1, <3>2
  <2>3. \A l \in Held(d) : l < k + 1
    <3>1. \A l \in Held(c) : l < k
      BY DEF Good, InOrder
    <3> QED BY <1>4, <3>1
  <2> QED BY <1>1, <2>1, <2>2, <2>3 DEF InOrder
<1> QED BY <1>5, <1>6, <1>7 DEF Good

(* What is in order before a key is in order before the next. *)
LEMMA Later ==
  ASSUME NEW k \in Nat, NEW c, Good(c, k), ~c.end_queued
  PROVE  Good(c, k + 1)
<1>1. c \in ColState /\ SameLog(c, c) /\ OneOpen(c) /\ Cardinality(HeldBuckets(c)) <= MaxBuckets
  BY DEF Good, Sound, SameLog
<1>2. Held(c) \subseteq Held(c) \cup {k}
  OBVIOUS
<1> QED BY <1>1, <1>2, KeyHeld

(* What a step of the callback guarantees: it may enter a mode, and it is   *)
(* refused only at the limit.                                               *)
Heard(c, o, k) ==
  /\ o.end \in {"done", "refused", "raised"} /\ Good(o.col, k)
  /\ o.col.state = c.state /\ o.col.session = c.session
  /\ o.col.in_callback = c.in_callback /\ o.col.end_queued = c.end_queued
  /\ o.col.published = c.published
  /\ o.end # "refused" => o.col.error = c.error /\ KeptBy(c) \subseteq KeptBy(o.col)
  /\ o.end = "refused" => (c.error = "none" => o.col.error = "limit")

(* What preserves a session may be a step of handling a key ... *)
LEMMA PreservesHeard ==
  ASSUME NEW k \in Nat, NEW c, NEW o, Preserves(c, o, k)
  PROVE  Heard(c, o, k)
BY DEF Preserves, Frame, Heard

(* ... before the key or after it ... *)
LEMMA HeardLater ==
  ASSUME NEW k \in Nat, NEW c, NEW o, Heard(c, o, k), ~c.end_queued
  PROVE  Heard(c, o, k + 1)
<1>1. Good(o.col, k) /\ ~o.col.end_queued
  BY DEF Heard
<1>2. Good(o.col, k + 1)
  BY <1>1, Later
<1> QED BY <1>2 DEF Heard

(* ... and one such step may follow another. *)
LEMMA HeardInTurn ==
  ASSUME NEW k, NEW j, NEW c, NEW o, Heard(c, o, j), o.end = "done",
         NEW p, Heard(o.col, p, k)
  PROVE  Heard(c, p, k)
<1>1. /\ p.end \in {"done", "refused", "raised"} /\ Good(p.col, k)
      /\ p.col.state = c.state /\ p.col.session = c.session
      /\ p.col.in_callback = c.in_callback /\ p.col.end_queued = c.end_queued
      /\ p.col.published = c.published
  BY DEF Heard
<1>2. o.col.error = c.error /\ KeptBy(c) \subseteq KeptBy(o.col)
  BY DEF Heard
<1>3. p.end # "refused" => p.col.error = c.error /\ KeptBy(c) \subseteq KeptBy(p.col)
  BY <1>2 DEF Heard
<1>4. p.end = "refused" => (c.error = "none" => p.col.error = "limit")
  BY <1>2 DEF Heard
<1> QED BY <1>1, <1>3, <1>4 DEF Heard

(* A single event that is neither a sequence nor a text run. *)
LEMMA QueueOnePreserves ==
  ASSUME NEW k \in Nat, NEW c, Good(c, k), ~c.end_queued, NEW keys \in SUBSET Nat,
         NEW kind \in {"mapping_use", "mode_transition"},
         kind = "mapping_use" => keys # {},
         NEW o \in Queue(c, kind, keys)
  PROVE  /\ Preserves(c, o, k)
         /\ o.end # "refused" => o.col.input = c.input
<1> DEFINE e == Ev(c, kind, keys)
<1> DEFINE events == <<e>>
<1>1. o \in QueueMany(c, events)
  BY DEF Queue
<1>2. c \in ColState
  BY DEF Good, Sound
<1>3. e \in Event(Ids) /\ e.kind = kind /\ e.keys = keys /\ e.session = c.session
  BY <1>2, EventType
<1> HIDE DEF e
<1>4. /\ events \in Seq(Event(Ids)) /\ Len(events) = 1
      /\ \A j \in 1..Len(events) : events[j] = e
  BY <1>3, Single
<1> HIDE DEF events
<1>5. MayFollow(c, c, events)
  <2>1. ValidPayload(e) /\ e.kind \notin {"session_start", "session_end"} /\ ~Typed(e)
    BY <1>3 DEF ValidPayload, Typed
  <2> QED BY <1>3, <1>4, <2>1 DEF MayFollow
<1>6. SameLog(c, c) /\ Frame(c, c) /\ Shrinks(c, c)
  BY DEF SameLog, Frame, Shrinks
<1>7. Len(events) <= MaxPending
  BY <1>4, CollectorAssumption
<1>8. InMemory(c) \subseteq InMemory(c) \cup Marks(events)
  OBVIOUS
<1>9. c.error = c.error
  OBVIOUS
<1> QED BY <1>1, <1>2, <1>4, <1>5, <1>6, <1>7, <1>8, <1>9, QueuePreserves

(* A change of the mode alone. *)
LEMMA ModeSet ==
  ASSUME NEW k \in Nat, NEW c, Good(c, k), NEW mode \in Modes \cup {None}
  PROVE  /\ Good([c EXCEPT !.last_mode = mode], k)
         /\ Heard(c, Done([c EXCEPT !.last_mode = mode]), k)
         /\ [c EXCEPT !.last_mode = mode].last_mode = mode
         /\ [c EXCEPT !.last_mode = mode].input = c.input
<1> DEFINE d == [c EXCEPT !.last_mode = mode]
<1>1. c \in ColState
  BY DEF Good, Sound
<1>2. /\ d \in ColState /\ SameLog(c, d) /\ d.input = c.input /\ d.last_mode = mode
      /\ d.error = c.error /\ d.state = c.state /\ d.session = c.session
      /\ d.in_callback = c.in_callback /\ d.end_queued = c.end_queued
      /\ d.published = c.published
  BY <1>1 DEF ColState, SameLog
<1> HIDE DEF d
<1>3. Shrinks(c, d)
  BY <1>2 DEF Shrinks, HeldBuckets
<1>4. Good(d, k)
  BY <1>2, <1>3, Dropped
<1>5. KeptBy(d) = KeptBy(c)
  <2>1. Trail(d) = Trail(c)
    BY <1>2, SameTrail
  <2> QED BY <1>2, <2>1 DEF KeptBy, InMemory
<1>6. Heard(c, Done(d), k)
  BY <1>2, <1>4, <1>5 DEF Heard, Done
<1> QED BY <1>2, <1>4, <1>6 DEF d

(* A change of the mode closes the aggregates of the mode before. *)
LEMMA EnterModePreserves ==
  ASSUME NEW k \in Nat, NEW c, Good(c, k), ~c.end_queued, ModeLink(c), NEW mode \in Modes,
         NEW o \in EnterMode(c, mode)
  PROVE  /\ Heard(c, o, k)
         /\ o.end = "done" => ModeLink(o.col) /\ o.col.last_mode = mode
<1> DEFINE b == [c EXCEPT !.last_mode = mode]
<1>1. /\ Good(b, k) /\ Heard(c, Done(b), k) /\ b.last_mode = mode /\ b.input = c.input
  BY ModeSet
<1>2. None \notin Modes
  BY CollectorAssumption
<1>3. CASE c.last_mode \in {None, mode}
  <2>1. o = Done(b)
    BY <1>3 DEF EnterMode
  <2> HIDE DEF b
  <2>2. ModeLink(b)
    <3>1. CASE c.last_mode = mode
      BY <1>1, <3>1 DEF ModeLink
    <3>2. CASE c.last_mode = None
      <4>1. c.input.sequence = {} /\ c.input.text = {}
        BY <1>2, <3>2 DEF ModeLink, SequenceModes
      <4> QED BY <1>1, <4>1 DEF ModeLink
    <3> QED BY <1>3, <3>1, <3>2
  <2> QED BY <1>1, <2>1, <2>2 DEF Done
<1>4. CASE c.last_mode \notin {None, mode}
  <2>1. PICK i \in FlushInput(b) :
               IF i.end = "done" THEN o \in Queue(i.col, "mode_transition", {}) ELSE o = i
    BY <1>4 DEF EnterMode, Then
  <2> HIDE DEF b
  <2>2. /\ Preserves(b, i, k)
        /\ i.end = "done" => i.col.input.sequence = {} /\ i.col.input.text = {}
    BY <1>1, <2>1, FlushInputPreserves
  <2>3. Heard(b, i, k)
    BY <2>2, PreservesHeard
  <2>4. Heard(c, i, k)
    <3>1. Done(b).end = "done" /\ Done(b).col = b
      BY DEF Done
    <3> DEFINE w == Done(b)
    <3>2. Heard(c, w, k) /\ w.end = "done" /\ Heard(w.col, i, k)
      BY <1>1, <2>3, <3>1
    <3> HIDE DEF w
    <3> QED BY <3>2, HeardInTurn
  <2>5. CASE i.end # "done" /\ o = i
    BY <2>4, <2>5
  <2>6. CASE i.end = "done" /\ o \in Queue(i.col, "mode_transition", {})
    <3>1. Good(i.col, k) /\ ~i.col.end_queued
      BY <2>4 DEF Heard
    <3>2. {} \in SUBSET Nat /\ "mode_transition" \in {"mapping_use", "mode_transition"}
      OBVIOUS
    <3>3. "mode_transition" = "mapping_use" => {} # {}
      OBVIOUS
    <3>4. /\ Preserves(i.col, o, k)
          /\ o.end # "refused" => o.col.input = i.col.input
      BY <2>6, <3>1, <3>2, <3>3, QueueOnePreserves
    <3>5. Heard(i.col, o, k)
      BY <3>4, PreservesHeard
    <3>6. Heard(c, o, k)
      BY <2>4, <2>6, <3>5, HeardInTurn
    <3>7. o.end = "done" => ModeLink(o.col)
      BY <2>2, <2>6, <3>4 DEF ModeLink
    <3>8. o.col.last_mode = mode
      BY <1>1, <2>2, <3>4 DEF Preserves, Frame
    <3> QED BY <3>6, <3>7, <3>8
  <2> QED BY <2>1, <2>5, <2>6
<1> QED BY <1>3, <1>4

(* A key of a sequence is held, after the full or timed-out sequence is     *)
(* queued.                                                                  *)
LEMMA RecordSequencePreserves ==
  ASSUME NEW k \in Nat, NEW c, Good(c, k), ~c.end_queued, c.input.text = {},
         NEW late \in BOOLEAN, NEW o \in RecordSequence(c, k, late)
  PROVE  /\ Heard(c, o, k + 1)
         /\ o.end = "done" => o.col.input.text = {} /\ o.col.last_mode = c.last_mode
<1> DEFINE Add(d) == [d EXCEPT !.input.sequence = @ \cup {k}]
<1>1. ASSUME NEW d, Good(d, k), ~d.end_queued, d.input.text = {}
      PROVE  /\ Heard(d, Done(Add(d)), k + 1)
             /\ Add(d).input.text = {} /\ Add(d).last_mode = d.last_mode
  <2> DEFINE i == [d.input EXCEPT !.sequence = @ \cup {k}]
  <2> DEFINE b == Add(d)
  <2>1. d \in ColState /\ Cardinality(HeldBuckets(d)) <= MaxBuckets
    BY <1>1 DEF Good, Sound
  <2>2. d.input \in [sequence : SUBSET Nat, text : SUBSET Nat, control : [Buckets -> SUBSET Nat]]
    BY <2>1, ColFields
  <2>3. /\ i \in [sequence : SUBSET Nat, text : SUBSET Nat, control : [Buckets -> SUBSET Nat]]
        /\ i.sequence = d.input.sequence \cup {k} /\ i.text = {}
        /\ i.control = d.input.control
    BY <1>1, <2>2
  <2>4. b = [d EXCEPT !.input = i]
    BY <2>1 DEF ColState
  <2> HIDE DEF i, b
  <2>5. /\ b \in ColState /\ b.input = i /\ SameLog(d, b) /\ b.last_mode = d.last_mode
        /\ b.state = d.state /\ b.session = d.session /\ b.in_callback = d.in_callback
        /\ b.end_queued = d.end_queued /\ b.published = d.published /\ b.error = d.error
    BY <2>1, <2>3, <2>4 DEF ColState, SameLog
  <2>6. Held(b) \subseteq Held(d) \cup {k} /\ OneOpen(b) /\ HeldBuckets(b) = HeldBuckets(d)
    BY <1>1, <2>3, <2>5 DEF Held, OneOpen, HeldBuckets
  <2>7. Good(b, k + 1)
    BY <1>1, <2>1, <2>5, <2>6, KeyHeld
  <2>8. KeptBy(d) \subseteq KeptBy(b)
    <3>1. Trail(b) = Trail(d)
      BY <2>5, SameTrail
    <3> QED BY <1>1, <2>3, <2>5, <3>1 DEF KeptBy, InMemory
  <2>9. Heard(d, Done(b), k + 1)
    BY <2>5, <2>7, <2>8 DEF Heard, Done
  <2> QED BY <2>3, <2>5, <2>9 DEF b
<1>2. \/ o = Done(Add(c))
      \/ \E w \in EmitSequence(c) : IF w.end = "done" THEN o = Done(Add(w.col)) ELSE o = w
  <2>1. o \in IF late \/ Cardinality(c.input.sequence) >= MaxSequenceKeys
              THEN UNION {IF w.end = "done" THEN {Done(Add(w.col))} ELSE {w} : w \in EmitSequence(c)}
              ELSE {Done(Add(c))}
    BY DEF RecordSequence, Then
  <2> HIDE DEF Add
  <2>2. CASE late \/ Cardinality(c.input.sequence) >= MaxSequenceKeys
    BY <2>1, <2>2
  <2>3. CASE ~(late \/ Cardinality(c.input.sequence) >= MaxSequenceKeys)
    BY <2>1, <2>3
  <2> QED BY <2>2, <2>3
<1> HIDE DEF Add
<1>3. CASE o = Done(Add(c))
  <2>1. Heard(c, Done(Add(c)), k + 1) /\ Add(c).input.text = {} /\ Add(c).last_mode = c.last_mode
    BY <1>1
  <2> QED BY <1>3, <2>1 DEF Done
<1>4. ASSUME NEW w \in EmitSequence(c), IF w.end = "done" THEN o = Done(Add(w.col)) ELSE o = w
      PROVE  /\ Heard(c, o, k + 1)
             /\ o.end = "done" => o.col.input.text = {} /\ o.col.last_mode = c.last_mode
  <2>1. Preserves(c, w, k)
    BY <1>4, EmitSequencePreserves
  <2>2. Heard(c, w, k) /\ w.col.input.text = {} /\ w.col.last_mode = c.last_mode
    BY <2>1, PreservesHeard DEF Preserves, Shrinks, Frame
  <2>3. CASE w.end # "done"
    <3>1. Heard(c, w, k + 1)
      BY <2>2, HeardLater
    <3> QED BY <1>4, <2>3, <3>1
  <2>4. CASE w.end = "done"
    <3>1. Good(w.col, k) /\ ~w.col.end_queued
      BY <2>2 DEF Heard
    <3> DEFINE d == w.col
    <3>2. /\ Heard(d, Done(Add(d)), k + 1)
          /\ Add(d).input.text = {} /\ Add(d).last_mode = d.last_mode
      BY <1>1, <2>2, <3>1
    <3>3. o = Done(Add(d))
      BY <1>4, <2>4
    <3>4. Heard(c, o, k + 1)
      <4>1. Heard(w.col, o, k + 1)
        BY <3>2, <3>3
      <4> QED BY <2>2, <2>4, <4>1, HeardInTurn
    <3> QED BY <2>2, <3>2, <3>3, <3>4 DEF Done
  <2> QED BY <2>3, <2>4
<1> QED BY <1>2, <1>3, <1>4

(* A mapping use joins the queue behind the keys so far. *)
LEMMA RecordMappingUsePreserves ==
  ASSUME NEW k \in Nat, NEW c, Good(c, k), ~c.end_queued, NEW l \in Nat,
         NEW resolved \in BOOLEAN, NEW o \in RecordMappingUse(c, l, resolved)
  PROVE  /\ Heard(c, o, k)
         /\ o.end = "done" => o.col.input = c.input /\ o.col.last_mode = c.last_mode
<1>1. CASE ~resolved
  <2>1. o = Done(c)
    BY <1>1 DEF RecordMappingUse
  <2>2. o.col = c /\ o.end = "done"
    BY <2>1 DEF Done
  <2>3. Heard(c, o, k)
    BY <2>2 DEF Heard
  <2> QED BY <2>2, <2>3
<1>2. CASE resolved
  <2>1. o \in Queue(c, "mapping_use", {l})
    BY <1>2 DEF RecordMappingUse
  <2>2. {l} \in SUBSET Nat /\ "mapping_use" \in {"mapping_use", "mode_transition"}
    OBVIOUS
  <2>3. "mapping_use" = "mapping_use" => {l} # {}
    OBVIOUS
  <2>4. Preserves(c, o, k) /\ (o.end # "refused" => o.col.input = c.input)
    BY <2>1, <2>2, <2>3, QueueOnePreserves
  <2>5. Heard(c, o, k) /\ o.col.last_mode = c.last_mode
    BY <2>4, PreservesHeard DEF Preserves, Frame
  <2> QED BY <2>4, <2>5
<1> QED BY <1>1, <1>2

(* A key typed in insert mode: the text run takes it, and its bucket unless *)
(* there are too many.                                                      *)
Takes(c, d, k) ==
  /\ Good(d, k + 1) /\ KeptBy(c) \subseteq KeptBy(d)
  /\ d.input.sequence = {} /\ d.last_mode = c.last_mode
  /\ d.state = c.state /\ d.session = c.session /\ d.in_callback = c.in_callback
  /\ d.end_queued = c.end_queued /\ d.published = c.published

(* A key typed in insert mode is held as text, and as a control key if      *)
(* there is a bucket for it.                                                *)
LEMMA InsertKeyPreserves ==
  ASSUME NEW k \in Nat, NEW c, Good(c, k), ~c.end_queued, c.input.sequence = {},
         NEW bucket \in Buckets \cup {None}
  PROVE  Takes(c, RecordControlKeys(RecordTextKeys(c, k), k, bucket), k)
<1> DEFINE I == [sequence : SUBSET Nat, text : SUBSET Nat, control : [Buckets -> SUBSET Nat]]
<1>1. c \in ColState /\ Cardinality(HeldBuckets(c)) <= MaxBuckets
  BY DEF Good, Sound
<1>2. c.input \in I
  BY <1>1, ColFields
<1> DEFINE i == [c.input EXCEPT !.text = @ \cup {k}]
<1> DEFINE b == RecordTextKeys(c, k)
<1>3. /\ i \in I /\ i.sequence = {} /\ i.text = c.input.text \cup {k}
      /\ i.control = c.input.control
  BY <1>2
<1>4. b = [c EXCEPT !.input = i]
  BY <1>1 DEF RecordTextKeys, ColState
<1> HIDE DEF i, b
(* Of what the key changes only the input matters. *)
<1>5. ASSUME NEW h \in I, NEW error \in Errors,
             h.sequence = {}, h.text = c.input.text \cup {k},
             \A x \in Buckets : c.input.control[x] \subseteq h.control[x],
             Cardinality({x \in Buckets : h.control[x] # {}}) <= MaxBuckets
      PROVE  Takes(c, [c EXCEPT !.input = h, !.error = error], k)
  <2> DEFINE d == [c EXCEPT !.input = h, !.error = error]
  <2>1. /\ d \in ColState /\ d.input = h /\ SameLog(c, d) /\ d.last_mode = c.last_mode
        /\ d.state = c.state /\ d.session = c.session /\ d.in_callback = c.in_callback
        /\ d.end_queued = c.end_queued /\ d.published = c.published
    BY <1>1, <1>5 DEF ColState, SameLog
  <2> HIDE DEF d
  <2>2. Held(d) \subseteq Held(c) \cup {k} /\ OneOpen(d)
    BY <1>5, <2>1 DEF Held, OneOpen
  <2>3. HeldBuckets(d) = {x \in Buckets : h.control[x] # {}}
    BY <2>1 DEF HeldBuckets
  <2>4. Good(d, k + 1)
    BY <1>5, <2>1, <2>2, <2>3, KeyHeld
  <2>5. InMemory(c) \subseteq InMemory(d)
    <3>1. ASSUME NEW x \in Buckets, NEW l \in c.input.control[x]
          PROVE  l \in UNION Range(d.input.control)
      <4>1. l \in d.input.control[x] /\ DOMAIN d.input.control = Buckets
        BY <1>5, <2>1
      <4> QED BY <4>1 DEF Range
    <3>2. UNION Range(c.input.control) \subseteq UNION Range(d.input.control)
      <4>1. DOMAIN c.input.control = Buckets
        BY <1>2
      <4> QED BY <3>1, <4>1 DEF Range
    <3> QED BY <1>5, <2>1, <3>2 DEF InMemory
  <2>6. Trail(d) = Trail(c)
    BY <2>1, SameTrail
  <2>7. KeptBy(c) \subseteq KeptBy(d)
    BY <2>5, <2>6 DEF KeptBy
  <2> QED BY <1>5, <2>1, <2>4, <2>7 DEF Takes, d
<1>6. {x \in Buckets : i.control[x] # {}} = HeldBuckets(c)
  BY <1>3 DEF HeldBuckets
<1>7. c.error \in Errors /\ "control_limit" \in Errors
  BY <1>1, ColFields DEF Errors
<1>8. b.input = i /\ HeldBuckets(b) = HeldBuckets(c) /\ b = [c EXCEPT !.input = i, !.error = c.error]
  <2>1. b.input = i /\ b = [c EXCEPT !.input = i, !.error = c.error]
    BY <1>1, <1>4 DEF ColState
  <2> QED BY <1>6, <2>1 DEF HeldBuckets
<1> DEFINE e == RecordControlKeys(b, k, bucket)
<1>9. CASE bucket = None
  <2>1. e = [c EXCEPT !.input = i, !.error = c.error]
    BY <1>8, <1>9 DEF RecordControlKeys
  <2>2. \A x \in Buckets : c.input.control[x] \subseteq i.control[x]
    BY <1>3
  <2>3. Cardinality({x \in Buckets : i.control[x] # {}}) <= MaxBuckets
    BY <1>1, <1>6
  <2> HIDE DEF e, I
  <2> QED BY <1>3, <1>5, <1>7, <2>1, <2>2, <2>3 DEF e, b
<1>10. CASE bucket # None /\ b.input.control[bucket] = {} /\ Cardinality(HeldBuckets(b)) >= MaxBuckets
  <2>1. e = [c EXCEPT !.input = i, !.error = "control_limit"]
    <3>1. e = [b EXCEPT !.error = "control_limit"]
      BY <1>10 DEF RecordControlKeys
    <3> QED BY <1>1, <1>4, <3>1 DEF ColState
  <2>2. \A x \in Buckets : c.input.control[x] \subseteq i.control[x]
    BY <1>3
  <2>3. Cardinality({x \in Buckets : i.control[x] # {}}) <= MaxBuckets
    BY <1>1, <1>6
  <2> HIDE DEF e, I
  <2> QED BY <1>3, <1>5, <1>7, <2>1, <2>2, <2>3 DEF e, b
<1>11. CASE bucket # None /\ ~(b.input.control[bucket] = {} /\ Cardinality(HeldBuckets(b)) >= MaxBuckets)
  <2> DEFINE f == [i.control EXCEPT ![bucket] = @ \cup {k}]
  <2> DEFINE h == [i EXCEPT !.control = f]
  <2>1. bucket \in Buckets
    BY <1>11
  <2>2. /\ f \in [Buckets -> SUBSET Nat] /\ f[bucket] = c.input.control[bucket] \cup {k}
        /\ \A x \in Buckets : x # bucket => f[x] = c.input.control[x]
    BY <1>2, <1>3, <2>1
  <2>3. e = [c EXCEPT !.input = h, !.error = c.error]
    <3>1. e = [b EXCEPT !.input.control[bucket] = @ \cup {k}]
      BY <1>11 DEF RecordControlKeys
    <3>2. e = [b EXCEPT !.input = h]
      BY <1>1, <1>3, <1>4, <3>1 DEF ColState
    <3> HIDE DEF e, h
    <3> QED BY <1>1, <1>4, <3>2 DEF ColState
  <2> HIDE DEF e, f
  <2>4. h \in I /\ h.sequence = {} /\ h.text = c.input.text \cup {k} /\ h.control = f
    BY <1>3, <2>2
  <2> HIDE DEF h
  <2>5. \A x \in Buckets : c.input.control[x] \subseteq h.control[x]
    BY <2>2, <2>4
  <2> DEFINE H == {x \in Buckets : h.control[x] # {}}
  <2>6. H = HeldBuckets(c) \cup {bucket}
    BY <2>1, <2>2, <2>4 DEF HeldBuckets
  <2>7. Cardinality(H) <= MaxBuckets
    <3>1. IsFiniteSet(HeldBuckets(c))
      <4>1. HeldBuckets(c) \subseteq Buckets
        BY DEF HeldBuckets
      <4> QED BY <4>1, FS_Subset, CollectorAssumption
    <3>2. CASE c.input.control[bucket] # {}
      <4>1. H = HeldBuckets(c)
        BY <2>1, <2>6, <3>2 DEF HeldBuckets
      <4> QED BY <1>1, <4>1
    <3>3. CASE c.input.control[bucket] = {}
      <4>1. bucket \notin HeldBuckets(c)
        BY <3>3 DEF HeldBuckets
      <4>2. Cardinality(H) = Cardinality(HeldBuckets(c)) + 1
        BY <2>6, <3>1, <4>1, FS_AddElement
      <4>3. Cardinality(HeldBuckets(c)) \in Nat /\ MaxBuckets \in Nat
        BY <3>1, FS_CardinalityType, CollectorAssumption
      <4>4. ~(Cardinality(HeldBuckets(c)) >= MaxBuckets)
        BY <1>3, <1>8, <1>11, <3>3
      <4> QED BY <4>2, <4>3, <4>4
    <3> QED BY <3>2, <3>3
  <2> HIDE DEF I, H
  <2>8. Cardinality({x \in Buckets : h.control[x] # {}}) <= MaxBuckets
    BY <2>7 DEF H
  <2> QED BY <1>5, <1>7, <2>3, <2>4, <2>5, <2>8 DEF e, b
<1>12. \/ bucket = None
       \/ bucket # None /\ b.input.control[bucket] = {} /\ Cardinality(HeldBuckets(b)) >= MaxBuckets
       \/ bucket # None /\ ~(b.input.control[bucket] = {} /\ Cardinality(HeldBuckets(b)) >= MaxBuckets)
  OBVIOUS
<1> QED BY <1>9, <1>10, <1>11, <1>12 DEF b

(* What the whole callback guarantees. *)
Hears(c, o, k) ==
  /\ o.end \in {"done", "refused", "raised"} /\ Good(o.col, k)
  /\ o.col.state = c.state /\ o.col.session = c.session
  /\ o.col.in_callback = c.in_callback /\ o.col.end_queued = c.end_queued
  /\ o.col.published = c.published
  /\ o.end # "refused" => KeptBy(c) \subseteq KeptBy(o.col)
  /\ o.end = "done" /\ o.col.error = "none" => ModeLink(o.col)
  /\ o.end = "refused" => o.col.error = "limit"

(* An outcome of a step that leaves the right aggregate open is one of the  *)
(* callback ...                                                             *)
LEMMA HeardHears ==
  ASSUME NEW k, NEW c, NEW o, Heard(c, o, k), c.error = "none",
         o.end = "done" => ModeLink(o.col)
  PROVE  Hears(c, o, k)
<1>1. CASE o.end = "refused"
  BY <1>1 DEF Heard, Hears
<1>2. CASE o.end # "refused"
  BY <1>2 DEF Heard, Hears
<1> QED BY <1>1, <1>2

(* ... and a step before the callback's other steps is part of it. *)
LEMMA HearsInTurn ==
  ASSUME NEW k, NEW j, NEW c, NEW w, Heard(c, w, j), w.end = "done",
         NEW o, Hears(w.col, o, k)
  PROVE  Hears(c, o, k)
<1>1. /\ w.col.state = c.state /\ w.col.session = c.session
      /\ w.col.in_callback = c.in_callback /\ w.col.end_queued = c.end_queued
      /\ w.col.published = c.published /\ KeptBy(c) \subseteq KeptBy(w.col)
  BY DEF Heard
<1> QED BY <1>1 DEF Hears

(* Whatever is recorded of a key keeps the session in order up to that key. *)
LEMMA RecordPreserves ==
  ASSUME NEW k \in Nat, NEW c, Good(c, k), ~c.end_queued, c.error = "none", ModeLink(c),
         NEW mode \in Modes, c.last_mode = mode, NEW in \in Input, NEW o \in Record(c, mode, k, in)
  PROVE  Hears(c, o, k + 1)
<1>1. in.late \in BOOLEAN /\ in.resolved \in BOOLEAN /\ in.bucket \in Buckets \cup {None}
      /\ in.typed \in BOOLEAN
  BY DEF Input
<1>2. CASE in.typed /\ mode \in SequenceModes
  <2>1. PICK p \in Then(MayFail(c), LAMBDA d : RecordSequence(d, k, in.late)) :
               IF p.end = "done" THEN o \in RecordMappingUse(p.col, k, in.resolved) ELSE o = p
    BY <1>2 DEF Record, Then
  <2>2. PICK m \in MayFail(c) :
               IF m.end = "done" THEN p \in RecordSequence(m.col, k, in.late) ELSE p = m
    BY <2>1 DEF Then
  <2>3. /\ Preserves(c, m, k) /\ m.end \in {"done", "raised"} /\ (m.end = "done" => m.col = c)
    BY <2>2, MayFailPreserves
  <2>4. Heard(c, m, k + 1)
    BY <2>3, PreservesHeard, HeardLater
  <2>5. CASE m.end # "done"
    <3>1. o = m
      BY <2>1, <2>2, <2>5
    <3> QED BY <2>4, <2>5, <3>1, HeardHears
  <2>6. CASE m.end = "done"
    <3>1. p \in RecordSequence(c, k, in.late)
      BY <2>2, <2>3, <2>6
    <3>2. c.input.text = {}
      BY <1>2 DEF ModeLink, SequenceModes
    <3>3. /\ Heard(c, p, k + 1)
          /\ p.end = "done" => p.col.input.text = {} /\ p.col.last_mode = c.last_mode
      BY <1>1, <3>1, <3>2, RecordSequencePreserves
    <3>4. CASE p.end # "done"
      <4>1. o = p
        BY <2>1, <3>4
      <4> QED BY <3>3, <3>4, <4>1, HeardHears
    <3>5. CASE p.end = "done"
      <4>1. o \in RecordMappingUse(p.col, k, in.resolved)
        BY <2>1, <3>5
      <4>2. Good(p.col, k + 1) /\ ~p.col.end_queued /\ k + 1 \in Nat /\ p.col.error = "none"
        BY <3>3, <3>5 DEF Heard
      <4>3. /\ Heard(p.col, o, k + 1)
            /\ o.end = "done" => o.col.input = p.col.input /\ o.col.last_mode = p.col.last_mode
        BY <1>1, <4>1, <4>2, RecordMappingUsePreserves
      <4>4. o.end = "done" => ModeLink(o.col)
        BY <1>2, <3>3, <3>5, <4>3 DEF ModeLink
      <4>5. Hears(p.col, o, k + 1)
        BY <4>2, <4>3, <4>4, HeardHears
      <4> QED BY <3>3, <3>5, <4>5, HearsInTurn
    <3> QED BY <3>4, <3>5
  <2> QED BY <2>5, <2>6
<1>3. CASE ~(in.typed /\ mode \in SequenceModes) /\ in.typed /\ mode = "insert"
  <2>1. PICK m \in MayFail(c) :
               IF m.end = "done"
               THEN o = Done(RecordControlKeys(RecordTextKeys(m.col, k), k, in.bucket)) ELSE o = m
    BY <1>3 DEF Record, Then
  <2>2. /\ Preserves(c, m, k) /\ m.end \in {"done", "raised"} /\ (m.end = "done" => m.col = c)
    BY <2>1, MayFailPreserves
  <2>3. CASE m.end # "done"
    <3>1. Heard(c, m, k + 1)
      BY <2>2, PreservesHeard, HeardLater
    <3> QED BY <2>1, <2>3, <3>1, HeardHears
  <2>4. CASE m.end = "done"
    <3> DEFINE d == RecordControlKeys(RecordTextKeys(c, k), k, in.bucket)
    <3>1. o = Done(d)
      BY <2>1, <2>2, <2>4
    <3>2. c.input.sequence = {}
      BY <1>3 DEF ModeLink, SequenceModes
    <3>3. Takes(c, d, k)
      BY <1>1, <3>2, InsertKeyPreserves
    <3> HIDE DEF d
    <3>4. ModeLink(d)
      BY <1>3, <3>3 DEF Takes, ModeLink
    <3> QED BY <3>1, <3>3, <3>4 DEF Takes, Hears, Done
  <2> QED BY <2>3, <2>4
<1>4. CASE ~(in.typed /\ mode \in SequenceModes) /\ ~(in.typed /\ mode = "insert")
  <2>1. o = Done(c)
    BY <1>4 DEF Record
  <2>2. o.col = c /\ o.end = "done"
    BY <2>1 DEF Done
  <2>3. Good(c, k + 1)
    BY Later
  <2> QED BY <2>2, <2>3 DEF Hears
<1> QED BY <1>2, <1>3, <1>4

(* The callback: keys before k are held in order, k joins them. *)
LEMMA HandleKeyPreserves ==
  ASSUME NEW k \in Nat, NEW c, Good(c, k), ~c.end_queued, c.error = "none", ModeLink(c),
         NEW in \in Input, NEW o \in HandleKey(c, k, in)
  PROVE  Hears(c, o, k + 1)
<1>1. in.mode \in Modes
  BY DEF Input
<1>2. CASE in.excluded
  <2>1. PICK m \in MayFail(c) : IF m.end = "done" THEN o \in FlushInput(Leave(m.col)) ELSE o = m
    BY <1>2 DEF HandleKey, Then
  <2>2. Preserves(c, m, k) /\ m.end \in {"done", "raised"} /\ (m.end = "done" => m.col = c)
    BY <2>1, MayFailPreserves
  <2>3. CASE m.end # "done"
    <3>1. Heard(c, m, k + 1)
      BY <2>2, PreservesHeard, HeardLater
    <3> QED BY <2>1, <2>3, <3>1, HeardHears
  <2>4. CASE m.end = "done"
    <3> DEFINE b == Leave(c)
    <3>1. o \in FlushInput(b)
      BY <2>1, <2>2, <2>4
    <3>2. Good(b, k) /\ Heard(c, Done(b), k)
      BY ModeSet DEF Leave
    <3> HIDE DEF b
    <3>3. /\ Preserves(b, o, k)
          /\ o.end = "done" => o.col.input.sequence = {} /\ o.col.input.text = {}
      BY <3>1, <3>2, FlushInputPreserves
    <3>4. o.end = "done" => ModeLink(o.col)
      BY <3>3 DEF ModeLink
    <3> DEFINE w == Done(b)
    <3>5. Heard(c, w, k) /\ w.end = "done" /\ w.col = b
      BY <3>2 DEF Done
    <3> HIDE DEF w
    <3>6. Heard(b, o, k) /\ ~b.end_queued /\ b.error = "none"
      BY <3>3, <3>5, PreservesHeard DEF Heard
    <3>7. Heard(b, o, k + 1)
      BY <3>6, HeardLater
    <3>8. Hears(b, o, k + 1)
      BY <3>4, <3>6, <3>7, HeardHears
    <3>9. Hears(w.col, o, k + 1)
      BY <3>5, <3>8
    <3> QED BY <3>5, <3>9, HearsInTurn
  <2> QED BY <2>3, <2>4
<1>3. CASE ~in.excluded
  <2>1. PICK e \in Then(MayFail(c), LAMBDA d : EnterMode(d, in.mode)) :
               IF e.end = "done" THEN o \in Record(e.col, in.mode, k, in) ELSE o = e
    BY <1>3 DEF HandleKey, Then
  <2>2. PICK m \in MayFail(c) : IF m.end = "done" THEN e \in EnterMode(m.col, in.mode) ELSE e = m
    BY <2>1 DEF Then
  <2>3. Preserves(c, m, k) /\ m.end \in {"done", "raised"} /\ (m.end = "done" => m.col = c)
    BY <2>2, MayFailPreserves
  <2>4. CASE m.end # "done"
    <3>1. Heard(c, m, k + 1)
      BY <2>3, PreservesHeard, HeardLater
    <3>2. o = m
      BY <2>1, <2>2, <2>4
    <3> QED BY <2>4, <3>1, <3>2, HeardHears
  <2>5. CASE m.end = "done"
    <3>1. e \in EnterMode(c, in.mode)
      BY <2>2, <2>3, <2>5
    <3>2. Heard(c, e, k) /\ (e.end = "done" => ModeLink(e.col) /\ e.col.last_mode = in.mode)
      BY <1>1, <3>1, EnterModePreserves
    <3>3. CASE e.end # "done"
      <4>1. Heard(c, e, k + 1)
        BY <3>2, HeardLater
      <4>2. o = e
        BY <2>1, <3>3
      <4> QED BY <3>3, <4>1, <4>2, HeardHears
    <3>4. CASE e.end = "done"
      <4> DEFINE d == e.col
      <4>1. Good(d, k) /\ ~d.end_queued /\ d.error = "none" /\ ModeLink(d) /\ d.last_mode = in.mode
        BY <3>2, <3>4 DEF Heard
      <4>2. o \in Record(d, in.mode, k, in)
        BY <2>1, <3>4
      <4> HIDE DEF d
      <4>3. Hears(d, o, k + 1)
        BY <1>1, <4>1, <4>2, RecordPreserves
      <4>4. Hears(e.col, o, k + 1)
        BY <4>3 DEF d
      <4> QED BY <3>2, <3>4, <4>4, HearsInTurn
    <3> QED BY <3>3, <3>4
  <2> QED BY <2>4, <2>5
<1> QED BY <1>2, <1>3

-----------------------------------------------------------------------------
(* Steps of an open session *)

(* A change of neither the log nor the input. *)
LEMMA Touched ==
  ASSUME NEW k \in Nat, NEW c, Good(c, k), NEW d \in ColState, SameLog(c, d), d.input = c.input
  PROVE  Good(d, k) /\ KeptBy(d) = KeptBy(c)
<1>1. Shrinks(c, d)
  BY DEF Shrinks, HeldBuckets
<1>2. Good(d, k)
  BY <1>1, Dropped
<1>3. Trail(d) = Trail(c)
  BY SameTrail
<1> QED BY <1>2, <1>3 DEF KeptBy, InMemory

(* What the trail leaves out of the queue is in the file. *)
LEMMA KeptIs ==
  ASSUME NEW c \in ColState, BatchIsBegun(c)
  PROVE  KeptBy(c) = InMemory(c) \cup Marks(c.pending) \cup Marks(c.file)
<1> DEFINE t == Trail(c)
<1> DEFINE p == c.pending
<1> DEFINE f == c.file
<1>1. /\ p \in Seq(Event(Ids)) /\ f \in Seq(Event(Ids)) /\ c.consumed \in Nat
      /\ t \in Seq(Event(Ids)) /\ Len(t) \in Nat
      /\ c.consumed <= Len(p) /\ Len(p) \in Nat /\ Len(f) \in Nat
      /\ Len(t) = Len(f) + Len(p) - c.consumed
  BY ColFields, TrailType
<1>2. /\ \A i \in 1..Len(f) : t[i] = f[i]
      /\ \A i \in 1..Len(p) - c.consumed : t[Len(f) + i] = p[c.consumed + i]
  BY <1>1, TrailParts
<1>3. \A i \in 1..c.consumed : \E j \in 1..Len(f) : f[j] = p[i]
  BY DEF BatchIsBegun
<1>4. DOMAIN p = 1..Len(p) /\ DOMAIN f = 1..Len(f) /\ DOMAIN t = 1..Len(t)
  <2> HIDE DEF p, f, t
  <2> QED BY <1>1, LenProperties
<1> DEFINE m == c.consumed
<1>5. m \in Nat /\ m <= Len(p) /\ Len(t) = Len(f) + Len(p) - m
  BY <1>1
<1> HIDE DEF p, f, t
<1>6. ASSUME NEW i \in 1..Len(t)
      PROVE  t[i] \in ToSet(p) \cup ToSet(f)
  <2>1. CASE i <= Len(f)
    <3>1. i \in 1..Len(f)
      BY <1>1, <2>1
    <3> QED BY <1>2, <1>4, <3>1 DEF ToSet
  <2>2. CASE i > Len(f)
    <3>1. /\ i - Len(f) \in 1..Len(p) - m /\ Len(f) + (i - Len(f)) = i
          /\ m + (i - Len(f)) \in 1..Len(p)
      BY <1>1, <1>5, <2>2
    <3>2. t[Len(f) + (i - Len(f))] = p[m + (i - Len(f))]
      BY <1>2, <3>1
    <3> QED BY <1>4, <3>1, <3>2 DEF ToSet
  <2> QED BY <1>1, <2>1, <2>2
<1>7. ASSUME NEW i \in 1..Len(f)
      PROVE  f[i] \in ToSet(t)
  <2>1. i \in 1..Len(t) /\ t[i] = f[i]
    BY <1>1, <1>2, <1>5
  <2> QED BY <1>4, <2>1 DEF ToSet
<1>8. ASSUME NEW i \in 1..Len(p)
      PROVE  p[i] \in ToSet(t)
  <2>1. CASE i <= m
    <3>1. i \in 1..m
      BY <1>5, <2>1
    <3>2. PICK j \in 1..Len(f) : f[j] = p[i]
      BY <1>3, <3>1
    <3> QED BY <1>7, <3>2
  <2>2. CASE i > m
    <3>1. i - m \in 1..Len(p) - m /\ m + (i - m) = i /\ Len(f) + (i - m) \in 1..Len(t)
      BY <1>1, <1>5, <2>2
    <3>2. t[Len(f) + (i - m)] = p[m + (i - m)]
      BY <1>2, <3>1
    <3> QED BY <1>4, <3>1, <3>2 DEF ToSet
  <2> QED BY <1>5, <2>1, <2>2
<1>9. ToSet(t) = ToSet(p) \cup ToSet(f)
  <2>1. ToSet(t) \subseteq ToSet(p) \cup ToSet(f)
    BY <1>4, <1>6 DEF ToSet
  <2>2. ToSet(p) \subseteq ToSet(t)
    BY <1>4, <1>8 DEF ToSet
  <2>3. ToSet(f) \subseteq ToSet(t)
    BY <1>4, <1>7 DEF ToSet
  <2> QED BY <2>1, <2>2, <2>3
<1>10. Marks(t) = Marks(p) \cup Marks(f)
  BY <1>9 DEF Marks
<1> QED BY <1>10 DEF KeptBy, t, p, f

(* A step within the open session keeps the invariant ... *)
LEMMA OpenStep ==
  ASSUME IInv, Counters', logs' = logs, next_session' = next_session,
         col.state # "stopped", col'.state # "stopped", ~col'.in_callback,
         Good(col', pressed' + 1), col'.session = col.session, col'.published = col.published,
         col'.state = "recording" /\ col'.error = "none" => ModeLink(col'),
         col'.end_queued => col'.state = "stopping",
         col.published => col'.end_queued /\ col'.pending = <<>> /\ col'.file = col.file
  PROVE  IInv'
<1>1. col' \in ColState
  BY DEF Good, Sound
<1>2. LogsAreComplete'
  BY DEF IInv, LogsAreComplete, Complete
<1>3. col'.session \in 1..next_session' - 1
  BY DEF IInv
<1>4. col'.published =>
        /\ col'.end_queued /\ col'.pending = <<>>
        /\ Len(logs') >= 1 /\ logs'[Len(logs')] = col'.file
  BY DEF IInv
<1> QED BY <1>1, <1>2, <1>3, <1>4 DEF IInv

(* ... and what it keeps in memory or in the trail is kept. *)
LEMMA KeptStep ==
  ASSUME NEW k, NEW j, Good(col, k), Good(col', j), KeptBy(col) \subseteq KeptBy(col'),
         logs' = logs
  PROVE  Kept \subseteq Kept'
<1>1. KeptBy(col) = InMemory(col) \cup Marks(col.pending) \cup Marks(col.file)
  BY KeptIs DEF Good, Sound
<1>2. KeptBy(col') = InMemory(col') \cup Marks(col'.pending) \cup Marks(col'.file)
  BY KeptIs DEF Good, Sound
<1> QED BY <1>1, <1>2 DEF Kept

Safe == IInv' /\ (Kept \subseteq Kept' \/ col'.error = "limit")

(* A key callback, whatever it raises. *)
LEMMA OnKeySafe ==
  ASSUME IInv, OnKey
  PROVE  Safe
<1> DEFINE c == [col EXCEPT !.in_callback = TRUE]
<1> DEFINE k == pressed + 1
<1>1. col \in ColState /\ ~col.in_callback /\ Good(col, k) /\ ModeLink(col) /\ pressed \in Nat
      /\ col.state = "recording" /\ col.error = "none" /\ ~col.end_queued /\ ~col.published
  BY DEF OnKey, IInv, Counters
<1>2. PICK in \in Input : \E p \in HandleKey(c, pressed', in) :
        col' = [p.col EXCEPT !.in_callback = FALSE,
                             !.error = IF p.end = "raised" THEN "callback" ELSE @]
  BY DEF OnKey
<1>3. pressed' = k /\ k \in Nat /\ pressed' \in 0..MaxKeys
  BY <1>1, CollectorAssumption DEF OnKey
<1>4. PICK o \in HandleKey(c, k, in) :
        col' = [o.col EXCEPT !.in_callback = FALSE,
                             !.error = IF o.end = "raised" THEN "callback" ELSE @]
  BY <1>2, <1>3
<1>5. /\ c \in ColState /\ SameLog(col, c) /\ c.input = col.input /\ c.last_mode = col.last_mode
      /\ c.state = col.state /\ c.session = col.session /\ c.error = col.error
      /\ c.end_queued = col.end_queued /\ c.published = col.published
  BY <1>1 DEF ColState, SameLog
<1> HIDE DEF c, k
<1>6. Good(c, k) /\ KeptBy(c) = KeptBy(col)
  BY <1>1, <1>3, <1>5, Touched
<1>7. Hears(c, o, k + 1)
  <2>1. ModeLink(c) /\ ~c.end_queued /\ c.error = "none"
    BY <1>1, <1>5 DEF ModeLink
  <2> QED BY <1>3, <1>4, <1>6, <2>1, HandleKeyPreserves
<1> DEFINE b == o.col
<1>8. b \in ColState /\ Good(b, k + 1) /\ k + 1 \in Nat
  BY <1>3, <1>7 DEF Hears, Good, Sound
<1> DEFINE error == IF o.end = "raised" THEN "callback" ELSE b.error
<1>9. col' = [b EXCEPT !.in_callback = FALSE, !.error = error]
  BY <1>4
<1>10. error \in Errors
  <2>1. b.error \in Errors
    BY <1>8, ColFields
  <2> QED BY <2>1 DEF Errors
<1> HIDE DEF b, error
<1>11. /\ col' \in ColState /\ ~col'.in_callback /\ SameLog(b, col') /\ col'.input = b.input
       /\ col'.state = b.state /\ col'.error = error /\ col'.session = b.session
       /\ col'.last_mode = b.last_mode /\ col'.end_queued = b.end_queued
       /\ col'.published = b.published
  BY <1>8, <1>9, <1>10 DEF ColState, SameLog
<1>12. Good(col', k + 1) /\ KeptBy(col') = KeptBy(b)
  BY <1>8, <1>11, Touched
<1>13. /\ b.state = col.state /\ b.session = col.session /\ b.published = col.published
       /\ b.end_queued = col.end_queued
       /\ o.end # "refused" => KeptBy(col) \subseteq KeptBy(b)
       /\ o.end = "done" /\ b.error = "none" => ModeLink(b)
       /\ o.end = "refused" => b.error = "limit"
       /\ o.end \in {"done", "refused", "raised"}
  BY <1>5, <1>6, <1>7 DEF Hears, b
<1>14. IInv'
  <2>1. Counters'
    BY <1>3 DEF IInv, Counters, OnKey
  <2>2. col'.state = "recording" /\ col'.error = "none" => ModeLink(col')
    <3>1. HAVE col'.state = "recording" /\ col'.error = "none"
    <3>2. o.end = "done" /\ b.error = "none"
      BY <1>11, <1>13, <3>1 DEF error
    <3> QED BY <1>11, <1>13, <3>2 DEF ModeLink
  <2>3. logs' = logs /\ next_session' = next_session
    BY DEF OnKey
  <2>4. Good(col', pressed' + 1)
    BY <1>3, <1>12
  <2>5. ~col'.end_queued /\ col'.state # "stopped" /\ col.state # "stopped"
    BY <1>1, <1>11, <1>13
  <2>6. col'.session = col.session /\ col'.published = col.published /\ ~col'.in_callback
    BY <1>11, <1>13
  <2> QED BY <1>1, <2>1, <2>2, <2>3, <2>4, <2>5, <2>6, OpenStep
<1>15. Kept \subseteq Kept' \/ col'.error = "limit"
  <2>1. CASE o.end # "refused"
    <3>1. logs' = logs
      BY DEF OnKey
    <3> QED BY <1>1, <1>12, <1>13, <2>1, <3>1, KeptStep
  <2>2. CASE o.end = "refused"
    BY <1>11, <1>13, <2>2 DEF error
  <2> QED BY <2>1, <2>2
<1> QED BY <1>14, <1>15 DEF Safe

(* A step that leaves no session open ... *)
LEMMA ClosedStep ==
  ASSUME IInv, Counters', logs' = logs, next_session' \in {next_session, next_session + 1},
         col'.state = "stopped", Blank(col'), ~col'.in_callback
  PROVE  IInv'
<1>1. col' \in ColState /\ ~col'.end_queued /\ ~col'.published
  BY DEF Blank
<1>2. LogsAreComplete'
  <2>1. ASSUME NEW i \in 1..Len(logs)
        PROVE  Complete(logs[i]) /\ logs[i][1].session < next_session'
    <3>1. Complete(logs[i]) /\ logs[i][1].session < next_session
      BY DEF IInv, LogsAreComplete
    <3>2. next_session \in Nat
      BY CollectorAssumption DEF IInv, Counters
    <3>3. logs[i][1].session \in Nat
      <4>1. logs[i] \in Seq(Event(Ids))
        BY ElementOfSeq DEF IInv, Counters
      <4>2. 1 \in 1..Len(logs[i])
        BY <3>1, <4>1, LenProperties DEF Complete
      <4>3. logs[i][1] \in Event(Ids)
        BY <4>1, <4>2, ElementOfSeq
      <4> QED BY <4>3, CollectorAssumption DEF Event, Ids
    <3> QED BY <3>1, <3>2, <3>3
  <2>2. \A i, j \in 1..Len(logs) : i # j => logs[i][1].session # logs[j][1].session
    BY DEF IInv, LogsAreComplete
  <2> QED BY <2>1, <2>2 DEF LogsAreComplete, Complete
<1> QED BY <1>1, <1>2 DEF IInv

(* ... and one from which there was none open. *)
LEMMA BlankKept ==
  ASSUME Blank(col), logs' = logs
  PROVE  Kept \subseteq Kept'
<1>1. Marks(<<>>) = {}
  BY DEF Marks, ToSet
<1>2. InMemory(col) = {}
  BY DEF Blank, InMemory, NoInput, Range
<1> QED BY <1>1, <1>2 DEF Kept, Blank

(* A deferred write, of this session or of one before it. *)
LEMMA RunDeferredSafe ==
  ASSUME IInv, NEW epoch, RunDeferred(epoch)
  PROVE  Safe
<1> DEFINE k == pressed + 1
<1> DEFINE c == [col EXCEPT !.deferred = @ \ {epoch}]
<1> DEFINE d == [c EXCEPT !.scheduled = FALSE]
<1>1. col \in ColState /\ ~col.in_callback /\ k \in Nat
  BY CollectorAssumption DEF IInv, Counters
<1>2. /\ c \in ColState /\ SameLog(col, c) /\ c.input = col.input /\ c.last_mode = col.last_mode
      /\ c.state = col.state /\ c.session = col.session /\ c.error = col.error
      /\ c.end_queued = col.end_queued /\ c.published = col.published
      /\ c.in_callback = col.in_callback /\ c.scheduled = col.scheduled
  BY <1>1 DEF ColState, SameLog
<1>3. /\ d \in ColState /\ SameLog(col, d) /\ d.input = col.input /\ d.last_mode = col.last_mode
      /\ d.state = col.state /\ d.session = col.session /\ d.error = col.error
      /\ d.end_queued = col.end_queued /\ d.published = col.published
      /\ d.in_callback = col.in_callback /\ ~d.scheduled
  BY <1>1 DEF ColState, SameLog
<1>4. \/ col' = c
      \/ col' = d
      \/ /\ col.state = "recording" /\ col.error = "none"
         /\ \E o \in WritePending(d) :
              col' = [o.col EXCEPT !.error = IF o.end = "raised" THEN "write" ELSE @]
  <2>1. IF epoch # c.epoch THEN col' = c
        ELSE IF c.state # "recording" \/ c.error # "none" THEN col' = d
        ELSE \E o \in WritePending(d) :
               col' = [o.col EXCEPT !.error = IF o.end = "raised" THEN "write" ELSE @]
    BY DEF RunDeferred
  <2> HIDE DEF c, d
  <2> QED BY <1>2, <2>1
<1> HIDE DEF c, d, k
<1>5. Counters' /\ logs' = logs /\ next_session' = next_session /\ pressed' = pressed
  BY DEF IInv, Counters, RunDeferred
<1>6. ASSUME NEW b \in ColState, col' = b, SameLog(col, b), b.input = col.input,
             b.last_mode = col.last_mode, b.state = col.state, b.session = col.session,
             b.error = col.error, b.published = col.published, b.in_callback = col.in_callback,
             col.scheduled \/ ~b.scheduled
      PROVE  Safe
  <2>1. CASE col.state = "stopped"
    <3>1. Blank(col)
      BY <2>1 DEF IInv
    <3>2. Blank(col')
      BY <1>6, <3>1 DEF Blank, SameLog
    <3>3. IInv'
      BY <1>1, <1>5, <1>6, <2>1, <3>2, ClosedStep
    <3> QED BY <1>5, <3>1, <3>3, BlankKept DEF Safe
  <2>2. CASE col.state # "stopped"
    <3>1. Good(col, k)
      BY <2>2 DEF IInv, k
    <3>2. Good(col', k) /\ KeptBy(col') = KeptBy(col)
      BY <1>1, <1>6, <3>1, Touched
    <3>3. Good(col', pressed' + 1)
      BY <1>5, <3>2 DEF k
    <3>4. col'.state = "recording" /\ col'.error = "none" => ModeLink(col')
      BY <1>6 DEF IInv, ModeLink
    <3>5. col'.end_queued => col'.state = "stopping"
      BY <1>6 DEF IInv, SameLog
    <3>6. col.published => col'.end_queued /\ col'.pending = <<>> /\ col'.file = col.file
      BY <1>6 DEF IInv, SameLog
    <3>7. col'.state # "stopped" /\ ~col'.in_callback
      BY <1>1, <1>6, <2>2
    <3>8. col'.session = col.session /\ col'.published = col.published
      BY <1>6
    <3>9. IInv'
      BY <1>5, <2>2, <3>3, <3>4, <3>5, <3>6, <3>7, <3>8, OpenStep
    <3>10. Kept \subseteq Kept'
      BY <1>5, <3>1, <3>2, KeptStep
    <3> QED BY <3>9, <3>10 DEF Safe
  <2> QED BY <2>1, <2>2
<1>7. CASE col' = c
  <2>1. col.scheduled \/ ~c.scheduled
    BY <1>1, <1>2, ColFields
  <2> QED BY <1>2, <1>6, <1>7, <2>1
<1>8. CASE col' = d
  BY <1>3, <1>6, <1>8
<1>9. ASSUME col.state = "recording", col.error = "none", NEW o \in WritePending(d),
             col' = [o.col EXCEPT !.error = IF o.end = "raised" THEN "write" ELSE @]
      PROVE  Safe
  <2>1. Good(col, k) /\ ModeLink(col) /\ ~col.end_queued /\ ~col.published
    BY <1>9 DEF IInv, k
  <2>2. Good(d, k) /\ KeptBy(d) = KeptBy(col)
    BY <1>1, <1>3, <2>1, Touched
  <2> DEFINE b == o.col
  <2>3. Preserves(d, o, k) /\ o.end \in {"done", "raised"} /\ b.input = d.input
    BY <1>1, <1>9, <2>2, WritePendingPreserves
  <2> DEFINE error == IF o.end = "raised" THEN "write" ELSE b.error
  <2>4. b \in ColState /\ Good(b, k)
    BY <2>3 DEF Preserves, Good, Sound
  <2>5. error \in Errors
    <3>1. b.error \in Errors
      BY <2>4, ColFields
    <3> QED BY <3>1 DEF Errors
  <2>6. col' = [b EXCEPT !.error = error]
    BY <1>9
  <2>7. b.error = d.error /\ Frame(d, b) /\ KeptBy(d) \subseteq KeptBy(b)
    BY <2>3 DEF Preserves
  <2> HIDE DEF b, error
  <2>8. /\ col' \in ColState /\ SameLog(b, col') /\ col'.input = b.input /\ col'.state = b.state
        /\ col'.error = error /\ col'.session = b.session /\ col'.last_mode = b.last_mode
        /\ col'.end_queued = b.end_queued /\ col'.published = b.published
        /\ col'.in_callback = b.in_callback
    BY <2>4, <2>5, <2>6 DEF ColState, SameLog
  <2>9. Good(col', k) /\ KeptBy(col') = KeptBy(b)
    BY <1>1, <2>4, <2>8, Touched
  <2>10. Good(col', pressed' + 1)
    BY <1>5, <2>9 DEF k
  <2>11. ModeLink(col')
    BY <1>3, <2>1, <2>3, <2>7, <2>8 DEF ModeLink, Frame, b
  <2>12. /\ ~col'.end_queued /\ col'.published = col.published /\ col'.session = col.session
         /\ col'.state # "stopped" /\ col.state # "stopped" /\ ~col'.in_callback
    BY <1>1, <1>3, <1>9, <2>1, <2>7, <2>8 DEF Frame
  <2>13. IInv'
    BY <1>5, <2>1, <2>10, <2>11, <2>12, OpenStep
  <2>14. KeptBy(col) \subseteq KeptBy(col')
    BY <2>2, <2>7, <2>9
  <2>15. Kept \subseteq Kept'
    BY <1>5, <2>1, <2>9, <2>14, KeptStep
  <2> QED BY <2>13, <2>15 DEF Safe
<1> QED BY <1>4, <1>7, <1>8, <1>9

(* A command that leaves the session open, with what c has got. *)
LEMMA CommandStep ==
  ASSUME IInv, Counters', logs' = logs, next_session' = next_session, pressed' = pressed,
         col.state # "stopped", NEW c, Good(c, pressed + 1), KeptBy(col) \subseteq KeptBy(c),
         col' \in ColState, SameLog(c, col'), col'.input = c.input,
         col'.state # "stopped", ~col'.in_callback,
         col'.session = col.session, col'.published = col.published,
         col'.state = "recording" /\ col'.error = "none" => ModeLink(col'),
         col'.end_queued => col'.state = "stopping",
         col.published => col'.end_queued /\ col'.pending = <<>> /\ col'.file = col.file
  PROVE  Safe
<1> DEFINE k == pressed + 1
<1>1. k \in Nat /\ Good(c, k)
  BY CollectorAssumption DEF IInv, Counters
<1>2. Good(col, k)
  BY DEF IInv
<1> HIDE DEF k
<1>3. Good(col', k) /\ KeptBy(col') = KeptBy(c)
  BY <1>1, Touched
<1>4. Good(col', pressed' + 1)
  BY <1>3 DEF k
<1>5. IInv'
  BY <1>4, OpenStep
<1>6. Kept \subseteq Kept'
  BY <1>2, <1>3, KeptStep
<1> QED BY <1>5, <1>6 DEF Safe

(* A command is one more call. *)
LEMMA CallCounts ==
  ASSUME IInv, Call, pressed' = pressed, logs' = logs, next_session' = next_session
  PROVE  Counters'
<1>1. calls \in 0..MaxCalls /\ calls < MaxCalls /\ calls' = calls + 1 /\ MaxCalls \in Nat
  BY CollectorAssumption DEF IInv, Counters, Call
<1>2. calls' \in 0..MaxCalls
  BY <1>1
<1> QED BY <1>2 DEF IInv, Counters

(* The public flush, a pause and a resumption. *)
LEMMA FlushSafe ==
  ASSUME IInv, Flush
  PROVE  Safe
<1> DEFINE k == pressed + 1
<1>1. /\ col \in ColState /\ ~col.in_callback /\ k \in Nat /\ Good(col, k)
      /\ col.state # "stopped"
  BY CollectorAssumption DEF IInv, Counters, Flush
<1>2. PICK o \in FlushAll(col) : col' = o.col
  BY DEF Flush
<1>3. Counters' /\ logs' = logs /\ next_session' = next_session /\ pressed' = pressed
  BY CallCounts DEF Flush
<1>4. /\ Preserves(col, o, k) /\ o.end \in {"done", "raised"}
      /\ col.pending = <<>> /\ col.input = NoInput /\ col.published => o = Done(col)
  BY <1>1, <1>2, FlushAllPreserves
<1> DEFINE c == o.col
<1>5. /\ Good(c, k) /\ Frame(col, c) /\ Shrinks(col, c) /\ c.error = col.error
      /\ KeptBy(col) \subseteq KeptBy(c) /\ c \in ColState
  BY <1>4 DEF Preserves, Good, Sound
<1>6. col.published => c = col
  <2>1. HAVE col.published
  <2>2. col.end_queued /\ col.pending = <<>>
    BY <2>1 DEF IInv
  <2>3. col.input = NoInput
    BY <1>1, <2>2 DEF Good, OneSession
  <2> QED BY <1>4, <2>1, <2>2, <2>3 DEF Done
<1>7. col' = c
  BY <1>2
<1>8. Good(c, pressed + 1)
  BY <1>5
<1> HIDE DEF c, k
<1>9. c.state = "recording" /\ c.error = "none" => ModeLink(c)
  <2>1. HAVE c.state = "recording" /\ c.error = "none"
  <2>2. ModeLink(col)
    BY <1>5, <2>1 DEF Frame, IInv
  <2> QED BY <1>5, <2>2 DEF ModeLink, Frame, Shrinks
<1>10. c.end_queued => c.state = "stopping"
  BY <1>5 DEF IInv, Frame
<1>11. col.published => c.end_queued /\ c.pending = <<>> /\ c.file = col.file
  BY <1>6 DEF IInv
<1>12. /\ c.state # "stopped" /\ ~c.in_callback /\ c.session = col.session
       /\ c.published = col.published
  BY <1>1, <1>5 DEF Frame
<1>13. SameLog(c, col') /\ col'.input = c.input /\ col' \in ColState
  BY <1>5, <1>7 DEF SameLog
<1>14. /\ col'.state # "stopped" /\ ~col'.in_callback /\ col'.session = col.session
       /\ col'.published = col.published
       /\ col'.state = "recording" /\ col'.error = "none" => ModeLink(col')
       /\ col'.end_queued => col'.state = "stopping"
       /\ col.published => col'.end_queued /\ col'.pending = <<>> /\ col'.file = col.file
  BY <1>7, <1>9, <1>10, <1>11, <1>12
<1> QED BY <1>1, <1>3, <1>5, <1>8, <1>13, <1>14, CommandStep

LEMMA PauseSafe ==
  ASSUME IInv, Pause
  PROVE  Safe
<1> DEFINE k == pressed + 1
<1> DEFINE b == [col EXCEPT !.state = "paused"]
<1>1. /\ col \in ColState /\ ~col.in_callback /\ k \in Nat /\ Good(col, k)
      /\ col.state = "recording" /\ ~col.end_queued /\ ~col.published
  BY CollectorAssumption DEF IInv, Counters, Pause
<1>2. PICK o \in FlushAll(b) : col' = IF o.end = "raised" THEN [o.col EXCEPT !.error = "raised"]
                                      ELSE Leave(o.col)
  BY DEF Pause, Ends
<1>3. Counters' /\ logs' = logs /\ next_session' = next_session /\ pressed' = pressed
  BY CallCounts DEF Pause
<1>4. /\ b \in ColState /\ SameLog(col, b) /\ b.input = col.input /\ b.state = "paused"
      /\ b.session = col.session /\ b.published = col.published /\ ~b.in_callback /\ ~b.end_queued
  BY <1>1 DEF ColState, SameLog
<1> HIDE DEF b
<1>5. Good(b, k) /\ KeptBy(b) = KeptBy(col)
  BY <1>1, <1>4, Touched
<1>6. Preserves(b, o, k) /\ o.end \in {"done", "raised"}
  BY <1>1, <1>2, <1>4, <1>5, FlushAllPreserves
<1> DEFINE c == o.col
<1>7. /\ Good(c, k) /\ c \in ColState /\ KeptBy(col) \subseteq KeptBy(c) /\ c.state = "paused"
      /\ c.session = col.session /\ c.published = col.published /\ ~c.in_callback /\ ~c.end_queued
  BY <1>4, <1>5, <1>6 DEF Preserves, Good, Sound, Frame
<1>8. col' = [c EXCEPT !.error = "raised"] \/ col' = [c EXCEPT !.last_mode = None]
  BY <1>2 DEF Leave
<1>9. Good(c, pressed + 1)
  BY <1>7
<1> HIDE DEF c, k
<1>10. /\ col' \in ColState /\ SameLog(c, col') /\ col'.input = c.input /\ col'.state = "paused"
       /\ col'.session = col.session /\ col'.published = col.published /\ ~col'.in_callback
       /\ ~col'.end_queued
  <2>1. "raised" \in Errors
    BY DEF Errors
  <2>2. CASE col' = [c EXCEPT !.error = "raised"]
    BY <1>7, <2>1, <2>2 DEF ColState, SameLog
  <2>3. CASE col' = [c EXCEPT !.last_mode = None]
    BY <1>7, <2>3 DEF ColState, SameLog
  <2> QED BY <1>8, <2>2, <2>3
<1>11. /\ col.state # "stopped" /\ col'.state # "stopped" /\ col'.state # "recording"
       /\ col'.published = col.published
  BY <1>1, <1>10
<1> QED BY <1>1, <1>3, <1>7, <1>9, <1>10, <1>11, CommandStep

LEMMA ResumeSafe ==
  ASSUME IInv, Resume
  PROVE  Safe
<1> DEFINE k == pressed + 1
<1>1. /\ col \in ColState /\ ~col.in_callback /\ k \in Nat /\ Good(col, k)
      /\ col.state = "paused" /\ ~col.end_queued /\ ~col.published
  BY CollectorAssumption DEF IInv, Counters, Resume
<1>2. PICK p \in Then(FlushAll(col), MayFail) :
        col' = IF p.end = "raised" THEN [p.col EXCEPT !.error = "raised"]
               ELSE Recording(Leave(p.col))
  BY DEF Resume, Ends
<1>3. PICK o \in FlushAll(col) : IF o.end = "done" THEN p \in MayFail(o.col) ELSE p = o
  BY <1>2 DEF Then
<1>4. Counters' /\ logs' = logs /\ next_session' = next_session /\ pressed' = pressed
  BY CallCounts DEF Resume
<1>5. /\ Preserves(col, o, k) /\ o.end \in {"done", "raised"}
      /\ o.end = "done" => o.col.input = NoInput
  BY <1>1, <1>3, FlushAllPreserves
<1>6. Preserves(col, p, k) /\ p.end \in {"done", "raised"} /\ (p.end = "done" => p.col.input = NoInput)
  <2>1. CASE o.end = "raised"
    BY <1>3, <1>5, <2>1
  <2>2. CASE o.end = "done"
    <3>1. Good(o.col, k) /\ p \in MayFail(o.col)
      BY <1>3, <1>5, <2>2 DEF Preserves
    <3>2. /\ Preserves(o.col, p, k) /\ p.end \in {"done", "raised"}
          /\ p.col.input = o.col.input
      BY <1>1, <3>1, MayFailPreserves
    <3>3. Preserves(col, p, k)
      BY <1>5, <2>2, <3>2, PreservesInTurn
    <3> QED BY <1>5, <2>2, <3>2, <3>3
  <2> QED BY <1>5, <2>1, <2>2
<1> DEFINE c == p.col
<1>7. /\ Good(c, k) /\ c \in ColState /\ KeptBy(col) \subseteq KeptBy(c) /\ c.state = "paused"
      /\ c.session = col.session /\ c.published = col.published /\ ~c.in_callback /\ ~c.end_queued
  BY <1>1, <1>6 DEF Preserves, Good, Sound, Frame
<1>8. \/ col' = [c EXCEPT !.error = "raised"]
      \/ /\ c.input = NoInput
         /\ col' = [[c EXCEPT !.last_mode = None] EXCEPT !.state = "recording", !.error = "none"]
  BY <1>2, <1>6 DEF Leave, Recording
<1>9. Good(c, pressed + 1)
  BY <1>7
<1> HIDE DEF c, k
<1>10. /\ col' \in ColState /\ SameLog(c, col') /\ col'.input = c.input
       /\ col'.state \in {"paused", "recording"}
       /\ col'.state = "recording" => c.input = NoInput
       /\ col'.session = col.session /\ col'.published = col.published /\ ~col'.in_callback
       /\ ~col'.end_queued
  <2>1. "raised" \in Errors /\ "none" \in Errors
    BY DEF Errors
  <2>2. CASE col' = [c EXCEPT !.error = "raised"]
    BY <1>7, <2>1, <2>2 DEF ColState, SameLog
  <2>3. CASE /\ c.input = NoInput
             /\ col' = [[c EXCEPT !.last_mode = None] EXCEPT !.state = "recording", !.error = "none"]
    BY <1>7, <2>1, <2>3 DEF ColState, SameLog
  <2> QED BY <1>8, <2>2, <2>3
<1>11. col'.state = "recording" => ModeLink(col')
  BY <1>10 DEF ModeLink, NoInput
<1>12. col.state # "stopped" /\ col'.state # "stopped"
  BY <1>1, <1>10
<1> QED BY <1>1, <1>4, <1>7, <1>9, <1>10, <1>11, <1>12, CommandStep

(* The logs published so far. *)
LEMMA LogSessions ==
  ASSUME IInv, NEW i \in 1..Len(logs)
  PROVE  /\ logs[i] \in Seq(Event(Ids)) /\ Complete(logs[i])
         /\ logs[i][1].session \in Nat /\ logs[i][1].session < next_session
<1>1. Complete(logs[i]) /\ logs[i][1].session < next_session
  BY DEF IInv, LogsAreComplete
<1>2. logs[i] \in Seq(Event(Ids))
  BY ElementOfSeq DEF IInv, Counters
<1>3. 1 \in 1..Len(logs[i])
  BY <1>1, <1>2, LenProperties DEF Complete
<1>4. logs[i][1] \in Event(Ids)
  BY <1>2, <1>3, ElementOfSeq
<1>5. logs[i][1].session \in Nat
  BY <1>4, CollectorAssumption DEF Event, Ids
<1> QED BY <1>1, <1>2, <1>5

(* A session that has just begun. *)
LEMMA Opened ==
  ASSUME NEW k \in Nat, NEW d \in ColState, BatchIsBegun(d), NEW e \in Event(Ids),
         e.kind = "session_start", e.session = d.session, Trail(d) = <<e>>,
         d.input = NoInput, ~d.end_queued
  PROVE  Good(d, k)
<1> DEFINE t == <<e>>
<1>1. /\ t \in Seq(Event(Ids)) /\ Len(t) = 1 /\ \A i \in 1..Len(t) : t[i] = e
  BY Single
<1>2. HeldBuckets(d) = {} /\ Held(d) = {}
  BY DEF HeldBuckets, Held, NoInput
<1>3. Trail(d) = t
  OBVIOUS
<1> HIDE DEF t
<1>4. Sound(d)
  <2>1. Cardinality(HeldBuckets(d)) = 0
    BY <1>2, FS_EmptySet
  <2> QED BY <2>1, CollectorAssumption DEF Sound
<1>5. OneOpen(d)
  BY DEF OneOpen, NoInput
<1>6. OneSession(d)
  <2>1. ValidPayload(e)
    BY DEF ValidPayload
  <2>2. \A i \in 1..Len(t) : i = 1
    BY <1>1
  <2>3. ASSUME NEW i \in 1..Len(t)
        PROVE  /\ ValidPayload(t[i]) /\ t[i].session = d.session
               /\ t[i].kind = "session_start" <=> i = 1
               /\ t[i].kind = "session_end" => i = Len(t) /\ d.end_queued
    BY <1>1, <2>1, <2>2
  <2>4. Len(t) >= 1
    BY <1>1
  <2> QED BY <1>3, <2>3, <2>4 DEF OneSession
<1>7. InOrder(d, k)
  <2>1. \A i \in 1..Len(t) : ~Typed(t[i])
    BY <1>1 DEF Typed
  <2> QED BY <1>2, <1>3, <2>1 DEF InOrder
<1> QED BY <1>4, <1>5, <1>6, <1>7 DEF Good

(* The first event of a session is never refused. *)
LEMMA FirstEvent ==
  ASSUME NEW k \in Nat, NEW b \in ColState, Blank(b), ~b.in_callback,
         NEW o \in Queue(b, "session_start", {})
  PROVE  /\ o.end \in {"done", "raised"} /\ Good(o.col, k) /\ QueueOnly(b, o.col)
<1> DEFINE e == Ev(b, "session_start", {})
<1> DEFINE events == <<e>>
<1>1. o \in QueueMany(b, events)
  BY DEF Queue
<1>2. e \in Event(Ids) /\ e.kind = "session_start" /\ e.session = b.session
  BY EventType
<1> HIDE DEF e
<1>3. events \in Seq(Event(Ids)) /\ Len(events) = 1
  BY <1>2, Single
<1> HIDE DEF events
<1>4. BatchIsBegun(b)
  BY CollectorAssumption DEF Blank, BatchIsBegun
<1>5. Trail(b) = <<>>
  BY TrailIsFile DEF Blank
<1>6. Len(b.pending) = 0 /\ ~(Len(b.pending) + Len(events) > MaxPending)
  BY <1>3, CollectorAssumption DEF Blank
<1>7. /\ o.end \in {"done", "refused", "raised"}
      /\ o.end = "refused" =>
           \/ o.col = b /\ b.in_callback /\ b.error # "none"
           \/ o.col = OverLimit(b) /\ Len(b.pending) + Len(events) > MaxPending
      /\ o.end # "refused" =>
           /\ o.col \in ColState /\ BatchIsBegun(o.col) /\ QueueOnly(b, o.col)
           /\ Trail(o.col) = Trail(b) \o events
  BY <1>1, <1>3, <1>4, QueueManyOutcomes
<1>8. o.end \in {"done", "raised"}
  BY <1>6, <1>7
<1> DEFINE d == o.col
<1>9. d \in ColState /\ BatchIsBegun(d) /\ QueueOnly(b, d) /\ Trail(d) = Trail(b) \o events
  BY <1>7, <1>8
<1>10. Trail(d) = events
  BY <1>3, <1>5, <1>9, ConcatEmptySeq
<1>11. d.session = b.session /\ d.input = NoInput /\ ~d.end_queued
  BY <1>9 DEF QueueOnly, Blank
<1> HIDE DEF d
<1>12. Trail(d) = <<e>>
  BY <1>10 DEF events
<1>13. e.session = d.session
  BY <1>2, <1>11
<1>14. Good(d, k)
  BY <1>2, <1>9, <1>11, <1>12, <1>13, Opened
<1> QED BY <1>8, <1>9, <1>14 DEF d

(* After a reset the collector holds nothing. *)
LEMMA ResetBlank ==
  ASSUME NEW c \in ColState, ~c.in_callback, NEW error \in Errors,
         NEW d, d = [Reset(c) EXCEPT !.error = error]
  PROVE  Blank(d) /\ d.state = "stopped" /\ ~d.in_callback
<1>1. <<>> \in Seq(Event(Ids))
  BY EmptySeq
<1>2. NoInput \in [sequence : SUBSET Nat, text : SUBSET Nat, control : [Buckets -> SUBSET Nat]]
  BY DEF NoInput
<1>3. 0 \in Ids /\ c.epoch + 1 \in Nat
  BY ColFields, CollectorAssumption DEF Ids
<1>4. d \in ColState
  BY <1>1, <1>2, <1>3 DEF ColState, Reset
<1>5. /\ d.pending = <<>> /\ d.payload = None /\ d.consumed = 0 /\ d.file = <<>>
      /\ d.input = NoInput /\ ~d.end_queued /\ ~d.scheduled /\ ~d.published
      /\ d.state = "stopped" /\ ~d.in_callback
  BY DEF Reset, ColState
<1> QED BY <1>4, <1>5 DEF Blank

(* A start, which leaves an open session or none. *)
LEMMA StartSafe ==
  ASSUME IInv, Start
  PROVE  Safe
<1> DEFINE k == pressed + 1
<1> DEFINE b == [col EXCEPT !.session = next_session]
<1>1. /\ col \in ColState /\ ~col.in_callback /\ k \in Nat /\ Blank(col)
      /\ col.state = "stopped" /\ next_session \in Nat /\ next_session \in 1..MaxSessions
  BY CollectorAssumption DEF IInv, Counters, Start
<1>2. PICK o \in Then(Then(Queue(b, "session_start", {}), FlushAll), MayFail) :
        col' = IF o.end = "raised" THEN [Reset(o.col) EXCEPT !.error = "raised"]
               ELSE Recording(o.col)
  BY DEF Start
<1>3. PICK f \in Then(Queue(b, "session_start", {}), FlushAll) :
             IF f.end = "done" THEN o \in MayFail(f.col) ELSE o = f
  BY <1>2 DEF Then
<1>4. PICK q \in Queue(b, "session_start", {}) :
             IF q.end = "done" THEN f \in FlushAll(q.col) ELSE f = q
  BY <1>3 DEF Then
<1>5. /\ next_session' = next_session + 1 /\ logs' = logs /\ pressed' = pressed
      /\ calls' \in 0..MaxCalls
  BY CollectorAssumption DEF Start, Call, IInv, Counters
<1>6. Counters'
  <2>1. next_session' \in 1..MaxSessions + 1
    BY <1>1, <1>5, CollectorAssumption
  <2> QED BY <1>5, <2>1 DEF IInv, Counters
<1>7. /\ b \in ColState /\ Blank(b) /\ ~b.in_callback /\ b.session = next_session
  <2>1. next_session \in Ids
    BY <1>1 DEF Ids
  <2>2. b \in ColState /\ ~b.in_callback /\ b.session = next_session
    BY <1>1, <2>1 DEF ColState
  <2>3. Blank(b)
    BY <1>1, <2>2 DEF Blank, ColState
  <2> QED BY <2>2, <2>3
<1> HIDE DEF b
<1>8. q.end \in {"done", "raised"} /\ Good(q.col, k) /\ QueueOnly(b, q.col)
  BY <1>1, <1>4, <1>7, FirstEvent
(* o is as good as q, and has nothing left in memory when it is done. *)
<1>9. /\ o.end \in {"done", "raised"} /\ Good(o.col, k) /\ ~o.col.in_callback
      /\ o.end = "done" => /\ o.col.input = NoInput /\ o.col.session = next_session
                           /\ ~o.col.end_queued /\ ~o.col.published
  <2>1. /\ ~q.col.in_callback /\ q.col.session = next_session
        /\ ~q.col.end_queued /\ ~q.col.published
    BY <1>7, <1>8 DEF QueueOnly, Blank
  <2>2. CASE q.end = "raised"
    BY <1>3, <1>4, <1>8, <2>1, <2>2
  <2>3. CASE q.end = "done"
    <3>1. /\ Preserves(q.col, f, k) /\ f.end \in {"done", "raised"}
          /\ f.end = "done" => f.col.input = NoInput
      BY <1>1, <1>4, <1>8, <2>1, <2>3, FlushAllPreserves
    <3>2. /\ Good(f.col, k) /\ ~f.col.in_callback /\ f.col.session = next_session
          /\ ~f.col.end_queued /\ ~f.col.published
      BY <2>1, <3>1 DEF Preserves, Frame
    <3>3. CASE f.end = "raised"
      BY <1>3, <3>2, <3>3
    <3>4. CASE f.end = "done"
      <4>1. /\ Preserves(f.col, o, k) /\ o.end \in {"done", "raised"}
            /\ o.end = "done" => o.col = f.col
        BY <1>1, <1>3, <3>2, <3>4, MayFailPreserves
      <4> QED BY <3>1, <3>2, <3>4, <4>1 DEF Preserves, Frame
    <3> QED BY <3>1, <3>3, <3>4
  <2> QED BY <1>8, <2>2, <2>3
<1> DEFINE c == o.col
<1>10. c \in ColState
  BY <1>9 DEF Good, Sound
<1>11. CASE o.end = "raised"
  <2>1. "raised" \in Errors
    BY DEF Errors
  <2>2. col' = [Reset(c) EXCEPT !.error = "raised"]
    BY <1>2, <1>11
  <2> HIDE DEF c
  <2>3. Blank(col') /\ col'.state = "stopped" /\ ~col'.in_callback
    BY <1>9, <1>10, <2>1, <2>2, ResetBlank DEF c
  <2>4. IInv'
    BY <1>5, <1>6, <2>3, ClosedStep
  <2> QED BY <1>1, <1>5, <2>4, BlankKept DEF Safe
<1>12. CASE o.end = "done"
  <2>1. col' = [c EXCEPT !.state = "recording", !.error = "none"]
    BY <1>2, <1>12 DEF Recording
  <2>2. /\ Good(c, k) /\ ~c.in_callback /\ c.input = NoInput /\ c.session = next_session
        /\ ~c.end_queued /\ ~c.published
    BY <1>9, <1>12
  <2> HIDE DEF c
  <2>3. /\ col' \in ColState /\ SameLog(c, col') /\ col'.input = NoInput
        /\ col'.state = "recording" /\ ~col'.in_callback /\ col'.session = next_session
        /\ ~col'.end_queued /\ ~col'.published
    <3>1. "none" \in Errors
      BY DEF Errors
    <3> QED BY <1>10, <2>1, <2>2, <3>1 DEF ColState, SameLog, c
  <2>4. Good(col', k)
    BY <1>1, <2>2, <2>3, Touched
  <2>5. Good(col', pressed' + 1)
    BY <1>5, <2>4
  <2>6. ModeLink(col')
    BY <2>3 DEF ModeLink, NoInput
  <2>7. LogsAreComplete'
    <3>1. ASSUME NEW i \in 1..Len(logs)
          PROVE  /\ Complete(logs[i]) /\ logs[i][1].session < next_session'
                 /\ logs[i][1].session # col'.session
      BY <1>1, <1>5, <2>3, LogSessions
    <3>2. \A i, j \in 1..Len(logs) : i # j => logs[i][1].session # logs[j][1].session
      BY DEF IInv, LogsAreComplete
    <3> QED BY <1>5, <3>1, <3>2 DEF LogsAreComplete, Complete
  <2>8. col'.session \in 1..next_session' - 1
    BY <1>1, <1>5, <2>3
  <2>9. IInv'
    BY <1>6, <2>3, <2>5, <2>6, <2>7, <2>8 DEF IInv
  <2> QED BY <1>1, <1>5, <2>9, BlankKept DEF Safe
<1> QED BY <1>9, <1>11, <1>12

-----------------------------------------------------------------------------
(* Stopping *)

(* One step of closing a session may follow another. *)
LEMMA ClosesInTurn ==
  ASSUME NEW k, NEW c, NEW o, Closes(c, o, k), NEW p, Closes(o.col, p, k)
  PROVE  Closes(c, p, k)
<1>1. /\ o.col.error = c.error /\ KeptBy(c) \subseteq KeptBy(o.col)
      /\ o.col.state = c.state /\ o.col.session = c.session /\ o.col.last_mode = c.last_mode
      /\ o.col.in_callback = c.in_callback /\ o.col.published = c.published
      /\ c.end_queued => o.col.end_queued
  BY DEF Closes
<1>2. /\ p.end \in {"done", "raised"} /\ Good(p.col, k)
      /\ p.col.error = o.col.error /\ KeptBy(o.col) \subseteq KeptBy(p.col)
      /\ p.col.state = o.col.state /\ p.col.session = o.col.session
      /\ p.col.last_mode = o.col.last_mode
      /\ p.col.in_callback = o.col.in_callback /\ p.col.published = o.col.published
      /\ o.col.end_queued => p.col.end_queued
  BY DEF Closes
<1> QED BY <1>1, <1>2 DEF Closes

(* Whatever an earlier stop left to do is done, and nothing twice. *)
LEMMA EndedPreserves ==
  ASSUME NEW k \in Nat, NEW c, Good(c, k), ~c.in_callback,
         NEW o \in Anyway(Then(WritePending(c), EndSession), FlushAll)
  PROVE  /\ Closes(c, o, k)
         /\ o.end = "done" => /\ o.col.pending = <<>> /\ o.col.payload = None
                              /\ o.col.consumed = 0 /\ o.col.input = NoInput /\ o.col.end_queued
         /\ c.published /\ c.end_queued /\ c.pending = <<>> => o = Done(c)
<1>1. PICK e \in Then(WritePending(c), EndSession) :
             IF e.end # "raised" THEN o \in FlushAll(e.col) ELSE o = e
  BY DEF Anyway
<1>2. PICK w \in WritePending(c) : IF w.end = "done" THEN e \in EndSession(w.col) ELSE e = w
  BY <1>1 DEF Then
<1>3. /\ Preserves(c, w, k) /\ w.end \in {"done", "raised"}
      /\ w.end = "done" => w.col.pending = <<>>
  BY <1>2, WritePendingPreserves
<1>4. Closes(c, w, k)
  BY <1>3, PreservesEnds
<1>5. c.pending = <<>> => w = Done(c)
  BY <1>2 DEF WritePending
<1>6. CASE w.end = "raised"
  <2>1. o = w
    BY <1>1, <1>2, <1>6
  <2>2. c.pending # <<>>
    BY <1>5, <1>6 DEF Done
  <2> QED BY <1>4, <1>6, <2>1, <2>2
<1>7. CASE w.end = "done"
  <2>1. Good(w.col, k) /\ ~w.col.in_callback /\ w.col.pending = <<>>
    BY <1>3, <1>4, <1>7 DEF Closes
  <2>2. /\ Closes(w.col, e, k)
        /\ e.end = "done" => e.col.end_queued /\ e.col.pending = <<>>
        /\ w.col.end_queued => e = Done(w.col)
    BY <1>2, <1>7, <2>1, EndSessionPreserves
  <2>3. Closes(c, e, k)
    BY <1>4, <2>2, ClosesInTurn
  <2>4. c.pending = <<>> /\ c.end_queued => e = Done(c)
    <3>1. HAVE c.pending = <<>> /\ c.end_queued
    <3>2. w.col = c
      BY <1>5, <3>1 DEF Done
    <3> QED BY <2>2, <3>1, <3>2
  <2>5. CASE e.end = "raised"
    <3>1. o = e
      BY <1>1, <2>5
    <3>2. ~(c.pending = <<>> /\ c.end_queued)
      BY <2>4, <2>5 DEF Done
    <3> QED BY <2>3, <2>5, <3>1, <3>2
  <2>6. CASE e.end = "done"
    <3>1. o \in FlushAll(e.col) /\ Good(e.col, k) /\ ~e.col.in_callback /\ e.col.end_queued
      BY <1>1, <2>1, <2>2, <2>6 DEF Closes
    <3>2. /\ Preserves(e.col, o, k) /\ o.end \in {"done", "raised"}
          /\ o.end = "done" => /\ o.col.pending = <<>> /\ o.col.payload = None
                               /\ o.col.consumed = 0 /\ o.col.input = NoInput
          /\ e.col.pending = <<>> /\ e.col.input = NoInput /\ e.col.published => o = Done(e.col)
      BY <3>1, FlushAllPreserves
    <3>3. Closes(e.col, o, k)
      BY <3>2, PreservesEnds
    <3>4. Closes(c, o, k)
      BY <2>3, <3>3, ClosesInTurn
    <3>5. o.col.end_queued
      BY <3>1, <3>3 DEF Closes
    <3>6. c.published /\ c.end_queued /\ c.pending = <<>> => o = Done(c)
      <4>1. HAVE c.published /\ c.end_queued /\ c.pending = <<>>
      <4>2. e.col = c
        BY <2>4, <4>1 DEF Done
      <4>3. c.input = NoInput
        BY <4>1 DEF Good, OneSession
      <4> QED BY <3>2, <4>1, <4>2, <4>3
    <3> QED BY <3>2, <3>4, <3>5, <3>6
  <2>7. e.end \in {"done", "raised"}
    BY <2>2 DEF Closes
  <2> QED BY <2>5, <2>6, <2>7
<1> QED BY <1>3, <1>6, <1>7

(* The log of a session that has been ended. *)
LEMMA CompleteLog ==
  ASSUME NEW k, NEW c, Good(c, k), c.end_queued, c.session # NoSession
  PROVE  Complete(Trail(c)) /\ Trail(c)[1].session = c.session
<1> DEFINE t == Trail(c)
<1>1. t \in Seq(Event(Ids)) /\ Len(t) \in Nat
  BY TrailType DEF Good, Sound
<1>2. /\ Len(t) >= 1
      /\ \A i \in 1..Len(t) :
           /\ ValidPayload(t[i]) /\ t[i].session = c.session
           /\ t[i].kind = "session_start" <=> i = 1
           /\ t[i].kind = "session_end" => i = Len(t) /\ c.end_queued
      /\ t[Len(t)].kind = "session_end"
  BY DEF Good, OneSession
<1> HIDE DEF t
<1>3. 1 \in 1..Len(t) /\ t[1].session = c.session
  BY <1>1, <1>2
<1>4. ASSUME NEW i \in 1..Len(t)
      PROVE  /\ ValidPayload(t[i]) /\ t[i].session = t[1].session
             /\ t[i].kind = "session_start" <=> i = 1
             /\ t[i].kind = "session_end" <=> i = Len(t)
  <2>1. /\ ValidPayload(t[i]) /\ t[i].session = c.session
        /\ t[i].kind = "session_start" <=> i = 1
        /\ t[i].kind = "session_end" => i = Len(t)
    BY <1>2
  <2> QED BY <1>2, <1>3, <2>1
<1> QED BY <1>2, <1>3, <1>4 DEF Complete, t

(* Publishing adds one complete log of a session that had none. *)
LEMMA LogAdded ==
  ASSUME IInv, NEW f \in Seq(Event(Ids)), Complete(f), f[1].session = col.session,
         col.state # "stopped", ~col.published, logs' = Append(logs, f),
         next_session' = next_session, col'.state = "stopped" \/ col'.published
  PROVE  /\ LogsAreComplete' /\ logs' \in Seq(Seq(Event(Ids)))
         /\ Len(logs') >= 1 /\ logs'[Len(logs')] = f
         /\ ToSet(logs') = ToSet(logs) \cup {f}
<1> DEFINE S == Seq(Event(Ids))
<1> DEFINE new == Append(logs, f)
<1> DEFINE n == Len(logs)
<1>1. logs \in Seq(S) /\ n \in Nat
  BY LenProperties DEF IInv, Counters
<1>2. /\ new \in Seq(S) /\ Len(new) = n + 1
      /\ \A i \in 1..n : new[i] = logs[i]
      /\ new[n + 1] = f
  BY <1>1, AppendProperties
<1>3. logs' = new /\ DOMAIN new = 1..Len(new) /\ DOMAIN logs = 1..n
  BY <1>1, <1>2, LenProperties
<1>4. /\ next_session \in Nat /\ col.session \in Nat /\ col.session < next_session
      /\ \A i \in 1..n : logs[i][1].session # col.session
  BY CollectorAssumption DEF IInv, Counters, LogsAreComplete
<1>5. \A i \in 1..n : Complete(logs[i]) /\ logs[i][1].session < next_session
  BY DEF IInv, LogsAreComplete
<1>6. \A i, j \in 1..n : i # j => logs[i][1].session # logs[j][1].session
  BY DEF IInv, LogsAreComplete
<1>7. \A i \in 1..Len(new) : (i \in 1..n /\ new[i] = logs[i]) \/ (i = n + 1 /\ new[i] = f)
  <2> HIDE DEF new, n
  <2> QED BY <1>1, <1>2
<1>8. 1 \in 1..Len(new) /\ Len(new) = n + 1
  <2> HIDE DEF new, n
  <2> QED BY <1>1, <1>2
<1> HIDE DEF new, n
<1>9. \A i \in 1..Len(new) : Complete(new[i]) /\ new[i][1].session < next_session
  BY <1>4, <1>5, <1>7
<1>10. \A i, j \in 1..Len(new) : i # j => new[i][1].session # new[j][1].session
  BY <1>4, <1>6, <1>7
<1>11. LogsAreComplete'
  BY <1>3, <1>9, <1>10 DEF LogsAreComplete, Complete
<1>12. ToSet(new) = ToSet(logs) \cup {f}
  <2>1. ToSet(new) \subseteq ToSet(logs) \cup {f}
    BY <1>3, <1>7 DEF ToSet
  <2>2. ToSet(logs) \subseteq ToSet(new)
    <3>1. \A i \in 1..n : i \in 1..Len(new) /\ new[i] = logs[i]
      BY <1>1, <1>2, <1>8
    <3> QED BY <1>3, <3>1 DEF ToSet
  <2>3. f \in ToSet(new)
    <3>1. n + 1 \in 1..Len(new)
      BY <1>1, <1>8
    <3> QED BY <1>2, <1>3, <3>1 DEF ToSet
  <2> QED BY <2>1, <2>2, <2>3
<1> QED BY <1>1, <1>2, <1>3, <1>8, <1>11, <1>12

(* What is kept of a session that is published is in its log. *)
LEMMA PublishedKept ==
  ASSUME NEW k, Good(col, k), NEW c, Good(c, k), KeptBy(col) \subseteq KeptBy(c),
         c.pending = <<>>, c.input = NoInput, c.file \in ToSet(logs'),
         ToSet(logs) \subseteq ToSet(logs')
  PROVE  Kept \subseteq Kept'
<1>1. KeptBy(col) = InMemory(col) \cup Marks(col.pending) \cup Marks(col.file)
  BY KeptIs DEF Good, Sound
<1>2. KeptBy(c) = InMemory(c) \cup Marks(c.pending) \cup Marks(c.file)
  BY KeptIs DEF Good, Sound
<1>3. Marks(c.pending) = {}
  BY DEF Marks, ToSet
<1>4. InMemory(c) = {}
  BY DEF InMemory, NoInput, Range
<1> DEFINE Published(l) == UNION {Marks(log) : log \in ToSet(l)}
<1>5. Marks(c.file) \subseteq Published(logs')
  OBVIOUS
<1>6. Published(logs) \subseteq Published(logs')
  OBVIOUS
<1>7. Kept = KeptBy(col) \cup Published(logs)
  BY <1>1 DEF Kept
<1>8. Published(logs') \subseteq Kept'
  BY DEF Kept
<1> HIDE DEF Published
<1> QED BY <1>2, <1>3, <1>4, <1>5, <1>6, <1>7, <1>8

(* A stop, and every later one that goes on from where it failed. *)
LEMMA StopSafe ==
  ASSUME IInv, Stop
  PROVE  Safe
<1> DEFINE k == pressed + 1
<1> DEFINE b == Leave([col EXCEPT !.state = "stopping"])
<1>1. /\ col \in ColState /\ ~col.in_callback /\ k \in Nat /\ Good(col, k)
      /\ col.state # "stopped" /\ col.session \in Nat /\ col.session # NoSession
  <2>1. col.state # "stopped"
    BY DEF Stop
  <2>2. /\ col \in ColState /\ ~col.in_callback /\ Good(col, k) /\ Counters
        /\ col.session \in 1..next_session - 1
    BY <2>1 DEF IInv
  <2>3. k \in Nat /\ next_session \in Nat
    BY <2>2, CollectorAssumption DEF Counters
  <2>4. col.session \in Nat /\ col.session # NoSession
    BY <2>2, <2>3 DEF NoSession
  <2> QED BY <2>1, <2>2, <2>3, <2>4
<1>2. PICK o \in Then(Anyway(Then(WritePending(b), EndSession), FlushAll), Finish) :
        /\ col' = IF o.end = "raised" THEN [o.col EXCEPT !.error = "raised"]
                  ELSE [Reset(o.col) EXCEPT !.error = "none"]
        /\ logs' = IF o.col.published /\ ~col.published THEN Append(logs, o.col.file) ELSE logs
  BY DEF Stop
<1>3. PICK e \in Anyway(Then(WritePending(b), EndSession), FlushAll) :
             IF e.end = "done" THEN o \in Finish(e.col) ELSE o = e
  BY <1>2 DEF Then
<1>4. /\ pressed' = pressed /\ next_session' = next_session /\ calls' \in 0..MaxCalls
  <2>1. pressed' = pressed /\ next_session' = next_session /\ Call
    BY DEF Stop
  <2>2. calls' \in 0..MaxCalls
    BY <2>1, CollectorAssumption DEF Call, IInv, Counters
  <2> QED BY <2>1, <2>2
<1>5. /\ b \in ColState /\ SameLog(col, b) /\ b.input = col.input /\ b.state = "stopping"
      /\ b.session = col.session /\ b.published = col.published /\ ~b.in_callback
      /\ b.end_queued = col.end_queued
  BY <1>1 DEF ColState, SameLog, Leave
<1> HIDE DEF b
<1>6. Good(b, k) /\ KeptBy(b) = KeptBy(col)
  BY <1>1, <1>5, Touched
<1> DEFINE c == e.col
<1>7. /\ Closes(b, e, k)
      /\ e.end = "done" => c.pending = <<>> /\ c.consumed = 0 /\ c.input = NoInput /\ c.end_queued
      /\ b.published /\ b.end_queued /\ b.pending = <<>> => e = Done(b)
  BY <1>1, <1>3, <1>5, <1>6, EndedPreserves
<1>8. /\ e.end \in {"done", "raised"} /\ Good(c, k) /\ c \in ColState
      /\ KeptBy(col) \subseteq KeptBy(c) /\ c.state = "stopping" /\ c.session = col.session
      /\ c.published = col.published /\ ~c.in_callback /\ (col.end_queued => c.end_queued)
  BY <1>5, <1>6, <1>7 DEF Closes, Good, Sound
<1>9. e.end = "done" =>
        \/ o \in MayFail([c EXCEPT !.published = TRUE])
        \/ o \in MayFail(c) /\ o.end = "raised"
  BY <1>3 DEF Finish
<1> DEFINE d == o.col
<1>10. "raised" \in Errors /\ "none" \in Errors
  BY DEF Errors
<1> HIDE DEF c, k
(* The stop fails without publishing anything that was not yet. *)
<1>11. ASSUME o.end = "raised", logs' = logs, d \in ColState, Good(d, k),
              KeptBy(col) \subseteq KeptBy(d), d.state = "stopping", d.session = col.session,
              d.published = col.published, ~d.in_callback,
              col.published => d.end_queued /\ d.pending = <<>> /\ d.file = col.file
       PROVE  Safe
  <2>1. col' = [d EXCEPT !.error = "raised"]
    BY <1>2, <1>11
  <2> HIDE DEF d
  <2>2. /\ col' \in ColState /\ SameLog(d, col') /\ col'.input = d.input
        /\ col'.state = "stopping" /\ ~col'.in_callback /\ col'.session = col.session
        /\ col'.published = col.published
        /\ col.published => col'.end_queued /\ col'.pending = <<>> /\ col'.file = col.file
    BY <1>10, <1>11, <2>1 DEF ColState, SameLog
  <2>3. Counters'
    BY <1>4, <1>11 DEF IInv, Counters
  <2>4. Good(d, pressed + 1)
    BY <1>11 DEF k
  <2>5. col'.state # "stopped" /\ col'.state # "recording"
    BY <2>2
  <2> QED BY <1>1, <1>4, <1>11, <2>2, <2>3, <2>4, <2>5, CommandStep
(* The log is published and the collector goes back to being stopped. *)
<1>12. ASSUME o.end = "done", d \in ColState, ~d.in_callback,
              LogsAreComplete', logs' \in Seq(Seq(Event(Ids))), Kept \subseteq Kept'
       PROVE  Safe
  <2>1. col' = [Reset(d) EXCEPT !.error = "none"]
    BY <1>2, <1>12
  <2>2. Blank(col') /\ col'.state = "stopped" /\ ~col'.in_callback
    BY <1>10, <1>12, <2>1, ResetBlank
  <2>3. Counters'
    BY <1>4, <1>12 DEF IInv, Counters
  <2>4. col' \in ColState /\ ~col'.end_queued /\ ~col'.published
    BY <2>2 DEF Blank
  <2>5. IInv'
    BY <1>12, <2>2, <2>3, <2>4 DEF IInv
  <2> QED BY <1>12, <2>5 DEF Safe
<1>13. CASE col.published
  <2>1. /\ col.end_queued /\ col.pending = <<>> /\ Len(logs) >= 1
        /\ logs[Len(logs)] = col.file /\ logs' = logs
    BY <1>2, <1>13 DEF IInv
  <2>2. e.end = "done" /\ c = b
    BY <1>5, <1>7, <1>13, <2>1 DEF Done, SameLog, c
  <2>3. [c EXCEPT !.published = TRUE] = c
    BY <1>5, <1>13, <2>2 DEF ColState
  <2>4. o \in MayFail(c)
    BY <1>9, <2>2, <2>3
  <2>5. /\ SameLog(c, d) /\ d.input = c.input /\ Preserves(c, o, k) /\ o.end \in {"done", "raised"}
    BY <1>1, <1>8, <2>4, MayFailPreserves DEF k
  <2>6. /\ d \in ColState /\ Good(d, k) /\ Frame(c, d) /\ KeptBy(c) \subseteq KeptBy(d)
    BY <2>5 DEF Preserves, Good, Sound
  <2>7. /\ d.state = "stopping" /\ d.session = col.session /\ d.published = col.published
        /\ ~d.in_callback /\ d.end_queued /\ d.pending = <<>> /\ d.file = col.file
    BY <1>5, <1>8, <2>1, <2>2, <2>5, <2>6 DEF Frame, SameLog
  <2>8. KeptBy(col) \subseteq KeptBy(d)
    BY <1>8, <2>6
  <2>9. CASE o.end = "raised"
    BY <1>11, <2>1, <2>6, <2>7, <2>8, <2>9
  <2>10. CASE o.end = "done"
    <3>1. d.input = NoInput
      BY <1>7, <2>2, <2>5 DEF c
    <3>2. d.file \in ToSet(logs')
      <4>1. logs \in Seq(Seq(Event(Ids)))
        BY DEF IInv, Counters
      <4>2. Len(logs) \in DOMAIN logs
        BY <2>1, <4>1, LenProperties
      <4> QED BY <2>1, <2>7, <4>2 DEF ToSet
    <3> HIDE DEF d
    <3>3. Kept \subseteq Kept'
      BY <1>1, <2>1, <2>6, <2>7, <2>8, <3>1, <3>2, PublishedKept DEF k
    <3>4. LogsAreComplete'
      <4>1. col' = [Reset(o.col) EXCEPT !.error = "none"]
        BY <1>2, <2>10
      <4>2. col'.state = "stopped"
        BY <1>10, <2>6, <2>7, <4>1, ResetBlank DEF d
      <4> QED BY <1>4, <2>1, <4>2 DEF IInv, LogsAreComplete, Complete
    <3>5. logs' \in Seq(Seq(Event(Ids)))
      BY <2>1 DEF IInv, Counters
    <3> QED BY <1>12, <2>6, <2>7, <2>10, <3>3, <3>4, <3>5 DEF d
  <2> QED BY <2>5, <2>9, <2>10
<1>14. CASE ~col.published
  <2>1. CASE e.end = "raised"
    <3>1. o = e /\ d = c
      BY <1>3, <2>1 DEF c
    <3>2. logs' = logs
      BY <1>2, <1>8, <1>14, <3>1
    <3>3. /\ o.end = "raised" /\ d \in ColState /\ Good(d, k) /\ KeptBy(col) \subseteq KeptBy(d)
          /\ d.state = "stopping" /\ d.session = col.session
          /\ d.published = col.published /\ ~d.in_callback
      BY <1>8, <2>1, <3>1
    <3> HIDE DEF d
    <3> QED BY <1>11, <1>14, <3>2, <3>3 DEF d
  <2>2. CASE e.end = "done" /\ o \in MayFail(c) /\ o.end = "raised"
    <3>1. Preserves(c, o, k)
      BY <1>1, <1>8, <2>2, MayFailPreserves DEF k
    <3>2. d \in ColState /\ Good(d, k) /\ Frame(c, d) /\ KeptBy(c) \subseteq KeptBy(d)
      BY <2>2, <3>1 DEF Preserves, Good, Sound
    <3>3. /\ d.state = "stopping" /\ d.session = col.session
          /\ d.published = col.published /\ ~d.in_callback /\ KeptBy(col) \subseteq KeptBy(d)
      BY <1>8, <3>2 DEF Frame
    <3>4. logs' = logs
      BY <1>2, <1>14, <3>3
    <3> QED BY <1>11, <1>14, <2>2, <3>2, <3>3, <3>4
  <2>3. CASE e.end = "done" /\ o \in MayFail([c EXCEPT !.published = TRUE])
    <3> DEFINE p == [c EXCEPT !.published = TRUE]
    <3>1. /\ p \in ColState /\ SameLog(c, p) /\ p.input = c.input /\ p.published
          /\ p.state = "stopping" /\ p.session = col.session /\ ~p.in_callback
      BY <1>8 DEF ColState, SameLog
    <3> HIDE DEF p
    <3>2. Good(p, k) /\ KeptBy(p) = KeptBy(c) /\ k \in Nat
      BY <1>1, <1>8, <3>1, Touched DEF k
    <3>3. /\ SameLog(p, d) /\ d.input = p.input /\ Preserves(p, o, k) /\ o.end \in {"done", "raised"}
      <4>1. o \in MayFail(p)
        BY <2>3 DEF p
      <4> QED BY <3>2, <4>1, MayFailPreserves
    <3>4. /\ d \in ColState /\ Good(d, k) /\ Frame(p, d) /\ KeptBy(p) \subseteq KeptBy(d)
      BY <3>3 DEF Preserves, Good, Sound
    <3>5. /\ d.pending = <<>> /\ d.consumed = 0 /\ d.input = NoInput /\ d.end_queued
          /\ d.published /\ d.state = "stopping" /\ d.session = col.session /\ ~d.in_callback
      <4>1. c.pending = <<>> /\ c.consumed = 0 /\ c.input = NoInput /\ c.end_queued
        BY <1>7, <2>3 DEF c
      <4> QED BY <3>1, <3>3, <3>4, <4>1 DEF Frame, SameLog
    <3>6. KeptBy(col) \subseteq KeptBy(d)
      BY <1>8, <3>2, <3>4
    <3>7. logs' = Append(logs, d.file)
      BY <1>2, <1>14, <3>5
    <3>8. col'.state = "stopped" \/ col'.published
      <4>1. CASE o.end = "raised"
        BY <1>2, <3>4, <3>5, <4>1 DEF ColState
      <4>2. CASE o.end = "done"
        BY <1>2, <1>10, <3>4, <3>5, <4>2, ResetBlank
      <4> QED BY <3>3, <4>1, <4>2
    <3> DEFINE f == d.file
    <3>9. f \in Seq(Event(Ids)) /\ Complete(f) /\ f[1].session = col.session
      <4>1. f \in Seq(Event(Ids))
        BY <3>4, ColFields
      <4>2. Trail(d) = f
        BY <3>4, <3>5, TrailIsFile
      <4>3. Complete(Trail(d)) /\ Trail(d)[1].session = d.session
        BY <1>1, <3>4, <3>5, CompleteLog
      <4> QED BY <3>5, <4>1, <4>2, <4>3
    <3> HIDE DEF d, f
    <3>10. logs' = Append(logs, f)
      BY <3>7 DEF f
    <3>11. /\ LogsAreComplete' /\ logs' \in Seq(Seq(Event(Ids)))
           /\ Len(logs') >= 1 /\ logs'[Len(logs')] = f
           /\ ToSet(logs') = ToSet(logs) \cup {f}
      BY <1>1, <1>4, <1>14, <3>8, <3>9, <3>10, LogAdded
    <3>12. Kept \subseteq Kept'
      <4>1. d.file \in ToSet(logs') /\ ToSet(logs) \subseteq ToSet(logs')
        BY <3>11 DEF f
      <4> QED BY <1>1, <3>4, <3>5, <3>6, <4>1, PublishedKept
    <3>13. CASE o.end = "raised"
      <4>1. col' = [d EXCEPT !.error = "raised"]
        BY <1>2, <3>13 DEF d
      <4>2. /\ col' \in ColState /\ SameLog(d, col') /\ col'.input = d.input
            /\ col'.state = "stopping" /\ ~col'.in_callback /\ col'.session = col.session
            /\ col'.published /\ col'.end_queued /\ col'.pending = <<>> /\ col'.file = f
        BY <1>10, <3>4, <3>5, <4>1 DEF ColState, SameLog, f
      <4>3. Good(col', k)
        BY <3>2, <3>4, <4>2, Touched
      <4>4. Good(col', pressed' + 1)
        BY <1>4, <4>3 DEF k
      <4>5. Counters'
        BY <1>4, <3>11 DEF IInv, Counters
      <4>6. col'.session \in 1..next_session' - 1
        BY <1>1, <1>4, <4>2 DEF IInv
      <4>7. IInv'
        BY <3>11, <4>2, <4>4, <4>5, <4>6 DEF IInv
      <4> QED BY <3>12, <4>7 DEF Safe
    <3>14. CASE o.end = "done"
      BY <1>12, <3>4, <3>5, <3>11, <3>12, <3>14
    <3> QED BY <3>3, <3>13, <3>14
  <2> QED BY <1>8, <1>9, <2>1, <2>2, <2>3
<1> QED BY <1>13, <1>14

-----------------------------------------------------------------------------
(* What the analyzer makes of the logs *)

Keeps(N, V, g) == \A n \in 1..N : \A w \in V : g[n][w] \in V

Courses(N, V, base, g) ==
  {f \in [0..N -> V] : f[0] = base /\ \A n \in 1..N : f[n] = g[n][f[n - 1]]}

(* A function defined step by step on an initial segment of the naturals    *)
(* exists: the least length without one could be reached from the one       *)
(* before.                                                                  *)
LEMMA Stepwise ==
  ASSUME NEW N \in Nat, NEW V, NEW base \in V, NEW g, Keeps(N, V, g)
  PROVE  Courses(N, V, base, g) # {}
<1> USE DEF Keeps, Courses
<1> DEFINE Steps(m, f) == /\ f \in [0..m -> V] /\ f[0] = base
                          /\ \A n \in 1..m : f[n] = g[n][f[n - 1]]
<1> DEFINE Bad == {m \in 0..N : ~\E f : Steps(m, f)}
<1>1. SUFFICES ASSUME Bad # {} PROVE FALSE
  <2>1. N \in 0..N
    OBVIOUS
  <2>2. N \notin Bad => \E f : Steps(N, f)
    BY <2>1
  <2> QED BY <2>2
<1>2. Bad \subseteq Nat
  OBVIOUS
<1>3. PICK m \in Bad : \A y \in Bad : m <= y
  <2> HIDE DEF Bad
  <2> QED BY <1>1, <1>2, LeastOf
<1>4. m \in 0..N /\ ~\E f : Steps(m, f)
  OBVIOUS
<1>5. CASE m = 0
  <2> DEFINE f == [n \in 0..0 |-> base]
  <2>1. f \in [0..0 -> V] /\ f[0] = base
    OBVIOUS
  <2>2. Steps(0, f)
    BY <2>1
  <2> QED BY <1>4, <1>5, <2>2
<1>6. CASE m # 0
  <2>1. m - 1 \in 0..N /\ ~(m <= m - 1) /\ m \in 1..N /\ m \in Nat
    BY <1>4, <1>6
  <2>2. m - 1 \notin Bad
    BY <1>3, <2>1
  <2>3. PICK f : Steps(m - 1, f)
    BY <2>1, <2>2
  <2> DEFINE h == [n \in 0..m |-> IF n = m THEN g[m][f[m - 1]] ELSE f[n]]
  <2>4. \A n \in 0..m : n # m => n \in 0..m - 1
    BY <2>1
  <2>5. f \in [0..m - 1 -> V] /\ f[0] = base /\ \A n \in 1..m - 1 : f[n] = g[n][f[n - 1]]
    BY <2>3
  <2>6. m - 1 \in 0..m - 1 /\ 0 \in 0..m /\ 0 # m /\ m \in 0..m
    BY <2>1
  <2>7. f[m - 1] \in V /\ g[m][f[m - 1]] \in V
    BY <2>1, <2>5, <2>6
  <2>8. h \in [0..m -> V]
    BY <2>4, <2>5, <2>7
  <2>9. h[0] = base
    BY <2>5, <2>6
  <2>10. ASSUME NEW n \in 1..m
         PROVE  h[n] = g[n][h[n - 1]]
    <3>1. n \in 0..m /\ n - 1 \in 0..m /\ n - 1 # m /\ (n # m => n \in 1..m - 1)
      BY <2>1
    <3>2. h[n - 1] = f[n - 1]
      BY <3>1
    <3>3. CASE n = m
      BY <3>1, <3>2, <3>3
    <3>4. CASE n # m
      BY <2>5, <3>1, <3>2, <3>4
    <3> QED BY <3>3, <3>4
  <2>11. Steps(m, h)
    BY <2>8, <2>9, <2>10
  <2> QED BY <1>4, <2>11
<1> QED BY <1>5, <1>6

Validators == [active : Ids, seen : SUBSET Ids, ok : BOOLEAN]

(* The validator keeps its types. *)
LEMMA ValidateEventType ==
  ASSUME NEW v \in Validators, NEW e \in Event(Ids)
  PROVE  ValidateEvent(v, e) \in Validators
<1>1. e.session \in Ids /\ 0 \in Ids
  BY CollectorAssumption DEF Event, Ids
<1> QED BY <1>1 DEF ValidateEvent, Validators, NoSession

(* Reading a log event by event. *)
LEMMA ReadSteps ==
  ASSUME NEW v \in Validators, NEW log \in Seq(Event(Ids))
  PROVE  \E f \in [0..Len(log) -> Validators] :
           /\ f[0] = v
           /\ \A n \in 1..Len(log) : f[n] = ValidateEvent(f[n - 1], log[n])
           /\ Read(v, log) = f[Len(log)]
<1> DEFINE N == Len(log)
<1> DEFINE g == [n \in 1..N |-> [w \in Validators |-> ValidateEvent(w, log[n])]]
<1> DEFINE P(f) == f = [n \in 0..N |-> IF n = 0 THEN v ELSE ValidateEvent(f[n - 1], log[n])]
<1>1. N \in Nat /\ \A n \in 1..N : log[n] \in Event(Ids)
  BY LenProperties, ElementOfSeq
<1>2. Read(v, log) = (CHOOSE f : P(f))[N]
  BY DEF Read
<1> HIDE DEF N
<1>3. \A n \in 1..N : \A w \in Validators : g[n][w] \in Validators
  BY <1>1, ValidateEventType
<1>4. PICK f \in [0..N -> Validators] : f[0] = v /\ \A n \in 1..N : f[n] = g[n][f[n - 1]]
  <2>1. N \in Nat /\ v \in Validators
    BY <1>1
  <2> HIDE DEF g, P
  <2>2. Keeps(N, Validators, g)
    BY <1>3 DEF Keeps
  <2>3. Courses(N, Validators, v, g) # {}
    BY <2>1, <2>2, Stepwise
  <2> QED BY <2>3 DEF Courses
<1>5. \A n \in 1..N : n - 1 \in 0..N
  BY <1>1
<1>6. \A n \in 1..N : f[n] = ValidateEvent(f[n - 1], log[n])
  BY <1>4, <1>5
<1>7. P(f)
  <2>1. \A n \in 0..N : n # 0 => n \in 1..N
    BY <1>1
  <2> QED BY <1>4, <1>6, <2>1
<1>8. P(CHOOSE h : P(h))
  BY <1>7
<1> DEFINE h == CHOOSE c : P(c)
<1>9. h = [n \in 0..N |-> IF n = 0 THEN v ELSE ValidateEvent(h[n - 1], log[n])]
  BY <1>8
<1> HIDE DEF h, P
<1>10. h[0] = v /\ \A n \in 1..N : h[n] = ValidateEvent(h[n - 1], log[n])
  <2>1. 0 \in 0..N /\ \A n \in 1..N : n \in 0..N /\ n # 0
    BY <1>1
  <2> QED BY <1>9, <2>1
(* The two agree, so h has the same values. *)
<1> DEFINE Bad == {n \in 0..N : h[n] # f[n]}
<1>11. Bad = {}
  <2>1. SUFFICES ASSUME Bad # {} PROVE FALSE
    OBVIOUS
  <2>2. Bad \subseteq Nat
    OBVIOUS
  <2>3. PICK m \in Bad : \A y \in Bad : m <= y
    <3> HIDE DEF Bad
    <3> QED BY <2>1, <2>2, LeastOf
  <2>4. m \in 0..N /\ h[m] # f[m]
    OBVIOUS
  <2>5. m \in 1..N
    BY <1>4, <1>10, <2>4
  <2>6. m - 1 \in 0..N /\ ~(m <= m - 1)
    BY <1>1, <2>5
  <2>7. h[m - 1] = f[m - 1]
    BY <2>3, <2>6
  <2> QED BY <1>6, <1>10, <2>4, <2>5, <2>7
<1>12. N \in 0..N
  BY <1>1
<1>13. h[N] = f[N]
  BY <1>11, <1>12
<1>14. Read(v, log) = f[N]
  BY <1>2, <1>13 DEF h
<1> QED BY <1>4, <1>6, <1>14 DEF N

LEMMA ConsumeType ==
  ASSUME NEW v \in Validators, NEW log \in Seq(Event(Ids))
  PROVE  Consume(v, log) \in Validators
<1>1. Len(log) \in Nat
  BY LenProperties
<1>2. Len(log) \in 0..Len(log)
  BY <1>1
<1>3. Read(v, log) \in Validators
  BY <1>2, ReadSteps
<1> DEFINE end == Read(v, log)
<1>4. Consume(v, log) = [end EXCEPT !.ok = @ /\ end.active = NoSession]
  BY DEF Consume
<1>5. end \in Validators
  BY <1>3
<1> HIDE DEF end
<1> QED BY <1>4, <1>5 DEF Validators

(* Reading the logs of a run one by one. *)
LEMMA AcceptSteps ==
  ASSUME NEW ls \in Seq(Seq(Event(Ids)))
  PROVE  \E f \in [0..Len(ls) -> Validators] :
           /\ f[0] = NewValidator
           /\ \A n \in 1..Len(ls) : f[n] = Consume(f[n - 1], ls[n])
           /\ Accepted(ls) <=> f[Len(ls)].ok
<1> DEFINE N == Len(ls)
<1> DEFINE v == NewValidator
<1> DEFINE g == [n \in 1..N |-> [w \in Validators |-> Consume(w, ls[n])]]
<1> DEFINE P(f) == f = [n \in 0..N |-> IF n = 0 THEN v ELSE Consume(f[n - 1], ls[n])]
<1>1. N \in Nat /\ \A n \in 1..N : ls[n] \in Seq(Event(Ids))
  <2> DEFINE S == Seq(Event(Ids))
  <2>1. ls \in Seq(S)
    OBVIOUS
  <2> HIDE DEF S
  <2>2. N \in Nat /\ \A n \in 1..N : ls[n] \in S
    BY <2>1, LenProperties, ElementOfSeq
  <2> QED BY <2>2 DEF S
<1>2. Accepted(ls) <=> (CHOOSE f : P(f))[N].ok
  BY DEF Accepted
<1>3. v \in Validators
  BY CollectorAssumption DEF NewValidator, Validators, Ids, NoSession
<1> HIDE DEF N, v
<1>4. \A n \in 1..N : \A w \in Validators : g[n][w] \in Validators
  BY <1>1, ConsumeType
<1>5. PICK f \in [0..N -> Validators] : f[0] = v /\ \A n \in 1..N : f[n] = g[n][f[n - 1]]
  <2>1. N \in Nat /\ v \in Validators
    BY <1>3, <1>1
  <2> HIDE DEF g, P
  <2>2. Keeps(N, Validators, g)
    BY <1>4 DEF Keeps
  <2>3. Courses(N, Validators, v, g) # {}
    BY <2>1, <2>2, Stepwise
  <2> QED BY <2>3 DEF Courses
<1>6. \A n \in 1..N : n - 1 \in 0..N
  BY <1>1
<1>7. \A n \in 1..N : f[n] = Consume(f[n - 1], ls[n])
  BY <1>5, <1>6
<1>8. P(f)
  <2>1. \A n \in 0..N : n # 0 => n \in 1..N
    BY <1>1
  <2> QED BY <1>5, <1>7, <2>1
<1>9. P(CHOOSE h : P(h))
  BY <1>8
<1> DEFINE h == CHOOSE c : P(c)
<1>10. h = [n \in 0..N |-> IF n = 0 THEN v ELSE Consume(h[n - 1], ls[n])]
  BY <1>9
<1> HIDE DEF h, P
<1>11. h[0] = v /\ \A n \in 1..N : h[n] = Consume(h[n - 1], ls[n])
  <2>1. 0 \in 0..N /\ \A n \in 1..N : n \in 0..N /\ n # 0
    BY <1>1
  <2> QED BY <1>10, <2>1
<1> DEFINE Bad == {n \in 0..N : h[n] # f[n]}
<1>12. Bad = {}
  <2>1. SUFFICES ASSUME Bad # {} PROVE FALSE
    OBVIOUS
  <2>2. Bad \subseteq Nat
    OBVIOUS
  <2>3. PICK m \in Bad : \A y \in Bad : m <= y
    <3> HIDE DEF Bad
    <3> QED BY <2>1, <2>2, LeastOf
  <2>4. m \in 0..N /\ h[m] # f[m]
    OBVIOUS
  <2>5. m \in 1..N
    BY <1>5, <1>11, <2>4
  <2>6. m - 1 \in 0..N /\ ~(m <= m - 1)
    BY <1>1, <2>5
  <2>7. h[m - 1] = f[m - 1]
    BY <2>3, <2>6
  <2> QED BY <1>7, <1>11, <2>4, <2>5, <2>7
<1>13. N \in 0..N
  BY <1>1
<1>14. h[N] = f[N]
  BY <1>12, <1>13
<1>15. Accepted(ls) <=> f[N].ok
  BY <1>2, <1>14 DEF h
<1> QED BY <1>5, <1>7, <1>15 DEF N, v

(* A complete log of a session not seen before leaves no session open and   *)
(* no error.                                                                *)
LEMMA ReadsComplete ==
  ASSUME NEW v \in Validators, NEW log \in Seq(Event(Ids)), Complete(log),
         v.ok, v.active = NoSession, log[1].session \notin v.seen
  PROVE  /\ Consume(v, log) \in Validators
         /\ Consume(v, log).ok /\ Consume(v, log).active = NoSession
         /\ Consume(v, log).seen = v.seen \cup {log[1].session}
<1> DEFINE N == Len(log)
<1> DEFINE s == log[1].session
<1>1. PICK f \in [0..N -> Validators] :
        /\ f[0] = v
        /\ \A n \in 1..N : f[n] = ValidateEvent(f[n - 1], log[n])
        /\ Read(v, log) = f[N]
  BY ReadSteps
<1>2. N \in Nat /\ N >= 1 /\ s # NoSession /\ s \notin v.seen
  BY LenProperties DEF Complete
<1>3. \A n \in 1..N : /\ ValidPayload(log[n]) /\ log[n].session = s
                      /\ log[n].kind = "session_start" <=> n = 1
                      /\ log[n].kind = "session_end" <=> n = N
  BY DEF Complete
<1> HIDE DEF N, s
<1> DEFINE Holds(n) == /\ f[n].ok /\ f[n].seen = v.seen \cup {s}
                       /\ f[n].active = IF n = N THEN NoSession ELSE s
<1> DEFINE Bad == {n \in 1..N : ~Holds(n)}
<1>4. Bad = {}
  <2>1. SUFFICES ASSUME Bad # {} PROVE FALSE
    OBVIOUS
  <2>2. Bad \subseteq Nat
    OBVIOUS
  <2>3. PICK m \in Bad : \A y \in Bad : m <= y
    <3> HIDE DEF Bad
    <3> QED BY <2>1, <2>2, LeastOf
  <2>4. m \in 1..N /\ ~Holds(m) /\ m \in Nat
    OBVIOUS
  <2>5. /\ m - 1 \in 0..N /\ ~(m <= m - 1) /\ m - 1 # N
        /\ (m # 1 => m - 1 \in 1..N)
    BY <1>2, <2>4
  <2>6. f[m] = ValidateEvent(f[m - 1], log[m]) /\ f[m - 1] \in Validators
    BY <1>1, <2>4, <2>5
  <2>7. /\ ValidPayload(log[m]) /\ log[m].session = s
        /\ log[m].kind = "session_start" <=> m = 1
        /\ log[m].kind = "session_end" <=> m = N
    BY <1>3, <2>4
  <2>8. CASE m = 1
    <3>1. f[m - 1] = v /\ log[m].kind = "session_start" /\ m # N
      <4>1. log[m].kind = "session_start"
        BY <2>7, <2>8
      <4>2. log[m].kind # "session_end"
        BY <4>1
      <4> QED BY <1>1, <2>7, <2>8, <4>1, <4>2
    <3>2. v.ok /\ ValidEvent(v, log[m])
      BY <1>2, <2>7, <3>1 DEF ValidEvent
    <3>3. f[m] = [v EXCEPT !.active = s, !.seen = @ \cup {s}]
      BY <2>6, <2>7, <3>1, <3>2 DEF ValidateEvent
    <3>4. Holds(m)
      BY <3>1, <3>2, <3>3 DEF Validators
    <3> QED BY <2>4, <3>4
  <2>9. CASE m # 1
    <3>1. m - 1 \notin Bad
      BY <2>3, <2>5
    <3>2. Holds(m - 1)
      BY <2>5, <2>9, <3>1
    <3> DEFINE w == f[m - 1]
    <3>3. w \in Validators /\ w.ok /\ w.seen = v.seen \cup {s} /\ w.active = s
      BY <2>5, <2>6, <3>2
    <3>4. log[m].kind # "session_start"
      BY <2>7, <2>9
    <3> HIDE DEF w
    <3>5. ValidEvent(w, log[m])
      BY <1>2, <2>7, <3>3, <3>4 DEF ValidEvent
    <3>6. f[m] = IF m = N THEN [w EXCEPT !.active = NoSession] ELSE w
      <4>1. f[m] = ValidateEvent(w, log[m])
        BY <2>6 DEF w
      <4> QED BY <2>7, <3>3, <3>4, <3>5, <4>1 DEF ValidateEvent
    <3>7. Holds(m)
      BY <3>3, <3>6 DEF Validators
    <3> QED BY <2>4, <3>7
  <2> QED BY <2>8, <2>9
<1>5. N \in 1..N /\ N \in 0..N
  BY <1>2
<1>6. Holds(N)
  BY <1>4, <1>5
<1> DEFINE end == Read(v, log)
<1>7. /\ end \in Validators /\ end.ok /\ end.seen = v.seen \cup {s} /\ end.active = NoSession
  BY <1>1, <1>5, <1>6
<1>8. Consume(v, log) = [end EXCEPT !.ok = @ /\ end.active = NoSession]
  BY DEF Consume
<1> HIDE DEF end
<1>9. Consume(v, log) = end
  BY <1>7, <1>8 DEF Validators
<1> QED BY <1>7, <1>9 DEF s

(* Complete logs of different sessions are accepted. *)
LEMMA AcceptsComplete ==
  ASSUME NEW ls \in Seq(Seq(Event(Ids))),
         \A i \in 1..Len(ls) : Complete(ls[i]),
         \A i, j \in 1..Len(ls) : i # j => ls[i][1].session # ls[j][1].session
  PROVE  Accepted(ls)
<1> DEFINE N == Len(ls)
<1> DEFINE Started(n) == {ls[i][1].session : i \in 1..n}
<1>1. PICK f \in [0..N -> Validators] :
        /\ f[0] = NewValidator
        /\ \A n \in 1..N : f[n] = Consume(f[n - 1], ls[n])
        /\ Accepted(ls) <=> f[N].ok
  BY AcceptSteps
<1>2. N \in Nat /\ \A n \in 1..N : ls[n] \in Seq(Event(Ids))
  <2> DEFINE S == Seq(Event(Ids))
  <2>1. ls \in Seq(S)
    OBVIOUS
  <2> HIDE DEF S
  <2>2. N \in Nat /\ \A n \in 1..N : ls[n] \in S
    BY <2>1, LenProperties, ElementOfSeq
  <2> QED BY <2>2 DEF S
<1>3. /\ \A i \in 1..N : Complete(ls[i])
      /\ \A i, j \in 1..N : i # j => ls[i][1].session # ls[j][1].session
  OBVIOUS
<1> HIDE DEF N
<1> DEFINE Holds(n) == f[n].ok /\ f[n].active = NoSession /\ f[n].seen = Started(n)
<1> DEFINE Bad == {n \in 0..N : ~Holds(n)}
<1>4. Bad = {}
  <2>1. SUFFICES ASSUME Bad # {} PROVE FALSE
    OBVIOUS
  <2>2. Bad \subseteq Nat
    OBVIOUS
  <2>3. PICK m \in Bad : \A y \in Bad : m <= y
    <3> HIDE DEF Bad
    <3> QED BY <2>1, <2>2, LeastOf
  <2>4. m \in 0..N /\ ~Holds(m) /\ m \in Nat
    OBVIOUS
  <2>5. CASE m = 0
    <3>1. f[m] = NewValidator
      BY <1>1, <2>5
    <3>2. Started(m) = {}
      BY <2>5
    <3> HIDE DEF Started
    <3>3. Holds(m)
      BY <3>1, <3>2 DEF NewValidator
    <3> QED BY <2>4, <3>3
  <2>6. CASE m # 0
    <3>1. m \in 1..N /\ m - 1 \in 0..N /\ ~(m <= m - 1)
      BY <1>2, <2>4, <2>6
    <3>2. m - 1 \notin Bad
      BY <2>3, <3>1
    <3> DEFINE w == f[m - 1]
    <3>3. w \in Validators /\ w.ok /\ w.active = NoSession /\ w.seen = Started(m - 1)
      BY <3>1, <3>2
    <3>4. \A i \in 1..m - 1 : i \in 1..N /\ i # m
      <4>1. N \in Nat /\ m \in 1..N
        BY <1>2, <3>1
      <4> HIDE DEF Bad, Holds
      <4> QED BY <4>1
    <3>5. ls[m][1].session \notin Started(m - 1)
      BY <1>3, <3>1, <3>4
    <3>6. \A i \in 1..m : i \in 1..m - 1 \/ i = m
      BY <3>1
    <3>7. \A i \in 1..m - 1 : i \in 1..m
      BY <3>1
    <3>8. m \in 1..m
      BY <3>1
    <3>9. Started(m) = Started(m - 1) \cup {ls[m][1].session}
      BY <3>6, <3>7, <3>8
    <3>10. ls[m] \in Seq(Event(Ids)) /\ Complete(ls[m]) /\ f[m] = Consume(w, ls[m])
      BY <1>1, <1>2, <1>3, <3>1
    <3> DEFINE log == ls[m]
    <3> HIDE DEF w, Started, log
    <3>11. /\ w \in Validators /\ log \in Seq(Event(Ids)) /\ Complete(log)
           /\ w.ok /\ w.active = NoSession /\ log[1].session \notin w.seen
      BY <3>3, <3>5, <3>10 DEF log
    <3>12. /\ Consume(w, log).ok /\ Consume(w, log).active = NoSession
           /\ Consume(w, log).seen = w.seen \cup {log[1].session}
      BY <3>11, ReadsComplete
    <3>13. Holds(m)
      BY <3>3, <3>9, <3>10, <3>12 DEF log
    <3> QED BY <2>4, <3>13
  <2> QED BY <2>5, <2>6
<1>5. N \in 0..N
  BY <1>2
<1>6. Holds(N)
  BY <1>4, <1>5
<1> QED BY <1>1, <1>6

-----------------------------------------------------------------------------
(* The invariant and the properties *)

LEMMA InitIInv == Init => IInv
<1> SUFFICES ASSUME Init PROVE IInv
  OBVIOUS
<1> DEFINE S == Seq(Event(Ids))
<1>1. <<>> \in S /\ <<>> \in Seq(S) /\ Len(<<>>) = 0
  OBVIOUS
<1>2. NoInput \in [sequence : SUBSET Nat, text : SUBSET Nat, control : [Buckets -> SUBSET Nat]]
  BY DEF NoInput
<1>3. 0 \in Ids /\ MaxFaults \in 0..MaxFaults
  BY CollectorAssumption DEF Ids
<1> HIDE DEF S
<1>4. col \in ColState
  BY <1>1, <1>2, <1>3 DEF Init, ColState, Errors, S
<1>5. Blank(col) /\ ~col.in_callback /\ col.state = "stopped"
  BY <1>4 DEF Init, Blank
<1>6. Counters
  BY <1>1, CollectorAssumption DEF Init, Counters, S
<1>7. LogsAreComplete
  BY <1>1, <1>5 DEF Init, LogsAreComplete
<1> QED BY <1>4, <1>5, <1>6, <1>7 DEF IInv, Blank

LEMMA StutterSafe == IInv /\ UNCHANGED vars => Safe
<1> SUFFICES ASSUME IInv, UNCHANGED vars PROVE Safe
  OBVIOUS
<1>1. /\ col' = col /\ logs' = logs /\ pressed' = pressed /\ calls' = calls
      /\ next_session' = next_session
  BY DEF vars
<1>2. IInv'
  BY <1>1 DEF IInv, Counters, LogsAreComplete, Complete
<1>3. Kept' = Kept
  BY <1>1 DEF Kept
<1> QED BY <1>2, <1>3 DEF Safe

(* Every step keeps the invariant and loses no key silently. *)
LEMMA StepSafe == IInv /\ [Next]_vars => Safe
<1> SUFFICES ASSUME IInv, [Next]_vars PROVE Safe
  OBVIOUS
<1>1. CASE OnKey
  BY <1>1, OnKeySafe
<1>2. CASE Deferred
  BY <1>2, RunDeferredSafe DEF Deferred
<1>3. CASE Start
  BY <1>3, StartSafe
<1>4. CASE Resume
  BY <1>4, ResumeSafe
<1>5. CASE Pause
  BY <1>5, PauseSafe
<1>6. CASE Stop
  BY <1>6, StopSafe
<1>7. CASE Flush
  BY <1>7, FlushSafe
<1>8. CASE UNCHANGED vars
  BY <1>8, StutterSafe
<1> QED BY <1>1, <1>2, <1>3, <1>4, <1>5, <1>6, <1>7, <1>8 DEF Next

(* Whatever is typed and called, and whatever fails, the queue, the batch   *)
(* in progress and the file together are the log of the session so far.     *)
THEOREM Consistent == Spec => []IInv
<1>1. IInv /\ [Next]_vars => IInv'
  BY StepSafe DEF Safe
<1> QED BY <1>1, InitIInv, PTL DEF Spec

(* The collector's fields keep their types, its queue stays within          *)
(* MAX_PENDING_EVENTS, a batch that a write left unfinished has something   *)
(* left to write, and a stopped collector holds nothing.                    *)
THEOREM TypeCorrect == Spec => []TypeOK
<1>1. ASSUME IInv PROVE TypeOK
  <2>1. /\ col \in ColState /\ ~col.in_callback
        /\ pressed \in 0..MaxKeys /\ calls \in 0..MaxCalls
        /\ next_session \in 1..MaxSessions + 1
        /\ col.state = "stopped" => Blank(col)
        /\ col.state # "stopped" => BatchIsBegun(col)
    BY <1>1 DEF IInv, Counters, Good, Sound
  <2>2. BatchIsBegun(col)
    <3>1. CASE col.state = "stopped"
      <4>1. /\ col.pending = <<>> /\ col.payload = None /\ col.consumed = 0
        BY <2>1, <3>1 DEF Blank
      <4> QED BY <4>1, CollectorAssumption DEF BatchIsBegun
    <3> QED BY <2>1, <3>1
  <2>3. /\ Len(col.pending) <= MaxPending
        /\ col.payload = None => col.consumed = 0
        /\ col.payload # None => col.consumed < Len(col.payload)
    BY <2>2 DEF BatchIsBegun
  <2>4. col.payload # None => col.consumed \in 0..Len(col.payload) - 1
    <3> SUFFICES ASSUME col.payload # None PROVE col.consumed \in 0..Len(col.payload) - 1
      OBVIOUS
    <3>1. col.payload \in Seq(Event(Ids)) /\ col.consumed \in Nat
      BY <2>1 DEF ColState
    <3>2. Len(col.payload) \in Nat
      BY <3>1, LenProperties
    <3> QED BY <2>3, <3>1, <3>2
  <2>5. col.state = "stopped" => /\ col.pending = <<>> /\ col.payload = None
                                 /\ col.input = NoInput /\ ~col.scheduled
    BY <2>1 DEF Blank
  <2> QED BY <2>1, <2>3, <2>4, <2>5 DEF TypeOK
<1> QED BY <1>1, Consistent, PTL

(* Every key of a sequence or a text run is written once and in the order   *)
(* typed, however often a write failed and was tried again.                 *)
THEOREM KeysWrittenInOrder == Spec => []WrittenOnceInOrder
<1>1. ASSUME IInv PROVE WrittenOnceInOrder
  <2> DEFINE trail == Trail(col)
  <2>1. CASE col.state = "stopped"
    <3>1. col \in ColState /\ Blank(col)
      BY <1>1, <2>1 DEF IInv
    <3>2. BatchIsBegun(col) /\ Len(col.file) = 0 /\ Len(col.pending) = 0 /\ col.consumed = 0
      BY <3>1, CollectorAssumption DEF BatchIsBegun, Blank
    <3>3. Len(trail) = 0 /\ trail \in Seq(Event(Ids))
      BY <3>1, <3>2, TrailType
    <3> HIDE DEF trail
    <3>4. DOMAIN trail = {}
      BY <3>3, LenProperties
    <3> QED BY <3>4 DEF WrittenOnceInOrder, trail
  <2>2. CASE col.state # "stopped"
    <3>1. Good(col, pressed + 1)
      BY <1>1, <2>2 DEF IInv
    <3>2. trail \in Seq(Event(Ids))
      BY <3>1, TrailType DEF Good, Sound
    <3>3. /\ \A i, j \in 1..Len(trail) : i < j /\ Typed(trail[i]) /\ Typed(trail[j]) =>
               \A l \in trail[i].keys, m \in trail[j].keys : l < m
          /\ \A i \in 1..Len(trail) : Typed(trail[i]) =>
               \A l \in trail[i].keys : \A m \in Held(col) : l < m
      BY <3>1 DEF Good, InOrder
    <3> HIDE DEF trail
    <3>4. DOMAIN trail = 1..Len(trail)
      BY <3>2, LenProperties
    <3> QED BY <3>3, <3>4 DEF WrittenOnceInOrder, Held, trail
  <2> QED BY <2>1, <2>2
<1> QED BY <1>1, Consistent, PTL

(* A key that the collector holds, in memory or on disk, is held after      *)
(* every step, unless the step reports that the queue's limit was reached.  *)
THEOREM LossIsReported == Spec => NothingLostSilently
<1>1. IInv /\ [Next]_vars => [Kept \subseteq Kept' \/ col'.error = "limit"]_vars
  BY StepSafe DEF Safe
<1> QED BY <1>1, Consistent, PTL DEF Spec, NothingLostSilently

(* The analyzer accepts the logs of any number of sessions that one         *)
(* collector published: each starts and ends its session once.              *)
THEOREM LogsAreAccepted == Spec => []PublishedIsValid
<1>1. ASSUME IInv PROVE PublishedIsValid
  <2>1. /\ logs \in Seq(Seq(Event(Ids)))
        /\ \A i \in 1..Len(logs) : Complete(logs[i])
        /\ \A i, j \in 1..Len(logs) : i # j => logs[i][1].session # logs[j][1].session
    BY <1>1 DEF IInv, Counters, LogsAreComplete
  <2>2. Accepted(logs)
    BY <2>1, AcceptsComplete
  <2> QED BY <2>2 DEF PublishedIsValid
<1> QED BY <1>1, Consistent, PTL
=============================================================================
