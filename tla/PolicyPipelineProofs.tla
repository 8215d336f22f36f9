------------------------ MODULE PolicyPipelineProofs ------------------------
(***************************************************************************)
(* Proofs about PolicyPipeline for every number of joints, delay, filter   *)
(* window and policy period.                                               *)
(***************************************************************************)
EXTENDS PolicyPipeline, SequenceTheorems, TLAPS

-----------------------------------------------------------------------------
(* The last elements of a sequence                                         *)

LEMMA LastUpToElements ==
  ASSUME NEW k \in Nat, NEW s \in Seq(Nat)
  PROVE  /\ LastUpTo(k, s) \in Seq(Nat)
         /\ Len(LastUpTo(k, s)) = IF Len(s) <= k THEN Len(s) ELSE k
         /\ \A i \in 1..Len(LastUpTo(k, s)) :
              LastUpTo(k, s)[i] = s[Len(s) - Len(LastUpTo(k, s)) + i]
PROOF
<1>1. CASE Len(s) <= k
  BY <1>1 DEF LastUpTo
<1>2. CASE Len(s) > k
  <2> DEFINE t == SubSeq(s, Len(s) - k + 1, Len(s))
  <2>1. LastUpTo(k, s) = t
    BY <1>2 DEF LastUpTo
  <2>2. t \in Seq(Nat) /\ Len(t) = k
    BY <1>2
  <2>3. \A i \in 1..k : t[i] = s[Len(s) - k + i]
    BY <1>2
  <2> HIDE DEF t
  <2> QED
    BY <1>2, <2>1, <2>2, <2>3
<1> QED
  BY <1>1, <1>2

\* A sequence of natural numbers is what LastUpTo gives when it has the length
\* and the elements.
LEMMA IsLastUpTo ==
  ASSUME NEW k \in Nat, NEW s \in Seq(Nat), NEW t \in Seq(Nat),
         Len(t) = IF Len(s) <= k THEN Len(s) ELSE k,
         \A i \in 1..Len(t) : t[i] = s[Len(s) - Len(t) + i]
  PROVE  t = LastUpTo(k, s)
PROOF
<1> DEFINE u == LastUpTo(k, s)
<1>1. /\ u \in Seq(Nat)
      /\ Len(u) = IF Len(s) <= k THEN Len(s) ELSE k
      /\ \A i \in 1..Len(u) : u[i] = s[Len(s) - Len(u) + i]
  BY LastUpToElements
<1> HIDE DEF u
<1>2. Len(t) = Len(u)
  BY <1>1
<1>3. \A i \in 1..Len(t) : t[i] = u[i]
  BY <1>1, <1>2
<1>4. t = u
  BY <1>1, <1>2, <1>3, SeqEqual
<1> QED
  BY <1>4 DEF u

\* Keeping the last k of what was kept and one more is keeping the last k.
LEMMA LastUpToAppend ==
  ASSUME NEW k \in Nat, k > 0, NEW s \in Seq(Nat), NEW x \in Nat
  PROVE  LET kept == Append(LastUpTo(k, s), x)
         IN /\ Len(kept) <= k => kept = LastUpTo(k, Append(s, x))
            /\ Len(kept) > k => Tail(kept) = LastUpTo(k, Append(s, x))
            /\ LastUpTo(k, kept) = LastUpTo(k, Append(s, x))
PROOF
<1> DEFINE u == LastUpTo(k, s)
           kept == Append(u, x)
           longer == Append(s, x)
<1>1. /\ u \in Seq(Nat) /\ Len(u) = IF Len(s) <= k THEN Len(s) ELSE k
      /\ \A i \in 1..Len(u) : u[i] = s[Len(s) - Len(u) + i]
  BY LastUpToElements
<1> HIDE DEF u
<1>2. /\ kept \in Seq(Nat) /\ Len(kept) = Len(u) + 1
      /\ longer \in Seq(Nat) /\ Len(longer) = Len(s) + 1
  BY <1>1
<1>3. \A i \in 1..Len(kept) : kept[i] = longer[Len(longer) - Len(kept) + i]
  <2> TAKE i \in 1..Len(kept)
  <2> DEFINE gap == Len(s) - Len(u)
  <2>1. gap \in Nat /\ Len(longer) - Len(kept) + i = gap + i /\ Len(u) \in Nat
    BY <1>1, <1>2
  <2>2. CASE i \in 1..Len(u)
    <3>1. kept[i] = u[i]
      BY <1>1, <2>2, AppendProperties
    <3>2. u[i] = s[gap + i]
      BY <1>1, <2>2
    <3>3. Len(s) \in Nat /\ Len(u) \in Nat /\ Len(u) <= Len(s)
      BY <1>1
    <3>4. gap + i \in 1..Len(s)
      BY <2>2, <3>3
    <3>5. longer[gap + i] = s[gap + i]
      BY <3>4, AppendProperties
    <3> QED
      BY <2>1, <3>1, <3>2, <3>5
  <2>3. CASE i = Len(u) + 1
    <3>1. kept[i] = x
      BY <1>1, <2>3, AppendProperties
    <3>2. gap + i = Len(s) + 1
      BY <2>1, <2>3
    <3>3. longer[gap + i] = x
      BY <3>2, AppendProperties
    <3> QED
      BY <2>1, <3>1, <3>3
  <2>4. i \in 1..Len(u) \/ i = Len(u) + 1
    BY <1>2, <2>1
  <2> QED
    BY <2>2, <2>3, <2>4
<1> HIDE DEF kept, longer
<1> Len(kept) \in Nat /\ Len(longer) \in Nat /\ Len(u) \in Nat /\ Len(s) \in Nat
  BY <1>1, <1>2
<1>4. ASSUME Len(kept) <= k PROVE kept = LastUpTo(k, longer)
  <2>1. Len(kept) = IF Len(longer) <= k THEN Len(longer) ELSE k
    BY <1>1, <1>2, <1>4
  <2> QED
    BY <1>2, <1>3, <2>1, IsLastUpTo
<1>5. ASSUME Len(kept) > k PROVE Tail(kept) = LastUpTo(k, longer)
  <2>1. /\ Tail(kept) \in Seq(Nat) /\ Len(Tail(kept)) = k
        /\ Len(kept) = k + 1 /\ Len(longer) > k
    BY <1>1, <1>2, <1>5
  <2> Len(kept) = k + 1
    BY <2>1
  <2>2. \A i \in 1..k : Tail(kept)[i] = kept[i + 1]
    BY <1>2, <2>1
  <2>3. \A i \in 1..k : Tail(kept)[i] = longer[Len(longer) - k + i]
    <3> TAKE i \in 1..k
    <3>1. /\ i + 1 \in 1..Len(kept)
          /\ Len(longer) - Len(kept) + (i + 1) = Len(longer) - k + i
      OBVIOUS
    <3>2. kept[i + 1] = longer[Len(longer) - Len(kept) + (i + 1)]
      BY <1>3, <3>1
    <3> QED
      BY <2>2, <3>1, <3>2
  <2>4. Len(Tail(kept)) = IF Len(longer) <= k THEN Len(longer) ELSE k
    BY <1>2, <2>1
  <2>5. \A i \in 1..Len(Tail(kept)) :
          Tail(kept)[i] = longer[Len(longer) - Len(Tail(kept)) + i]
    BY <2>1, <2>3
  <2> DEFINE rest == Tail(kept)
  <2> HIDE DEF rest
  <2>6. rest = LastUpTo(k, longer)
    BY <1>2, <2>1, <2>4, <2>5, IsLastUpTo DEF rest
  <2> QED
    BY <2>6 DEF rest
<1>6. LastUpTo(k, kept) = LastUpTo(k, longer)
  <2> DEFINE v == LastUpTo(k, kept)
  <2>1. /\ v \in Seq(Nat) /\ Len(v) = IF Len(kept) <= k THEN Len(kept) ELSE k
        /\ \A i \in 1..Len(v) : v[i] = kept[Len(kept) - Len(v) + i]
    BY <1>2, LastUpToElements
  <2> HIDE DEF v
  <2>2. Len(v) = IF Len(longer) <= k THEN Len(longer) ELSE k
    BY <1>1, <1>2, <2>1
  <2>3. \A i \in 1..Len(v) : v[i] = longer[Len(longer) - Len(v) + i]
    <3> TAKE i \in 1..Len(v)
    <3> DEFINE at == Len(kept) - Len(v) + i
    <3> Len(v) \in Nat /\ i \in Nat /\ Len(v) <= Len(kept)
      BY <2>1
    <3>1. at \in 1..Len(kept)
      OBVIOUS
    <3>2. v[i] = kept[at] /\ kept[at] = longer[Len(longer) - Len(kept) + at]
      BY <1>3, <2>1, <3>1
    <3>3. Len(longer) - Len(kept) + at = Len(longer) - Len(v) + i
      OBVIOUS
    <3> QED
      BY <3>2, <3>3
  <2>4. v = LastUpTo(k, longer)
    BY <1>2, <2>1, <2>2, <2>3, IsLastUpTo
  <2> QED
    BY <2>4 DEF v
<1> QED
  BY <1>4, <1>5, <1>6 DEF kept, u, longer

LEMMA RangeOfAppend ==
  ASSUME NEW s \in Seq(Nat), NEW x \in Nat
  PROVE  /\ Range(s) \in SUBSET Nat
         /\ Range(Append(s, x)) = Range(s) \cup {x}
PROOF
<1>1. Range(s) \in SUBSET Nat
  BY DEF Range
<1>2. /\ DOMAIN Append(s, x) = DOMAIN s \cup {Len(s) + 1}
      /\ Append(s, x)[Len(s) + 1] = x
      /\ \A i \in DOMAIN s : Append(s, x)[i] = s[i]
  BY AppendProperties
<1> DEFINE longer == Append(s, x)
<1> HIDE DEF longer
<1>3. Range(longer) = Range(s) \cup {x}
  BY <1>2 DEF Range, longer
<1> QED
  BY <1>1, <1>3 DEF longer

-----------------------------------------------------------------------------
(* The two buffers, step by step                                           *)

\* Where the buffer's first element is among the samples.
LEMMA PlaceOfOldest ==
  ASSUME NEW d \in Nat, d > 0, NEW m \in Nat, m > 0, NEW n \in Nat, n = m + 1,
         NEW b \in Nat, b = IF m <= d THEN m ELSE d
  PROVE  /\ (IF n <= d THEN 1 ELSE n - d) = m - b + 1
         /\ m - b + 1 \in 1..m
PROOF
  OBVIOUS

\* One more sample: the buffer keeps the last `delay` of them and gives the one
\* that many samples ago, or the first.
LEMMA PushAndGetDelays ==
  ASSUME delay \in Nat, buffer \in Seq(Nat), samples \in Seq(Nat),
         BufferMatchesSamples, NEW sample \in Nat, PushAndGet(sample),
         samples' = Append(samples, sample)
  PROVE  /\ buffer' \in Seq(Nat)
         /\ buffer' = LastUpTo(delay, samples')
         /\ observed' \in Nat
         /\ observed' = samples'[IF Len(samples') <= delay
                                   THEN 1 ELSE Len(samples') - delay]
PROOF
<1> DEFINE pushed == Append(buffer, sample)
<1>1. /\ samples' \in Seq(Nat) /\ Len(samples') = Len(samples) + 1
      /\ samples'[Len(samples) + 1] = sample
      /\ \A i \in 1..Len(samples) : samples'[i] = samples[i]
  BY AppendProperties
<1>2. CASE delay = 0
  <2>1. buffer = LastUpTo(0, samples) /\ buffer' = buffer /\ observed' = sample
    BY <1>2 DEF PushAndGet, BufferMatchesSamples
  <2>2. Len(buffer) = 0
    BY <2>1, LastUpToElements
  <2>3. /\ buffer' \in Seq(Nat)
        /\ Len(buffer') = IF Len(samples') <= 0 THEN Len(samples') ELSE 0
        /\ 1..Len(buffer') = {}
    BY <1>1, <2>1, <2>2
  <2>4. buffer' = LastUpTo(0, samples')
    BY <1>1, <2>3, IsLastUpTo
  <2> QED
    BY <1>1, <1>2, <2>1, <2>3, <2>4
<1>3. CASE delay > 0
  <2>1. /\ observed' = Head(pushed)
        /\ buffer' = IF Len(pushed) <= delay THEN pushed ELSE Tail(pushed)
    BY <1>3 DEF PushAndGet
  <2>2. /\ Len(buffer) = IF Len(samples) <= delay THEN Len(samples) ELSE delay
        /\ \A i \in 1..Len(buffer) :
             buffer[i] = samples[Len(samples) - Len(buffer) + i]
    BY LastUpToElements DEF BufferMatchesSamples
  <2>3. pushed \in Seq(Nat) /\ Len(pushed) = Len(buffer) + 1
    BY AppendProperties
  <2>4. buffer' = LastUpTo(delay, samples')
    <3> DEFINE kept == Append(LastUpTo(delay, samples), sample)
    <3>1. pushed = kept
      BY DEF BufferMatchesSamples
    <3>2. /\ Len(kept) <= delay => kept = LastUpTo(delay, Append(samples, sample))
          /\ Len(kept) > delay =>
               Tail(kept) = LastUpTo(delay, Append(samples, sample))
      BY <1>3, LastUpToAppend
    <3> HIDE DEF pushed, kept
    <3> QED
      BY <2>1, <2>3, <3>1, <3>2
  <2>5. buffer' \in Seq(Nat)
    BY <1>1, <2>4, LastUpToElements
  <2>6. CASE Len(samples) = 0
    <3>1. pushed[1] = sample
      BY <2>2, <2>6, AppendProperties
    <3> QED
      BY <1>1, <1>3, <2>1, <2>3, <2>4, <2>5, <2>6, <3>1
  <2>7. CASE Len(samples) > 0
    <3>1. pushed[1] = buffer[1]
      BY <1>3, <2>2, <2>7, AppendProperties
    <3> Len(samples) \in Nat /\ Len(buffer) \in Nat /\ Len(buffer) > 0
      BY <1>3, <2>2, <2>7
    <3>2. buffer[1] = samples[Len(samples) - Len(buffer) + 1]
      <4>1. 1 \in 1..Len(buffer)
        OBVIOUS
      <4> QED
        BY <2>2, <4>1, Zenon
    <3> DEFINE at == IF Len(samples') <= delay THEN 1 ELSE Len(samples') - delay
    <3>3. at = Len(samples) - Len(buffer) + 1 /\ at \in 1..Len(samples)
      <4>1. /\ Len(samples') = Len(samples) + 1
            /\ Len(buffer) = IF Len(samples) <= delay THEN Len(samples)
                                                     ELSE delay
        BY <1>1, <2>2
      <4>2. Len(samples') \in Nat
        BY <4>1
      <4> DEFINE m == Len(samples)
                 n == Len(samples')
                 b == Len(buffer)
      <4>3. /\ m \in Nat /\ m > 0 /\ n \in Nat /\ n = m + 1 /\ b \in Nat
            /\ b = IF m <= delay THEN m ELSE delay
        BY <2>7, <4>1, <4>2
      <4> HIDE DEF m, n, b
      <4>4. /\ (IF n <= delay THEN 1 ELSE n - delay) = m - b + 1
            /\ m - b + 1 \in 1..m
        BY <1>3, <4>3, PlaceOfOldest
      <4> QED
        BY <4>4 DEF m, n, b
    <3>4. Head(pushed) = pushed[1]
      BY <2>3
    <3>5. observed' = samples'[at]
      BY <1>1, <2>1, <3>1, <3>2, <3>3, <3>4
    <3>6. observed' \in Nat
      BY <1>1, <3>3, <3>5
    <3> QED
      BY <2>4, <2>5, <3>5, <3>6
  <2> QED
    BY <2>6, <2>7
<1> QED
  BY <1>2, <1>3

\* One joint's turn in the loop: its filter has been fed this cycle's action,
\* the others' have not been touched.
LEMMA FilterActionFeeds ==
  ASSUME InductiveInvariant, pc = "filter", FilterAction(outputOf)
  PROVE  LET more == Append(inferences, cycle)
         IN /\ averages' \in [Joints -> Seq(Nat)]
            /\ lowpass' \in [Joints -> SUBSET Nat]
            /\ staged' \in [Joints -> SUBSET Nat]
            /\ \A j \in Joints : j # joint =>
                 /\ averages'[j] = averages[j] /\ lowpass'[j] = lowpass[j]
                 /\ staged'[j] = staged[j]
            /\ filter = "moving_avg" => averages'[joint] = LastUpTo(window, more)
            /\ filter = "lowpass" => lowpass'[joint] = Range(more)
            /\ staged'[joint] = Filtered(more)
PROOF
<1> DEFINE more == Append(inferences, cycle)
           recent == LastUpTo(window, Append(averages[joint], cycle))
           smooth == lowpass[joint] \cup {cycle}
<1>1. /\ averages \in [Joints -> Seq(Nat)] /\ lowpass \in [Joints -> SUBSET Nat]
      /\ staged \in [Joints -> SUBSET Nat] /\ joint \in Joints
      /\ cycle \in Nat /\ inferences \in Seq(Nat)
      /\ window \in Nat /\ window > 0 /\ joint \in Int
      /\ filter \in {"none", "moving_avg", "lowpass"}
  BY JointsAssumption DEF InductiveInvariant, TypeOK, ReadOnlyTypeOK, Joints
<1>2. outputOf = cycle
  BY DEF InductiveInvariant, SessionMatchesCycle
<1>3. more \in Seq(Nat) /\ Len(more) = Len(inferences) + 1 /\ more # << >>
      /\ more[Len(more)] = cycle
  <2>1. /\ more \in Seq(Nat) /\ Len(more) = Len(inferences) + 1
        /\ more[Len(inferences) + 1] = cycle
    BY <1>1, AppendProperties
  <2>2. more # << >>
    BY <1>1, AppendProperties
  <2> HIDE DEF more
  <2> QED
    BY <2>1, <2>2
<1>4. Fed(joint) = inferences
  BY <1>1 DEF Fed
<1>5. filter = "moving_avg" => recent = LastUpTo(window, more)
  <2> SUFFICES ASSUME filter = "moving_avg" PROVE recent = LastUpTo(window, more)
    OBVIOUS
  <2>1. averages[joint] = LastUpTo(window, inferences)
    BY <1>1, <1>4 DEF InductiveInvariant, FiltersMatchInferences
  <2> QED
    BY <1>1, <2>1, LastUpToAppend
<1>6. filter = "lowpass" => smooth = Range(more)
  BY <1>1, <1>4, RangeOfAppend DEF InductiveInvariant, FiltersMatchInferences
<1> HIDE DEF more
<1>7. CASE filter = "none"
  <2>1. averages' = averages /\ lowpass' = lowpass
        /\ staged' = [staged EXCEPT ![joint] = {cycle}]
    BY <1>2, <1>7 DEF FilterAction, filters
  <2>2. Filtered(more) = {cycle}
    BY <1>3, <1>7 DEF Filtered
  <2> QED
    BY <1>1, <1>7, <2>1, <2>2 DEF more
<1>8. CASE filter = "moving_avg"
  <2>1. averages' = [averages EXCEPT ![joint] = recent] /\ lowpass' = lowpass
        /\ staged' = [staged EXCEPT ![joint] = Range(recent)]
    BY <1>2, <1>8 DEF FilterAction
  <2>2. Filtered(more) = Range(LastUpTo(window, more))
    BY <1>3, <1>8 DEF Filtered
  <2>3. recent = LastUpTo(window, more) /\ recent \in Seq(Nat)
    BY <1>1, <1>3, <1>5, <1>8, LastUpToElements
  <2>4. Range(recent) \in SUBSET Nat
    BY <1>1, <2>3, RangeOfAppend
  <2> HIDE DEF recent
  <2> QED
    BY <1>1, <1>8, <2>1, <2>2, <2>3, <2>4 DEF more
<1>9. CASE filter = "lowpass"
  <2>1. lowpass' = [lowpass EXCEPT ![joint] = smooth] /\ averages' = averages
        /\ staged' = [staged EXCEPT ![joint] = smooth]
    BY <1>2, <1>9 DEF FilterAction
  <2>2. Filtered(more) = Range(more)
    BY <1>3, <1>9 DEF Filtered
  <2>3. smooth \in SUBSET Nat /\ smooth = Range(more)
    BY <1>1, <1>6, <1>9
  <2> HIDE DEF smooth
  <2> QED
    BY <1>1, <1>9, <2>1, <2>2, <2>3 DEF more
<1> QED
  BY <1>1, <1>7, <1>8, <1>9

\* Entering, leaving and failing: all buffers are empty, and so is the history.
LEMMA ResetEmpties ==
  ASSUME InductiveInvariant, ResetPolicyRuntimeState, StartAfresh,
         UNCHANGED settings, pc' = "ready"
  PROVE  /\ buffer' \in Seq(Nat) /\ samples' \in Seq(Nat)
         /\ inferences' \in Seq(Nat)
         /\ averages' \in [Joints -> Seq(Nat)]
         /\ lowpass' \in [Joints -> SUBSET Nat]
         /\ action' \in [Joints -> SUBSET Nat]
         /\ lastInference' \in Nat
         /\ BufferMatchesSamples' /\ FiltersMatchInferences' /\ JointsInStep'
         /\ ObservationIsDelayed'
PROOF
<1>1. << >> \in Seq(Nat) /\ Range(<< >>) = {}
  BY DEF Range
<1>2. \A k \in Nat : LastUpTo(k, << >>) = << >>
  BY DEF LastUpTo
<1>3. delay' \in Nat /\ window' \in Nat
  BY DEF InductiveInvariant, TypeOK, ReadOnlyTypeOK, settings
<1>4. /\ lastInference' = 0 /\ buffer' = << >>
      /\ action' = [j \in Joints |-> {}]
      /\ averages' = [j \in Joints |-> << >>]
      /\ lowpass' = [j \in Joints |-> {}]
      /\ samples' = << >> /\ inferences' = << >>
  BY DEF ResetPolicyRuntimeState, StartAfresh
<1>5. BufferMatchesSamples'
  BY <1>2, <1>3, <1>4 DEF BufferMatchesSamples
<1>6. FiltersMatchInferences'
  BY <1>1, <1>2, <1>3, <1>4 DEF FiltersMatchInferences, Fed
<1>7. JointsInStep'
  BY <1>4 DEF JointsInStep, Filtered
<1>8. ObservationIsDelayed'
  BY DEF ObservationIsDelayed
<1>9. averages' \in [Joints -> Seq(Nat)] /\ lowpass' \in [Joints -> SUBSET Nat]
      /\ action' \in [Joints -> SUBSET Nat]
  BY <1>1, <1>4
<1> QED
  BY <1>1, <1>4, <1>5, <1>6, <1>7, <1>8, <1>9

-----------------------------------------------------------------------------
(* The invariant                                                           *)

LEMMA InvariantInit == Init => InductiveInvariant
PROOF
<1> SUFFICES ASSUME Init PROVE InductiveInvariant
  OBVIOUS
<1>1. << >> \in Seq(Nat) /\ Range(<< >>) = {} /\ 1 \in Joints
  BY JointsAssumption DEF Range, Joints
<1>2. \A k \in Nat : LastUpTo(k, << >>) = << >>
  BY DEF LastUpTo
<1>3. ReadOnlyTypeOK
  BY DelaysAssumption, WindowsAssumption DEF Init, ConfigurePipeline, ReadOnlyTypeOK
<1>4. /\ averages \in [Joints -> Seq(Nat)] /\ lowpass \in [Joints -> SUBSET Nat]
      /\ staged \in [Joints -> SUBSET Nat] /\ action \in [Joints -> SUBSET Nat]
      /\ inRL \in BOOLEAN /\ running \in BOOLEAN /\ outputReady \in BOOLEAN
  BY <1>1 DEF Init
<1>5. TypeOK
  BY <1>1, <1>3, <1>4 DEF Init, TypeOK
<1>6. BufferMatchesSamples
  BY <1>2, <1>3 DEF Init, BufferMatchesSamples, ReadOnlyTypeOK
<1>7. FiltersMatchInferences
  BY <1>1, <1>2, <1>3 DEF Init, FiltersMatchInferences, Fed, ReadOnlyTypeOK
<1>8. JointsInStep /\ ObservationIsDelayed
  BY DEF Init, JointsInStep, ObservationIsDelayed, Filtered
<1>9. SessionMatchesCycle
  BY DEF Init, SessionMatchesCycle
<1> QED
  BY <1>5, <1>6, <1>7, <1>8, <1>9 DEF InductiveInvariant

LEMMA InvariantStep ==
  InductiveInvariant /\ [Next]_vars => InductiveInvariant'
PROOF
<1> SUFFICES ASSUME InductiveInvariant, [Next]_vars
             PROVE  InductiveInvariant'
  OBVIOUS
<1>1. /\ TypeOK /\ SessionMatchesCycle /\ BufferMatchesSamples
      /\ FiltersMatchInferences /\ ObservationIsDelayed /\ JointsInStep
  BY DEF InductiveInvariant
<1>2. CASE Enter
  <2>1. /\ ResetPolicyRuntimeState /\ StartAfresh /\ UNCHANGED settings
        /\ pc' = "ready"
    BY <1>2 DEF Enter, Start
  <2>2. TypeOK'
    BY <1>1, <1>2, <2>1, ResetEmpties
    DEF Enter, Start, TypeOK, ReadOnlyTypeOK, settings, session
  <2>3. SessionMatchesCycle'
    BY <1>1, <1>2, <2>1 DEF Enter, Start, SessionMatchesCycle, session
  <2> QED
    BY <2>1, <2>2, <2>3, ResetEmpties DEF InductiveInvariant
<1>3. CASE Exit
  <2>1. /\ ResetPolicyRuntimeState /\ StartAfresh /\ UNCHANGED settings
        /\ pc' = "ready"
    BY <1>3 DEF Exit, Stop
  <2>2. TypeOK'
    BY <1>1, <1>3, <2>1, ResetEmpties
    DEF Exit, Stop, TypeOK, ReadOnlyTypeOK, settings
  <2>3. SessionMatchesCycle'
    BY <1>1, <1>3, <2>1 DEF Exit, Stop, SessionMatchesCycle
  <2> QED
    BY <2>1, <2>2, <2>3, ResetEmpties DEF InductiveInvariant
<1>4. CASE ObservationFails
  <2>1. /\ ResetPolicyRuntimeState /\ StartAfresh /\ UNCHANGED settings
        /\ pc' = "ready"
    BY <1>4 DEF ObservationFails, FailSafe
  <2>2. TypeOK'
    BY <1>1, <1>4, <2>1, ResetEmpties
    DEF ObservationFails, TypeOK, ReadOnlyTypeOK, settings, machine, session
  <2>3. SessionMatchesCycle'
    BY <1>1, <1>4, <2>1
    DEF ObservationFails, SessionMatchesCycle, machine, session
  <2> QED
    BY <2>1, <2>2, <2>3, ResetEmpties DEF InductiveInvariant
<1>5. CASE RunFails
  <2>1. /\ ResetPolicyRuntimeState /\ StartAfresh /\ UNCHANGED settings
        /\ pc' = "ready"
    BY <1>5 DEF RunFails, FailSafe
  <2>2. outputReady' = FALSE /\ UNCHANGED machine
    BY <1>1, <1>5 DEF RunFails, SessionMatchesCycle, TypeOK
  <2>3. TypeOK'
    BY <1>1, <1>5, <2>1, <2>2, ResetEmpties
    DEF RunFails, TypeOK, ReadOnlyTypeOK, settings, machine
  <2>4. SessionMatchesCycle'
    BY <1>1, <2>1, <2>2 DEF SessionMatchesCycle, machine
  <2> QED
    BY <2>1, <2>3, <2>4, ResetEmpties DEF InductiveInvariant
<1>6. CASE OtherCycle
  <2>1. TypeOK'
    BY <1>1, <1>6 DEF OtherCycle, TypeOK, ReadOnlyTypeOK, settings, machine,
                      session, filters, history
  <2>2. /\ SessionMatchesCycle' /\ BufferMatchesSamples'
        /\ ObservationIsDelayed' /\ JointsInStep'
    BY <1>1, <1>6
    DEF OtherCycle, SessionMatchesCycle, BufferMatchesSamples,
        ObservationIsDelayed, JointsInStep, Filtered, settings, machine,
        session, history
  <2>3. FiltersMatchInferences'
    BY <1>1, <1>6 DEF OtherCycle, FiltersMatchInferences, Fed, settings, filters,
                      history
  <2> QED
    BY <2>1, <2>2, <2>3 DEF InductiveInvariant
<1>7. CASE BuildObservation
  <2>1. /\ delay \in Nat /\ buffer \in Seq(Nat) /\ samples \in Seq(Nat)
        /\ cycle' \in Nat /\ PushAndGet(cycle')
        /\ samples' = Append(samples, cycle')
        /\ UNCHANGED <<settings, machine, session, joint, filters, staged, action,
                      inferences>>
        /\ pc = "ready" /\ pc' \in {"infer", "apply"} /\ inRL
        /\ lastInference' \in Nat
    BY <1>1, <1>7 DEF BuildObservation, TypeOK, ReadOnlyTypeOK
  <2>2. /\ buffer' \in Seq(Nat)
        /\ buffer' = LastUpTo(delay, samples')
        /\ observed' \in Nat
        /\ observed' = samples'[IF Len(samples') <= delay
                                  THEN 1 ELSE Len(samples') - delay]
    BY <1>1, <2>1, PushAndGetDelays
  <2>3. samples' \in Seq(Nat)
    BY <2>1, AppendProperties
  <2>4. TypeOK'
    BY <1>1, <2>1, <2>2, <2>3
    DEF TypeOK, ReadOnlyTypeOK, settings, machine, session, filters
  <2>5. BufferMatchesSamples' /\ ObservationIsDelayed'
    BY <2>1, <2>2 DEF BufferMatchesSamples, ObservationIsDelayed, settings
  <2>6. SessionMatchesCycle' /\ JointsInStep'
    BY <1>1, <2>1 DEF SessionMatchesCycle, JointsInStep, Filtered, settings,
                      machine, session
  <2>7. FiltersMatchInferences'
    BY <1>1, <2>1 DEF FiltersMatchInferences, Fed, settings, filters
  <2> QED
    BY <2>4, <2>5, <2>6, <2>7 DEF InductiveInvariant
<1>8. CASE Infer \/ TakeOutput \/ Apply
  <2>1. /\ UNCHANGED <<settings, machine, cycle, buffer, observed, lastInference,
                      filters, staged, action, history>>
        /\ pc # "ready" /\ pc # "filter"
        /\ pc' \in {"output", "filter", "ready"}
        /\ pc' = "filter" => joint' = 1
        /\ joint' \in Joints
    BY <1>1, <1>8, JointsAssumption
    DEF Infer, TakeOutput, Apply, TypeOK, Joints
  <2>2. outputReady' \in BOOLEAN /\ outputOf' \in Nat
    BY <1>1, <1>8 DEF Infer, TakeOutput, Apply, TypeOK, session
  <2>3. TypeOK'
    BY <1>1, <2>1, <2>2
    DEF TypeOK, ReadOnlyTypeOK, settings, machine, filters, history
  <2>4. SessionMatchesCycle'
    BY <1>1, <1>8
    DEF Infer, TakeOutput, Apply, SessionMatchesCycle, machine, session
  <2>5. /\ BufferMatchesSamples' /\ ObservationIsDelayed' /\ JointsInStep'
    BY <1>1, <2>1 DEF BufferMatchesSamples, ObservationIsDelayed, JointsInStep,
                      Filtered, settings, history
  <2>6. \A j \in Joints : ~(pc' = "filter" /\ j < joint')
    BY <2>1, JointsAssumption DEF Joints
  <2>7. FiltersMatchInferences'
    BY <1>1, <2>1, <2>6
    DEF FiltersMatchInferences, Fed, settings, filters, history
  <2> QED
    BY <2>3, <2>4, <2>5, <2>7 DEF InductiveInvariant
<1>9. CASE FilterJoint
  <2> DEFINE more == Append(inferences, cycle)
  <2>1. /\ UNCHANGED <<settings, pc, machine, cycle, buffer, observed,
                      lastInference, session, action, history>>
        /\ pc = "filter" /\ joint' = joint + 1 /\ joint < NumJoints
        /\ FilterAction(outputOf)
    BY <1>9 DEF FilterJoint
  <2>2. /\ averages' \in [Joints -> Seq(Nat)]
        /\ lowpass' \in [Joints -> SUBSET Nat]
        /\ staged' \in [Joints -> SUBSET Nat]
        /\ \A j \in Joints : j # joint =>
             /\ averages'[j] = averages[j] /\ lowpass'[j] = lowpass[j]
             /\ staged'[j] = staged[j]
        /\ filter = "moving_avg" => averages'[joint] = LastUpTo(window, more)
        /\ filter = "lowpass" => lowpass'[joint] = Range(more)
        /\ staged'[joint] = Filtered(more)
    BY <2>1, FilterActionFeeds
  <2> HIDE DEF more
  <2>3. joint \in Joints /\ joint' \in Joints
    BY <1>1, <2>1, JointsAssumption DEF TypeOK, Joints
  <2>4. TypeOK'
    BY <1>1, <2>1, <2>2, <2>3
    DEF TypeOK, ReadOnlyTypeOK, settings, machine, session, history
  <2>5. /\ SessionMatchesCycle' /\ BufferMatchesSamples'
        /\ ObservationIsDelayed' /\ JointsInStep'
    BY <1>1, <2>1
    DEF SessionMatchesCycle, BufferMatchesSamples, ObservationIsDelayed,
        JointsInStep, Filtered, settings, machine, session, history
  <2>6. FiltersMatchInferences'
    <3> SUFFICES ASSUME NEW j \in Joints
                 PROVE  /\ filter = "moving_avg" =>
                             averages'[j] = LastUpTo(window, Fed(j)')
                        /\ filter = "lowpass" => lowpass'[j] = Range(Fed(j)')
                        /\ j < joint' => staged'[j] = Filtered(Fed(j)')
      BY <2>1 DEF FiltersMatchInferences, Filtered, settings
    <3>1. CASE j = joint
      <4>1. Fed(j)' = more
        BY <2>1, <2>3, <3>1, JointsAssumption DEF Fed, more, Joints, history
      <4> QED
        BY <2>2, <3>1, <4>1
    <3>2. CASE j # joint
      <4>1. Fed(j)' = Fed(j) /\ (j < joint' <=> j < joint)
        BY <2>1, <2>3, <3>2, JointsAssumption DEF Fed, Joints, history
      <4> QED
        BY <1>1, <2>1, <2>2, <3>2, <4>1 DEF FiltersMatchInferences
    <3> QED
      BY <3>1, <3>2
  <2> QED
    BY <2>4, <2>5, <2>6 DEF InductiveInvariant
<1>10. CASE FilterLast
  <2> DEFINE more == Append(inferences, cycle)
  <2>1. /\ UNCHANGED <<settings, machine, cycle, buffer, observed,
                      lastInference, session, joint, samples>>
        /\ pc = "filter" /\ pc' = "apply" /\ joint = NumJoints
        /\ action' = staged' /\ inferences' = more
        /\ FilterAction(outputOf)
    BY <1>10 DEF FilterLast
  <2>2. /\ averages' \in [Joints -> Seq(Nat)]
        /\ lowpass' \in [Joints -> SUBSET Nat]
        /\ staged' \in [Joints -> SUBSET Nat]
        /\ \A j \in Joints : j # joint =>
             /\ averages'[j] = averages[j] /\ lowpass'[j] = lowpass[j]
             /\ staged'[j] = staged[j]
        /\ filter = "moving_avg" => averages'[joint] = LastUpTo(window, more)
        /\ filter = "lowpass" => lowpass'[joint] = Range(more)
        /\ staged'[joint] = Filtered(more)
    BY <2>1, FilterActionFeeds
  <2>3. more \in Seq(Nat)
    BY <1>1, AppendProperties DEF TypeOK
  <2>4. \A j \in Joints : j # joint => Fed(j) = more
    BY <2>1, JointsAssumption DEF Fed, Joints
  <2> HIDE DEF more
  <2>5. TypeOK'
    BY <1>1, <2>1, <2>2, <2>3
    DEF TypeOK, ReadOnlyTypeOK, settings, machine, session
  <2>6. SessionMatchesCycle' /\ BufferMatchesSamples' /\ ObservationIsDelayed'
    BY <1>1, <2>1
    DEF SessionMatchesCycle, BufferMatchesSamples, ObservationIsDelayed,
        settings, machine, session
  <2>7. \A j \in Joints :
          /\ filter = "moving_avg" => averages'[j] = LastUpTo(window, more)
          /\ filter = "lowpass" => lowpass'[j] = Range(more)
          /\ staged'[j] = Filtered(more)
    <3> TAKE j \in Joints
    <3>1. CASE j = joint
      BY <2>2, <3>1
    <3>2. CASE j # joint
      <4>1. Fed(j) = more /\ pc = "filter" /\ j < joint
        BY <2>1, <2>4, <3>2, JointsAssumption DEF Joints
      <4> QED
        BY <1>1, <2>2, <3>2, <4>1 DEF FiltersMatchInferences
    <3> QED
      BY <3>1, <3>2
  <2>8. FiltersMatchInferences' /\ JointsInStep'
    BY <2>1, <2>7
    DEF FiltersMatchInferences, JointsInStep, Fed, Filtered, settings
  <2> QED
    BY <2>5, <2>6, <2>8 DEF InductiveInvariant
<1>11. CASE UNCHANGED vars
  BY <1>1, <1>11
  DEF InductiveInvariant, TypeOK, ReadOnlyTypeOK, SessionMatchesCycle,
      BufferMatchesSamples, FiltersMatchInferences, Fed, ObservationIsDelayed,
      JointsInStep, Filtered, vars, settings, machine, session, filters, history
<1> QED
  BY <1>2, <1>3, <1>4, <1>5, <1>6, <1>7, <1>8, <1>9, <1>10, <1>11 DEF Next, Run

\* The types, the contents of both buffers and what follows from them.
THEOREM InvariantHolds == Spec => []InductiveInvariant
PROOF
  BY InvariantInit, InvariantStep, PTL DEF Spec

\* For every delay, the policy is given the sample of exactly that many samples
\* ago in its stay, or the stay's first.
THEOREM DelayIsExact == Spec => []ObservationIsDelayed
PROOF
<1>1. InductiveInvariant => ObservationIsDelayed
  BY DEF InductiveInvariant
<1> QED
  BY <1>1, InvariantHolds, PTL

\* For every filter, window and number of joints, all joints and the last action
\* shown to the policy stem from the same inferences.
THEOREM ActionIsCoherent == Spec => []JointsInStep
PROOF
<1>1. InductiveInvariant => JointsInStep
  BY DEF InductiveInvariant
<1> QED
  BY <1>1, InvariantHolds, PTL

-----------------------------------------------------------------------------
(* The pipeline as a session                                               *)

\* An inference reaches the joints' actions, whatever the filter.
LEMMA InferenceIsFiltered ==
  ASSUME ReadOnlyTypeOK, NEW infs \in Seq(Nat)
  PROVE  Filtered(infs) = {} <=> infs = << >>
PROOF
<1>1. CASE infs = << >>
  BY <1>1 DEF Filtered
<1>2. CASE infs # << >>
  <2>1. Len(infs) \in Nat \ {0}
    BY <1>2, EmptySeq
  <2>2. CASE filter = "none"
    BY <1>2, <2>2 DEF Filtered
  <2>3. CASE filter = "lowpass"
    <3>1. infs[1] \in Range(infs)
      BY <2>1 DEF Range
    <3> QED
      BY <1>2, <2>3, <3>1 DEF Filtered
  <2>4. CASE filter = "moving_avg"
    <3> DEFINE recent == LastUpTo(window, infs)
    <3>1. window \in Nat \ {0}
      BY DEF ReadOnlyTypeOK
    <3>2. recent \in Seq(Nat) /\ Len(recent) # 0
      BY <2>1, <3>1, LastUpToElements
    <3> HIDE DEF recent
    <3>3. recent[1] \in Range(recent)
      BY <3>2 DEF Range
    <3> QED
      BY <1>2, <2>4, <3>3 DEF Filtered, recent
  <2> QED
    BY <2>2, <2>3, <2>4 DEF ReadOnlyTypeOK
<1> QED
  BY <1>1, <1>2

ActionHeld == \E j \in Joints : action[j] # {}

\* The joints hold an action exactly when one was inferred since the reset.
LEMMA HeldIsInferred ==
  ASSUME InductiveInvariant
  PROVE  ActionHeld <=> inferences # << >>
PROOF
<1>1. \A j \in Joints : action[j] = {} <=> inferences = << >>
  BY InferenceIsFiltered DEF InductiveInvariant, TypeOK, JointsInStep
<1>2. 1 \in Joints
  BY JointsAssumption DEF JointsAssumption, Joints
<1> QED
  BY <1>1, <1>2 DEF ActionHeld

\* enter, exit and failSafe of StateRL, the inference and the filters' loop: the
\* joints follow an action of the policy only while the session runs, and never
\* one of an earlier run of it or from before a failure.
THEOREM ImplementsSession == Spec => SessionSpec
PROOF
<1> USE DEF StartAfresh
<1>1. Init => Session!Init
  BY DEF Init, Session!Init
<1>2. InductiveInvariant /\ [Next]_vars => [Session!Next]_(Session!vars)
  <2> SUFFICES ASSUME InductiveInvariant, [Next]_vars
               PROVE  [Session!Next]_(Session!vars)
    OBVIOUS
  <2>1. /\ ActionHeld <=> inferences # << >>
        /\ ActionHeld' <=> inferences' # << >>
    <3>1. InductiveInvariant'
      BY InvariantStep
    <3>2. (ActionHeld <=> inferences # << >>)'
      BY <3>1, HeldIsInferred, PTL
    <3> QED
      BY <3>2, HeldIsInferred
  <2>2. /\ running = inRL /\ running \in BOOLEAN
        /\ pc # "ready" => inRL
        /\ inferences \in Seq(Nat) /\ cycle \in Nat
    BY DEF InductiveInvariant, TypeOK, SessionMatchesCycle
  <2>3. CASE Enter
    <3>1. ~running /\ running' = TRUE /\ ~ActionHeld'
      BY <2>1, <2>2, <2>3 DEF Enter, Start
    <3> QED
      BY <3>1 DEF Session!Next, Session!Start, ActionHeld
  <2>4. CASE Exit
    <3>1. running /\ running' = FALSE /\ ~ActionHeld'
      BY <2>1, <2>2, <2>4 DEF Exit, Stop
    <3> QED
      BY <3>1 DEF Session!Next, Session!Stop, ActionHeld
  <2>5. CASE ObservationFails \/ RunFails
    <3>1. running /\ running' = running /\ ~ActionHeld'
      BY <2>1, <2>2, <2>5 DEF ObservationFails, RunFails, FailSafe, machine
    <3> QED
      BY <3>1 DEF Session!Next, Session!Fail, ActionHeld
  <2>6. CASE FilterLast
    <3>1. running /\ running' = running /\ inferences' # << >>
      BY <2>2, <2>6 DEF FilterLast, machine
    <3>2. ActionHeld'
      BY <2>1, <3>1
    <3> QED
      BY <3>1, <3>2 DEF Session!Next, Session!Evaluate, ActionHeld
  <2>7. CASE OtherCycle \/ BuildObservation \/ Infer \/ TakeOutput \/ FilterJoint \/ Apply
               \/ UNCHANGED vars
    <3>1. running' = running /\ action' = action
      BY <2>7 DEF OtherCycle, BuildObservation, Infer, TakeOutput, FilterJoint, Apply,
                  vars, machine
    <3> QED
      BY <3>1 DEF Session!vars
  <2> QED
    BY <2>3, <2>4, <2>5, <2>6, <2>7 DEF Next, Run
<1> QED
  BY <1>1, <1>2, InvariantHolds, PTL DEF Spec, SessionSpec, Session!Spec
=============================================================================
