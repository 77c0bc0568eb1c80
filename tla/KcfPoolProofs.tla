----------------------------- MODULE KcfPoolProofs -----------------------------
(***************************************************************************)
(* Proofs about KcfPool for every number of slots, set of places and       *)
(* detection sizes.                                                        *)
(*                                                                         *)
(* The table and the trackers agree on every slot but the fresh ones: that *)
(* is what makes the answers of iKCFTrackerCheck right.  That lTimeout is  *)
(* the time of the start, and nothing later, is what bounds a life.        *)
(***************************************************************************)
EXTENDS KcfPool, TLAPS

\* The table shows where each tracker is, but for those started in this frame.
CentreIsRoi == \A i \in Used \ Fresh : info[i].iCenter = roi[i]

\* The age of a tracker counts from its start.
StampIsBirth == \A i \in Used : info[i].lTimeout = born[i] /\ born[i] <= now

\* A frame comes before all that is done for it.
FrameIsPast == frame <= now

IInv == TypeOK /\ CentreIsRoi /\ StampIsBirth /\ FrameIsPast /\ NoTrackerOutlives

-----------------------------------------------------------------------------

\* The cleared table satisfies the invariant.
LEMMA InitInv == Init => IInv
<1> SUFFICES ASSUME Init PROVE IInv
  OBVIOUS
<1>1. \A i \in Slots : info[i] = [iHandel |-> FALSE, iCenter |-> <<0, 0>>, lTimeout |-> 0]
  BY DEF Init
<1>2. Used = {}
  BY <1>1 DEF Used
<1>3. TypeOK
  <2>1. [iHandel |-> FALSE, iCenter |-> <<0, 0>>, lTimeout |-> 0] \in TrackerInfo
    BY ConstantsAssumption DEF TrackerInfo
  <2>2. QED
    BY <2>1, ConstantsAssumption DEF Init, TypeOK
<1>4. FrameIsPast
  BY DEF Init, FrameIsPast
<1>5. QED
  BY <1>2, <1>3, <1>4 DEF IInv, CentreIsRoi, StampIsBirth, NoTrackerOutlives, Fresh

\* What an update leaves in a slot: a tracker that is still in use was in use
\* before, is not too old, keeps its stamp and shows the place it has found.
LEMMA UpdatedSlot ==
  ASSUME TypeOK,
         NEW i \in Slots, NEW found \in [Used -> Places], NEW lost \in SUBSET Used,
         NEW t \in Nat
  PROVE  /\ Updated(i, found, lost, t) \in TrackerInfo
         /\ Updated(i, found, lost, t).iHandel =>
              /\ i \in Used
              /\ ~Expired(i, t)
              /\ Updated(i, found, lost, t).lTimeout = info[i].lTimeout
              /\ Updated(i, found, lost, t).iCenter = found[i]
<1>1. info[i] \in TrackerInfo /\ (i \in Used <=> info[i].iHandel)
  BY DEF TypeOK, Used
<1>2. CASE i \notin Used
  BY <1>1, <1>2 DEF Updated, TrackerInfo
<1>3. CASE i \in Used /\ Expired(i, t)
  BY <1>1, <1>3 DEF Updated, TrackerInfo
<1>4. CASE i \in Used \cap lost /\ ~Expired(i, t)
  BY <1>1, <1>4 DEF Updated, TrackerInfo
<1>5. CASE i \in Used \ lost /\ ~Expired(i, t)
  <2>1. found[i] \in Places
    BY <1>5
  <2>2. Updated(i, found, lost, t) = [info[i] EXCEPT !.iCenter = found[i]]
    BY <1>5 DEF Updated, Followed
  <2>3. QED
    BY <1>1, <1>5, <2>1, <2>2 DEF TrackerInfo
<1>6. QED
  BY <1>2, <1>3, <1>4, <1>5

LEMMA UpdateInv == ASSUME IInv, KCFTrackerUpdate PROVE IInv'
<1>1. PICK gap \in Gaps, found \in [Used -> Places], lost \in SUBSET Used :
        \E clock \in Readings(now + gap) :
          /\ now' = clock[KcfMaxNum - 1]
          /\ info' = [i \in Slots |-> Updated(i, found, lost, clock[i])]
          /\ roi' = [i \in Slots |->
                       IF i \in Used /\ ~Expired(i, clock[i]) THEN found[i] ELSE roi[i]]
          /\ frame' = now + gap
          /\ ret' = 0
          /\ UNCHANGED born
  BY DEF KCFTrackerUpdate
<1>2. PICK clock \in Readings(now + gap) :
        /\ now' = clock[KcfMaxNum - 1]
        /\ info' = [i \in Slots |-> Updated(i, found, lost, clock[i])]
        /\ roi' = [i \in Slots |->
                     IF i \in Used /\ ~Expired(i, clock[i]) THEN found[i] ELSE roi[i]]
        /\ frame' = now + gap
        /\ ret' = 0
        /\ UNCHANGED born
  BY <1>1
<1>3. /\ now' \in Nat /\ frame' \in Nat /\ now < frame' /\ frame' <= now'
      /\ \A i \in Slots : clock[i] \in Nat /\ frame' <= clock[i]
  <2>1. now \in Nat /\ gap \in Nat \ {0} /\ Horizon \in Nat
    BY ConstantsAssumption DEF IInv, TypeOK
  <2>2. \A i \in Slots : clock[i] \in (now + gap)..Horizon
    BY DEF Readings
  <2>3. KcfMaxNum - 1 \in Slots
    BY ConstantsAssumption DEF Slots
  <2>4. QED
    BY <1>2, <2>1, <2>2, <2>3
<1>4. \A i \in Slots : /\ info'[i] = Updated(i, found, lost, clock[i])
                       /\ info'[i] \in TrackerInfo
                       /\ info'[i].iHandel =>
                            /\ i \in Used
                            /\ ~Expired(i, clock[i])
                            /\ info'[i].lTimeout = info[i].lTimeout
                            /\ info'[i].iCenter = found[i]
  BY <1>2, <1>3, UpdatedSlot DEF IInv
<1>5. TypeOK'
  <2>1. roi' \in [Slots -> Places]
    BY <1>2 DEF IInv, TypeOK, Used
  <2>2. info' \in [Slots -> TrackerInfo]
    BY <1>2, <1>4
  <2>3. QED
    BY <1>2, <1>3, <2>1, <2>2 DEF IInv, TypeOK
<1>6. CentreIsRoi'
  <2>1. \A i \in Slots : info'[i].iHandel => roi'[i] = found[i]
    BY <1>2, <1>4
  <2>2. QED
    BY <1>4, <2>1 DEF CentreIsRoi, Used
<1>7. StampIsBirth' /\ NoTrackerOutlives'
  <2> SUFFICES ASSUME NEW i \in Slots, info'[i].iHandel
               PROVE  /\ info'[i].lTimeout = born'[i]
                      /\ born'[i] <= now'
                      /\ frame' - born'[i] <= Timeout
    BY DEF StampIsBirth, NoTrackerOutlives, Used
  <2>1. i \in Used /\ ~Expired(i, clock[i]) /\ info'[i].lTimeout = info[i].lTimeout
    BY <1>4
  <2>2. info[i].lTimeout = born[i] /\ born[i] <= now /\ born[i] \in Nat /\ now \in Nat
    BY <2>1 DEF IInv, StampIsBirth, TypeOK
  <2>3. clock[i] - born[i] <= Timeout /\ clock[i] \in Nat /\ frame' <= clock[i]
    BY <1>3, <2>1, <2>2, ConstantsAssumption DEF Expired
  <2>4. frame' - born[i] <= Timeout
    BY <1>3, <2>2, <2>3, ConstantsAssumption
  <2>5. QED
    BY <1>2, <1>3, <2>1, <2>2, <2>4
<1>8. FrameIsPast'
  BY <1>3 DEF FrameIsPast
<1>9. QED
  BY <1>5, <1>6, <1>7, <1>8 DEF IInv

\* What is not after a time is not older than any limit then.
LEMMA NotAfter ==
  ASSUME NEW a \in Nat, NEW b \in Nat, NEW d \in Nat, a <= b PROVE a - b <= d
OBVIOUS

LEMMA NewTargetInv ==
  ASSUME IInv, NEW p \in Places, NEW s \in Standers, NewTarget(p, s) PROVE IInv'
<1>1. PICK i \in Slots :
        /\ info' = [info EXCEPT ![i].iHandel = TRUE, ![i].lTimeout = now']
        /\ roi' = [roi EXCEPT ![i] = p]
        /\ born' = [born EXCEPT ![i] = now']
  BY DEF NewTarget
<1>2. /\ now' \in Nat /\ now <= now' /\ frame <= now' /\ frame' = frame /\ ret' = 0
      /\ now \in Nat /\ frame \in Nat
  <2>1. now' \in now..Horizon /\ frame <= now /\ frame \in Nat /\ now \in Nat /\ Horizon \in Nat
    BY ConstantsAssumption DEF NewTarget, IInv, TypeOK, FrameIsPast
  <2>2. QED
    BY <2>1 DEF NewTarget
<1>3. /\ info'[i] = [info[i] EXCEPT !.iHandel = TRUE, !.lTimeout = now']
      /\ born'[i] = now'
      /\ \A j \in Slots \ {i} : info'[j] = info[j] /\ roi'[j] = roi[j] /\ born'[j] = born[j]
  BY <1>1 DEF IInv, TypeOK
<1>4. TypeOK'
  <2>1. info'[i] \in TrackerInfo
    BY <1>2, <1>3, ZenonT(30) DEF IInv, TypeOK, TrackerInfo
  <2>2. QED
    BY <1>1, <1>2, <1>3, <2>1 DEF IInv, TypeOK
<1>5. info'[i].lTimeout = now' /\ i \in Used' /\ Used' = Used \cup {i}
  BY <1>2, <1>3 DEF Used, IInv, TypeOK, TrackerInfo
<1>6. CentreIsRoi'
  BY <1>2, <1>3, <1>5 DEF CentreIsRoi, Used, Fresh, IInv
<1>7. StampIsBirth'
  <2>1. info'[i].lTimeout = born'[i] /\ born'[i] <= now'
    BY <1>2, <1>3, <1>5
  <2>2. \A j \in Used \ {i} : info'[j].lTimeout = born'[j] /\ born'[j] <= now'
    <3> SUFFICES ASSUME NEW j \in Used \ {i}
                 PROVE  info'[j].lTimeout = born'[j] /\ born'[j] <= now'
      OBVIOUS
    <3>1. info[j].lTimeout = born[j] /\ born[j] <= now /\ born[j] \in Nat /\ j \in Slots
      BY DEF IInv, StampIsBirth, Used, TypeOK
    <3>2. QED
      BY <1>2, <1>3, <3>1
  <2>3. QED
    BY <1>5, <2>1, <2>2 DEF StampIsBirth
<1>8. NoTrackerOutlives'
  <2>1. frame - now' <= Timeout
    <3>1. frame \in Nat /\ now' \in Nat /\ frame <= now'
      BY <1>2
    <3>2. Timeout \in Nat
      BY ConstantsAssumption
    <3>3. QED
      BY <3>1, <3>2, NotAfter
  <2>2. QED
    BY <1>2, <1>3, <1>5, <2>1 DEF NoTrackerOutlives, Used, IInv
<1>9. FrameIsPast'
  BY <1>2 DEF FrameIsPast
<1>10. QED
  BY <1>4, <1>6, <1>7, <1>8, <1>9 DEF IInv

LEMMA ClearInv == ASSUME IInv, iKCFTrackerClear PROVE IInv'
<1>1. \A i \in Slots : info'[i] = [info[i] EXCEPT !.iHandel = FALSE]
  BY DEF iKCFTrackerClear
<1>2. \A i \in Slots : info'[i] \in TrackerInfo /\ ~info'[i].iHandel
  BY <1>1 DEF IInv, TypeOK, TrackerInfo
<1>3. Used' = {}
  BY <1>2 DEF Used
<1>4. TypeOK'
  BY <1>2 DEF iKCFTrackerClear, IInv, TypeOK
<1>5. QED
  BY <1>3, <1>4 DEF IInv, CentreIsRoi, StampIsBirth, FrameIsPast, NoTrackerOutlives, Fresh,
                      iKCFTrackerClear

\* A step that changes only the answer.
LEMMA SameInv == ASSUME IInv, UNCHANGED <<now, info, roi, frame, born>>, ret' \in {0, 1} PROVE IInv'
BY DEF IInv, TypeOK, CentreIsRoi, StampIsBirth, FrameIsPast, NoTrackerOutlives, Used, Fresh

\* The invariant is inductive.
LEMMA StepInv == IInv /\ [Next]_vars => IInv'
<1> SUFFICES ASSUME IInv, [Next]_vars PROVE IInv'
  OBVIOUS
<1>1. CASE KCFTrackerUpdate
  BY <1>1, UpdateInv
<1>2. CASE iKCFTrackerCheck
  <2>1. PICK p \in Places, s \in Standers :
          OldTarget(p, s) \/ NewTarget(p, s) \/ PoolFull(p, s)
    BY <1>2 DEF iKCFTrackerCheck
  <2>2. CASE OldTarget(p, s)
    BY <2>2, SameInv DEF OldTarget
  <2>3. CASE NewTarget(p, s)
    BY <2>3, NewTargetInv
  <2>4. CASE PoolFull(p, s)
    BY <2>4, SameInv DEF PoolFull
  <2>5. QED
    BY <2>1, <2>2, <2>3, <2>4
<1>3. CASE iKCFTrackerClear
  BY <1>3, ClearInv
<1>4. CASE UNCHANGED vars
  BY <1>4, SameInv DEF vars, IInv, TypeOK
<1>5. QED
  BY <1>1, <1>2, <1>3, <1>4 DEF Next

-----------------------------------------------------------------------------

\* Every reachable state satisfies the invariant.
THEOREM Inductive == Spec => []IInv
BY InitInv, StepInv, PTL DEF Spec

\* The variables keep their types: the table holds a place and a time in every slot.
THEOREM TypeCorrect == Spec => []TypeOK
<1>1. IInv => TypeOK
  BY DEF IInv
<1>2. QED
  BY <1>1, Inductive, PTL

\* For every number of slots no tracker is in use after a frame that came when it
\* was older than Timeout.
THEOREM Outlives == Spec => []NoTrackerOutlives
<1>1. IInv => NoTrackerOutlives
  BY DEF IInv
<1>2. QED
  BY <1>1, Inductive, PTL

\* For every pool and detection a wrong "old target" is due to a slot that was
\* given away in the same frame.
THEOREM OldByFresh == Spec => []OldByFreshOnly
<1>1. IInv => OldByFreshOnly
  <2> SUFFICES ASSUME IInv, NEW p \in Places, NEW s \in Standers,
                      InFrame(p, s), Known(p, s)
               PROVE  Tracked(p, s) \/ \E i \in Fresh : Near(p, info[i].iCenter, s)
    BY DEF OldByFreshOnly
  <2>1. PICK i \in Used : Near(p, info[i].iCenter, s)
    BY DEF Known
  <2>2. CASE i \in Fresh
    BY <2>1, <2>2
  <2>3. CASE i \notin Fresh
    <3>1. info[i].iCenter = roi[i]
      BY <2>3 DEF IInv, CentreIsRoi
    <3>2. QED
      BY <2>1, <3>1 DEF Tracked
  <2>4. QED
    BY <2>2, <2>3
<1>2. QED
  BY <1>1, Inductive, PTL

\* Two points within s of each other are within every larger distance.
LEMMA NearLarger ==
  ASSUME NEW p \in Int \X Int, NEW q \in Int \X Int, NEW s \in Int, NEW t \in Int, s <= t,
         Near(p, q, s)
  PROVE  Near(p, q, t)
<1>1. p[1] \in Int /\ p[2] \in Int /\ q[1] \in Int /\ q[2] \in Int
  OBVIOUS
<1>2. Apart(p[1], q[1]) \in Int /\ Apart(p[2], q[2]) \in Int
  BY <1>1 DEF Apart
<1>3. QED
  BY <1>2 DEF Near

\* For every pool: where a tracker is already running, no second one is started
\* in a later frame.
THEOREM SecondTracker == Spec => NoSecondTracker
<1> DEFINE Step ==
      \A i \in Slots \ Used, j \in Used \ Fresh :
        info'[i].iHandel =>
          \A s \in Standers : (\A t \in Standers : s <= t) => ~Near(roi'[i], roi[j], s)
<1>1. IInv /\ [Next]_vars => [Step]_vars
  <2> SUFFICES ASSUME IInv, Next,
                      NEW i \in Slots \ Used, NEW j \in Used \ Fresh, info'[i].iHandel,
                      NEW s \in Standers, \A t \in Standers : s <= t, Near(roi'[i], roi[j], s)
               PROVE  FALSE
    OBVIOUS
  <2>1. ~info[i].iHandel
    BY DEF Used
  <2>2. CASE KCFTrackerUpdate
    <3>1. PICK gap \in Gaps, found \in [Used -> Places], lost \in SUBSET Used :
            \E clock \in Readings(now + gap) :
              info' = [k \in Slots |-> Updated(k, found, lost, clock[k])]
      BY <2>2 DEF KCFTrackerUpdate
    <3>2. info'[i] = info[i]
      BY <3>1 DEF Updated
    <3>3. QED
      BY <3>2, <2>1
  <2>3. CASE iKCFTrackerCheck
    <3>1. PICK p \in Places, t \in Standers :
            OldTarget(p, t) \/ NewTarget(p, t) \/ PoolFull(p, t)
      BY <2>3 DEF iKCFTrackerCheck
    <3>2. CASE NewTarget(p, t)
      <4>1. PICK k \in Slots : /\ info' = [info EXCEPT ![k].iHandel = TRUE, ![k].lTimeout = now']
                               /\ roi' = [roi EXCEPT ![k] = p]
        BY <3>2 DEF NewTarget
      <4>2. i = k /\ roi'[i] = p
        BY <4>1, <2>1 DEF IInv, TypeOK
      <4>3. info[j].iCenter = roi[j]
        BY DEF IInv, CentreIsRoi
      <4>4. ~Near(p, roi[j], t)
        BY <3>2, <4>3 DEF NewTarget, Known
      <4>5. /\ p \in Int \X Int /\ roi[j] \in Int \X Int
            /\ s \in Int /\ t \in Int /\ s <= t
        BY ConstantsAssumption DEF IInv, TypeOK, Used
      <4>6. QED
        BY <4>2, <4>4, <4>5, NearLarger
    <3>3. CASE OldTarget(p, t) \/ PoolFull(p, t)
      BY <3>3, <2>1 DEF OldTarget, PoolFull
    <3>4. QED
      BY <3>1, <3>2, <3>3
  <2>4. CASE iKCFTrackerClear
    <3>1. info'[i] = [info[i] EXCEPT !.iHandel = FALSE]
      BY <2>4 DEF iKCFTrackerClear
    <3>2. QED
      BY <3>1, <2>1
  <2>5. QED
    BY <2>2, <2>3, <2>4 DEF Next
<1>2. QED
  BY <1>1, Inductive, PTL DEF Spec, NoSecondTracker
================================================================================
