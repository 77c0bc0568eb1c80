-------------------------------- MODULE KcfPool --------------------------------
(***************************************************************************)
(* The pool of trackers of myKCF/ (KCFTrackerEX.cpp, main.c).  For each    *)
(* frame KCFTrackerUpdate moves the trackers in use and frees those that   *)
(* lost their target or are too old; then iKCFTrackerCheck is called for   *)
(* each detection: a detection near the centre of a tracker in use is an   *)
(* old target, any other gets the first free tracker.                      *)
(*                                                                         *)
(* KCFTracker itself, which finds the target in the image, is external:    *)
(* it may lose the target or find it anywhere.  A detection lies within    *)
(* the frame: main.c clips it, and OpenCV asserts it before the code's own *)
(* range check, which therefore never fails.                               *)
(***************************************************************************)
EXTENDS Integers

CONSTANTS KcfMaxNum, \* KCF_MAX_NUM
          Places,    \* the centres, as <<x, y>>
          Standers,  \* l_iStander, half the width of a detection
          Timeout,   \* the 30 s of KCFTrackerUpdate, in ticks
          Gaps,      \* the ticks from one frame to the next
          Horizon    \* bounds the length of a run, as IMAGES does

ASSUME ConstantsAssumption ==
  /\ KcfMaxNum \in Nat \ {0} /\ Timeout \in Nat /\ Horizon \in Nat
  /\ <<0, 0>> \in Places /\ Places \subseteq Int \X Int
  /\ Standers \subseteq Nat /\ Gaps \subseteq Nat \ {0}

Slots == 0..(KcfMaxNum - 1)

VARIABLES now,   \* the clock as it was read last, in ticks
          info,  \* m_stKCFTrackerInfos
          roi,   \* the centre of each KCFTracker's _roi
          frame, \* history: when the last KCFTrackerUpdate began
          born,  \* history: when each tracker was started
          ret    \* what the last call returned

vars == <<now, info, roi, frame, born, ret>>

TrackerInfo == [iHandel : BOOLEAN, iCenter : Places, lTimeout : Nat]

TypeOK ==
  /\ now \in Nat
  /\ info \in [Slots -> TrackerInfo]
  /\ roi \in [Slots -> Places]
  /\ frame \in Nat
  /\ born \in [Slots -> Nat]
  /\ ret \in {0, 1}

\* The table is cleared by memset, and the first frame, at time 1, has found no
\* tracker to move.
Init ==
  /\ now = 1 /\ frame = 1
  /\ info = [i \in Slots |-> [iHandel |-> FALSE, iCenter |-> <<0, 0>>, lTimeout |-> 0]]
  /\ roi = [i \in Slots |-> <<0, 0>>]
  /\ born = [i \in Slots |-> 0]
  /\ ret = 0

Used == {i \in Slots : info[i].iHandel}

-----------------------------------------------------------------------------
(* KCFTrackerUpdate.                                                       *)

Expired(i, t) == t - info[i].lTimeout > Timeout

\* Mutant: a tracker that follows its target gets a new life.
FollowedRenewed(i, place, t) == [info[i] EXCEPT !.iCenter = place, !.lTimeout = t]

\* A tracker with a peak of at least m_fKCFLevel.
Followed(i, place, t) == [info[i] EXCEPT !.iCenter = place]

\* What KCFTrackerUpdate makes of slot i when the clock says t, asking its tracker
\* unless it has expired: found[i] is what it finds, lost the trackers with a low
\* peak.
Updated(i, found, lost, t) ==
  CASE i \notin Used                                 -> info[i]
    [] i \in Used /\ Expired(i, t)                   ->
         [info[i] EXCEPT !.iHandel = FALSE, !.lTimeout = 0]
    [] i \in Used \cap lost /\ ~Expired(i, t)        -> [info[i] EXCEPT !.iHandel = FALSE]
    [] i \in Used \ lost /\ ~Expired(i, t)           -> Followed(i, found[i], t)

\* What the clock may say at each slot of an update that begins at time t: it is
\* read again for each tracker, and a tracker takes its time.
Readings(t) == {clock \in [Slots -> t..Horizon] : \A i, j \in Slots : i <= j => clock[i] <= clock[j]}

\* The next frame.
KCFTrackerUpdate ==
  \E gap \in Gaps, found \in [Used -> Places], lost \in SUBSET Used :
    \E clock \in Readings(now + gap) :
      /\ now' = clock[KcfMaxNum - 1]
      /\ info' = [i \in Slots |-> Updated(i, found, lost, clock[i])]
      /\ roi' = [i \in Slots |-> IF i \in Used /\ ~Expired(i, clock[i]) THEN found[i] ELSE roi[i]]
      /\ frame' = now + gap
      /\ ret' = 0
      /\ UNCHANGED born

-----------------------------------------------------------------------------
(* iKCFTrackerCheck, for a detection with centre p and half width s.       *)

Apart(a, b) == IF a >= b THEN a - b ELSE b - a

Near(p, q, s) == Apart(p[1], q[1]) < s /\ Apart(p[2], q[2]) < s

\* Mutant: the loop starts with the second slot.
KnownButFirst(p, s) == \E i \in Used \ {0} : Near(p, info[i].iCenter, s)

\* Mutant: iHandel is not tested.
KnownFreed(p, s) == \E i \in Slots : Near(p, info[i].iCenter, s)

Known(p, s) == \E i \in Used : Near(p, info[i].iCenter, s)

OldTarget(p, s) ==
  /\ Known(p, s)
  /\ ret' = 1
  /\ UNCHANGED <<now, info, roi, frame, born>>

\* iKCFTrackerFind returns i: the first free slot.
IsFirstFree(i) == i \in Slots \ Used /\ \A j \in Slots \ Used : i <= j

\* The clock is read once more.  The new tracker's centre is not written: the next
\* update does that.
NewTarget(p, s) ==
  /\ ~Known(p, s)
  /\ now' \in now..Horizon
  /\ \E i \in Slots :
       /\ IsFirstFree(i)
       /\ info' = [info EXCEPT ![i].iHandel = TRUE, ![i].lTimeout = now']
       /\ roi' = [roi EXCEPT ![i] = p]
       /\ born' = [born EXCEPT ![i] = now']
  /\ ret' = 0
  /\ UNCHANGED frame

\* Mutant: the -1 of iKCFTrackerFind is returned.
PoolFullIndex(p, s) ==
  /\ ~Known(p, s)
  /\ Used = Slots
  /\ ret' = -1
  /\ UNCHANGED <<now, info, roi, frame, born>>

\* No slot is free: the detection is forgotten, with the same answer.
PoolFull(p, s) ==
  /\ ~Known(p, s)
  /\ Used = Slots
  /\ ret' = 0
  /\ UNCHANGED <<now, info, roi, frame, born>>

\* The detections main.c passes on: none reaches over the left edge of the frame,
\* so none is near the (0, 0) of a slot that has never been used.
InFrame(p, s) == p[1] >= s

iKCFTrackerCheck ==
  \E p \in Places, s \in Standers :
    InFrame(p, s) /\ (OldTarget(p, s) \/ NewTarget(p, s) \/ PoolFull(p, s))

-----------------------------------------------------------------------------
(* iKCFTrackerClear, which main.c never calls.                             *)

iKCFTrackerClear ==
  /\ info' = [i \in Slots |-> [info[i] EXCEPT !.iHandel = FALSE]]
  /\ ret' = 0
  /\ UNCHANGED <<now, roi, frame, born>>

Next == KCFTrackerUpdate \/ iKCFTrackerCheck \/ iKCFTrackerClear

Spec == Init /\ [][Next]_vars

-----------------------------------------------------------------------------
(* Properties.                                                             *)

\* The trackers started since the last frame.
Fresh == {i \in Used : born[i] >= frame}

Tracked(p, s) == \E i \in Used : Near(p, roi[i], s)

\* A detection is called an old target only if a tracker really is near it, or
\* if a tracker was started in this same frame, whose slot still shows the centre
\* of the target it had before.
OldByFreshOnly ==
  \A p \in Places, s \in Standers :
    InFrame(p, s) /\ Known(p, s) =>
      Tracked(p, s) \/ \E i \in Fresh : Near(p, info[i].iCenter, s)

\* A tracker is started on a place only if no tracker that was already running
\* when the frame came is there: one target gets two trackers only by two
\* detections in one frame.
NoSecondTracker ==
  [][\A i \in Slots \ Used, j \in Used \ Fresh :
       info'[i].iHandel =>
         \A s \in Standers : (\A t \in Standers : s <= t) => ~Near(roi'[i], roi[j], s)]_vars

\* However well a tracker follows its target, one that is older than Timeout when
\* a frame comes is not in use after it: the pool cannot stay full of trackers for
\* ever.
NoTrackerOutlives == \A i \in Used : frame - born[i] <= Timeout

\* main.c:69 "This is old target, drop it!": a detection is dropped only if a
\* tracker is near it.
OldTargetIsTracked ==
  \A p \in Places, s \in Standers : InFrame(p, s) /\ Known(p, s) => Tracked(p, s)
================================================================================
