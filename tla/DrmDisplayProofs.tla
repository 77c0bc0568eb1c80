--------------------------- MODULE DrmDisplayProofs ---------------------------
(***************************************************************************)
(* Proofs about DrmDisplay for every BufCount.                             *)
(*                                                                         *)
(* The slot drawn next is not enough to know whether it is on screen: Ring *)
(* says how far ahead of the slot on screen it is, by the frames that have *)
(* been missed since.                                                      *)
(***************************************************************************)
EXTENDS DrmDisplay, TLAPS

\* While fewer than BufCount frames in a row have been missed, the next slot is
\* as many slots after the one on screen as frames were missed, and one more.
Ring ==
  front # NoSlot /\ misses < BufCount =>
    num = front + 1 + misses \/ num = front + 1 + misses - BufCount

\* Before drmInit there is nothing; after a failed one nothing but drm_fd, and
\* no buffer; after a successful one dev has everything but res.
ObjectsHeld ==
  /\ pc = "init" => ~initOk
  /\ pc \in {"buffers", "closing", "closed"} => initOk
  /\ ~initOk => \A o \in Objects : object[o] = "live" => o = "fd"
  /\ initOk => dev = Objects \ {"res"} /\ object["res"] = "freed"
  /\ pc = "closed" => \A o \in Objects : object[o] # "live"

\* Where ZPOS is not checked, what dev points to is live until drmDeinit.
PlainDevice ==
  ~zposChecked =>
    /\ freedTwice = {} /\ ~deadUse
    /\ initOk /\ pc # "closed" => \A o \in Objects \ {"res"} : object[o] = "live"

\* Framebuffers are in the slots that drmGetBuffer has returned, and only the
\* slot it failed on, if any, may hold a mapping without a framebuffer.
SlotsHeld ==
  /\ ~initOk => \A i \in Slots : buf[i] = Empty
  /\ pc = "init" => got = 0
  /\ pc = "buffers" => \A i \in Slots : i >= got => buf[i] = Empty
  /\ \A i \in Slots : i > got => buf[i] = Empty
  /\ \A i \in Slots : i = got => ~buf[i].fb
  /\ pc = "closed" => \A i \in Slots : i < got => buf[i] = Empty

Held == ObjectsHeld /\ PlainDevice /\ SlotsHeld

IInv == TypeOK /\ Ring

-----------------------------------------------------------------------------

\* display_commit's num runs through the slots and wraps after the last.
LEMMA NextSlot ==
  ASSUME NEW i \in Slots
  PROVE  (i + 1) % BufCount = IF i = BufCount - 1 THEN 0 ELSE i + 1
<1>1. BufCount \in Nat /\ BufCount > 0 /\ i \in 0..(BufCount - 1)
  BY BufCountAssumption DEF Slots
<1>2. CASE i = BufCount - 1
  BY <1>1, <1>2, SMT
<1>3. CASE i # BufCount - 1
  <2>1. i + 1 \in 0..(BufCount - 1)
    BY <1>1, <1>3, SMT
  <2>2. QED
    BY <2>1, <1>1, <1>3, SMT
<1>4. QED
  BY <1>2, <1>3

LEMMA NextSlotType ==
  ASSUME NEW i \in Slots
  PROVE  (i + 1) % BufCount \in Slots
BY NextSlot, BufCountAssumption DEF Slots

\* The initial state satisfies the invariant.
LEMMA InitInv == Init => IInv
<1>1. Init => TypeOK
  <2>1. [o \in Objects |-> "none"] \in [Objects -> {"none", "live", "freed"}]
    OBVIOUS
  <2>2. [i \in Slots |-> Empty] \in [Slots -> Buffers]
    BY DEF Empty, Buffers
  <2>3. 0 \in Slots /\ 0 \in 0..BufCount
    BY BufCountAssumption DEF Slots
  <2>4. QED
    BY <2>1, <2>2, <2>3 DEF Init, TypeOK
<1>2. Init => Ring
  BY DEF Init, Ring
<1>3. QED
  BY <1>1, <1>2 DEF IInv

\* A frame that misses the screen puts the next slot one further ahead.
LEMMA MissKeepsRing ==
  ASSUME TypeOK, Ring, Missed, Advance, UNCHANGED front
  PROVE  Ring'
<1>1. BufCount \in Nat /\ BufCount > 0
  BY BufCountAssumption
<1>2. num \in 0..(BufCount - 1) /\ misses \in 0..BufCount /\ front \in Slots \cup {NoSlot}
  BY DEF TypeOK, Slots
<1>3. num' = IF num = BufCount - 1 THEN 0 ELSE num + 1
  BY NextSlot DEF Advance, TypeOK
<1>4. SUFFICES ASSUME front' # NoSlot, misses' < BufCount
               PROVE  num' = front' + 1 + misses' \/ num' = front' + 1 + misses' - BufCount
  BY DEF Ring
<1>5. misses' = misses + 1 /\ misses < BufCount
  BY <1>1, <1>2, <1>4 DEF Missed
<1>6. front \in 0..(BufCount - 1) /\ front' = front
  BY <1>2, <1>4 DEF Slots
<1>7. num = front + 1 + misses \/ num = front + 1 + misses - BufCount
  BY <1>4, <1>5 DEF Ring
<1>8. misses \in Nat /\ misses < BufCount - 1
  BY <1>1, <1>2, <1>4, <1>5
<1>9. CASE num = BufCount - 1
  BY <1>1, <1>3, <1>5, <1>6, <1>7, <1>8, <1>9
<1>10. CASE num # BufCount - 1
  BY <1>1, <1>3, <1>5, <1>6, <1>7, <1>8, <1>10
<1>11. QED
  BY <1>9, <1>10

\* After a frame that reaches the screen the next slot is the one after it.
LEMMA HitKeepsRing ==
  ASSUME TypeOK, front' = num, misses' = 0, Advance
  PROVE  Ring'
<1>1. num \in 0..(BufCount - 1) /\ BufCount \in Nat
  BY BufCountAssumption DEF TypeOK, Slots
<1>2. num' = IF num = BufCount - 1 THEN 0 ELSE num + 1
  BY NextSlot DEF Advance, TypeOK
<1>3. QED
  BY <1>1, <1>2 DEF Ring

\* Every step preserves the type invariant.
LEMMA StepType == TypeOK /\ [Next]_vars => TypeOK'
<1> SUFFICES ASSUME TypeOK, [Next]_vars
             PROVE  TypeOK'
  OBVIOUS
<1> USE BufCountAssumption DEF TypeOK
<1>1. ASSUME NEW objs \in [Objects -> {"none", "live", "freed"}], NEW S
      PROVE  Freed(objs, S) \in [Objects -> {"none", "live", "freed"}]
  BY DEF Freed
<1>2. ASSUME NEW n
      PROVE  LiveUpTo(n) \in [Objects -> {"none", "live", "freed"}]
  BY DEF LiveUpTo
<1>3. ASSUME NEW objs, NEW S \in SUBSET Objects
      PROVE  NotLive(objs, S) \subseteq Objects
  BY DEF NotLive
<1>4. ASSUME NEW n \in 1..Len(Acquired)
      PROVE  FirstAcquired(n - 1) \subseteq Objects /\ Unwind(n) \subseteq Objects
  BY DEF FirstAcquired, Unwind, Acquired, Objects
<1>5. Len(Acquired) \in 1..Len(Acquired)
  BY DEF Acquired
<1>6. CASE DrmInitFails
  <2>1. PICK n \in 1..Len(Acquired) :
          /\ object' = Freed(LiveUpTo(n - 1), Unwind(n))
          /\ freedTwice' = NotLive(LiveUpTo(n - 1), Unwind(n))
          /\ dev' = FirstAcquired(n - 1) \cap {"fd", "dpms", "primary"}
    BY <1>6 DEF DrmInitFails
  <2>2. object' \in [Objects -> {"none", "live", "freed"}]
    BY <2>1, <1>1, <1>2
  <2>3. freedTwice' \subseteq Objects /\ dev' \subseteq Objects
    BY <2>1, <1>3, <1>4
  <2>4. QED
    BY <2>2, <2>3, <1>6 DEF DrmInitFails, InitLeaves
<1>7. CASE DrmInitSucceeds
  <2>1. object' \in [Objects -> {"none", "live", "freed"}]
    BY <1>7, <1>1, <1>2 DEF DrmInitSucceeds, Found
  <2>2. QED
    BY <2>1, <1>7 DEF DrmInitSucceeds, Found, InitLeaves
<1>8. CASE DrmInitZposFails
  <2> DEFINE objs == Freed(LiveUpTo(Len(Acquired)), {"res"})
  <2>1. objs \in [Objects -> {"none", "live", "freed"}]
    BY <1>1, <1>2
  <2>2. /\ Found(Freed(objs, Unwind(Len(Acquired))))
        /\ freedTwice' = NotLive(objs, Unwind(Len(Acquired)))
    BY <1>8 DEF DrmInitZposFails
  <2>3. object' \in [Objects -> {"none", "live", "freed"}]
    BY <2>1, <2>2, <1>1 DEF Found
  <2>4. freedTwice' \subseteq Objects
    BY <2>2, <1>3, <1>4, <1>5
  <2>5. QED
    BY <2>2, <2>3, <2>4 DEF Found, InitLeaves
<1>9. CASE DrmGetBuffer
  <2>1. Empty \in Buffers /\ LeftByFailure \subseteq Buffers
        /\ [map |-> TRUE, dmabuf |-> TRUE, fb |-> TRUE] \in Buffers
    BY DEF Empty, Buffers, LeftByFailure
  <2>2. buf' \in [Slots -> Buffers]
    BY <2>1, <1>9 DEF DrmGetBuffer
  <2>3. got' \in 0..BufCount
    BY <1>9 DEF DrmGetBuffer
  <2>4. pc' \in {"init", "buffers", "loop", "closing", "closed", "dead"}
    BY <1>9 DEF DrmGetBuffer
  <2>5. QED
    BY <2>2, <2>3, <2>4, <1>9 DEF DrmGetBuffer
<1>10. ASSUME Missed
       PROVE  misses' \in 0..BufCount
  BY <1>10 DEF Missed
<1>11. Advance => num' \in Slots
  BY NextSlotType DEF Advance
<1>12. CASE BlitFails
  BY <1>12, <1>10, <1>11 DEF BlitFails
<1>13. CASE BlitAndCommit
  <2>1. misses' \in 0..BufCount
    BY <1>13, <1>10 DEF BlitAndCommit
  <2>2. front' \in Slots \cup {NoSlot}
    BY <1>13 DEF BlitAndCommit
  <2>3. deadUse' \in BOOLEAN
    BY <1>13 DEF BlitAndCommit
  <2>4. QED
    BY <2>1, <2>2, <2>3, <1>11, <1>13 DEF BlitAndCommit
<1>14. CASE Stop
  BY <1>14 DEF Stop
<1>15. ASSUME NEW i \in Slots, DrmPutBuffer(i)
       PROVE  TypeOK'
  <2>1. buf' \in [Slots -> Buffers]
    BY <1>15 DEF DrmPutBuffer, Empty, Buffers
  <2>2. QED
    BY <2>1, <1>15 DEF DrmPutBuffer
<1>16. CASE DrmDeinit
  <2>1. object' \in [Objects -> {"none", "live", "freed"}]
    BY <1>16, <1>1 DEF DrmDeinit
  <2>2. freedTwice' \subseteq Objects
    BY <1>16, <1>3 DEF DrmDeinit
  <2>3. QED
    BY <2>1, <2>2, <1>16 DEF DrmDeinit
<1>17. CASE DrmInitDies
  BY <1>17 DEF DrmInitDies, InitLeaves
<1>18. CASE UNCHANGED vars
  BY <1>18 DEF vars
<1>19. QED
  BY <1>6, <1>7, <1>8, <1>9, <1>12, <1>13, <1>14, <1>15, <1>16, <1>17, <1>18 DEF Next

\* Every step preserves Ring: only display_commit and drmPutBuffer touch it.
LEMMA StepRing == IInv /\ [Next]_vars => Ring'
<1> SUFFICES ASSUME TypeOK, Ring, [Next]_vars
             PROVE  Ring'
  BY DEF IInv
<1>1. CASE UNCHANGED <<front, num, misses>>
  BY <1>1 DEF Ring
<1>2. CASE BlitFails
  BY <1>2, MissKeepsRing DEF BlitFails
<1>3. CASE BlitAndCommit
  BY <1>3, MissKeepsRing, HitKeepsRing DEF BlitAndCommit
<1>4. ASSUME NEW i \in Slots, DrmPutBuffer(i)
      PROVE  Ring'
  <2>1. (front' = front \/ front' = NoSlot) /\ UNCHANGED <<num, misses>>
    BY <1>4 DEF DrmPutBuffer
  <2>2. QED
    BY <2>1 DEF Ring
<1>5. QED
  BY <1>1, <1>2, <1>3, <1>4
  DEF Next, DrmInitFails, DrmInitDies, DrmInitSucceeds, DrmInitZposFails, Found, InitLeaves,
      DrmGetBuffer, Stop, DrmDeinit, vars

\* Ring keeps the next frame off the slot on screen.
LEMMA RingIsOffScreen == IInv => DrawsOffScreen
<1> SUFFICES ASSUME TypeOK, Ring, front = num
             PROVE  misses >= BufCount - 1
  BY DEF IInv, DrawsOffScreen
<1>1. num \in 0..(BufCount - 1) /\ misses \in 0..BufCount /\ BufCount \in Nat /\ front # NoSlot
  BY BufCountAssumption DEF TypeOK, Slots, NoSlot
<1>2. QED
  BY <1>1 DEF Ring

-----------------------------------------------------------------------------
(* What drmInit obtains and frees.                                         *)

LEMMA InitHeld == Init => Held
BY DEF Init, Held, ObjectsHeld, PlainDevice, SlotsHeld, Objects, Empty

\* A chain of labels that starts at object n frees what was obtained before n,
\* each once, and nothing but drm_fd is left.
LEMMA UnwindClean ==
  ASSUME NEW n \in 1..Len(Acquired)
  PROVE  /\ NotLive(LiveUpTo(n - 1), Unwind(n)) = {}
         /\ \A o \in Objects : Freed(LiveUpTo(n - 1), Unwind(n))[o] = "live" => o = "fd"
<1>1. \A o \in Objects : LiveUpTo(n - 1)[o] = IF o \in FirstAcquired(n - 1) THEN "live" ELSE "none"
  BY DEF LiveUpTo
<1>2. FirstAcquired(n - 1) \subseteq Objects
  BY DEF FirstAcquired, Acquired, Objects
<1>3. \A o \in Objects :
        Freed(LiveUpTo(n - 1), Unwind(n))[o] = IF o \in Unwind(n) THEN "freed" ELSE LiveUpTo(n - 1)[o]
  BY DEF Freed
<1>4. QED
  BY <1>1, <1>2, <1>3 DEF Unwind, NotLive

\* A successful drmInit has everything but res.
LEMMA AllObtained ==
  /\ Freed(LiveUpTo(Len(Acquired)), {"res"})["res"] = "freed"
  /\ \A o \in Objects \ {"res"} : Freed(LiveUpTo(Len(Acquired)), {"res"})[o] = "live"
<1>1. \A o \in Objects : o \in FirstAcquired(Len(Acquired))
  <2>1. Len(Acquired) = 7
    BY DEF Acquired
  <2>2. \A o \in Objects : \E k \in 1..7 : Acquired[k] = o
    BY DEF Acquired, Objects
  <2>3. QED
    BY <2>1, <2>2 DEF FirstAcquired
<1>2. QED
  BY <1>1 DEF Freed, LiveUpTo, Objects

\* Every step keeps Held.
LEMMA StepHeld == TypeOK /\ Held /\ [Next]_vars => Held'
<1> SUFFICES ASSUME TypeOK, Held, [Next]_vars
             PROVE  Held'
  OBVIOUS
<1> USE DEF Held, ObjectsHeld, PlainDevice, SlotsHeld
<1>1. CASE DrmInitFails
  <2>1. PICK n \in 1..Len(Acquired) :
          /\ object' = Freed(LiveUpTo(n - 1), Unwind(n))
          /\ freedTwice' = NotLive(LiveUpTo(n - 1), Unwind(n))
    BY <1>1 DEF DrmInitFails
  <2>2. freedTwice' = {} /\ \A o \in Objects : object'[o] = "live" => o = "fd"
    BY <2>1, UnwindClean
  <2>3. QED
    BY <2>2, <1>1 DEF DrmInitFails, InitLeaves
<1>2. CASE DrmInitSucceeds
  <2>1. object'["res"] = "freed" /\ \A o \in Objects \ {"res"} : object'[o] = "live"
    BY <1>2, AllObtained DEF DrmInitSucceeds, Found
  <2>2. QED
    BY <2>1, <1>2 DEF DrmInitSucceeds, Found, InitLeaves
<1>3. CASE DrmInitZposFails
  <2> DEFINE objs == Freed(LiveUpTo(Len(Acquired)), {"res"})
  <2>1. object' = Freed(objs, Unwind(Len(Acquired))) /\ zposChecked' /\ initOk' /\ pc' = "buffers"
        /\ dev' = Objects \ {"res"} /\ UNCHANGED <<buf, got>>
    BY <1>3 DEF DrmInitZposFails, Found, InitLeaves
  <2>2. object'["res"] = "freed"
    BY <2>1, AllObtained DEF Freed, Objects
  <2>3. QED
    BY <2>1, <2>2, <1>3 DEF DrmInitZposFails
<1>4. CASE DrmGetBuffer
  <2>1. UNCHANGED <<zposChecked, object, freedTwice, dev, initOk, deadUse>>
        /\ pc = "buffers" /\ pc' \in {"buffers", "loop"} /\ got < BufCount
    BY <1>4 DEF DrmGetBuffer
  <2>2. ObjectsHeld' /\ PlainDevice'
    BY <2>1
  <2>3. got \in Nat /\ got \in Slots /\ Slots \subseteq Nat
    BY <2>1, BufCountAssumption DEF TypeOK, Slots
  <2>4. CASE got' = got + 1
    <3>1. \A i \in Slots : i >= got + 1 => buf'[i] = Empty
      BY <2>1, <2>3, <2>4, <1>4 DEF DrmGetBuffer, TypeOK
    <3>2. QED
      BY <2>1, <2>2, <2>3, <2>4, <3>1 DEF Empty
  <2>5. CASE got' = got
    <3>1. PICK left \in LeftByFailure : buf' = [buf EXCEPT ![got] = left] /\ pc' = "loop"
      BY <2>3, <2>5, <1>4 DEF DrmGetBuffer
    <3>2. ~left.fb
      BY DEF LeftByFailure, Empty
    <3>3. \A i \in Slots : buf'[i] = IF i = got THEN left ELSE buf[i]
      BY <3>1 DEF TypeOK
    <3>4. QED
      BY <2>1, <2>2, <2>3, <2>5, <3>1, <3>2, <3>3
  <2>6. QED
    BY <2>4, <2>5, <1>4 DEF DrmGetBuffer
<1>5. CASE BlitFails
  BY <1>5 DEF BlitFails
<1>6. CASE BlitAndCommit
  <2>1. initOk
    BY <1>6 DEF BlitAndCommit, CanBlit, Empty, TypeOK
  <2>2. ~zposChecked => NotLive(object, {"crtc", "overlay"}) = {}
    BY <2>1, <1>6 DEF BlitAndCommit, NotLive, Objects
  <2>3. QED
    BY <2>2, <1>6 DEF BlitAndCommit
<1>7. CASE Stop
  BY <1>7 DEF Stop
<1>8. ASSUME NEW i \in Slots, DrmPutBuffer(i)
      PROVE  Held'
  <2>1. \A j \in Slots : buf'[j] = IF j = i THEN Empty ELSE buf[j]
    BY <1>8 DEF DrmPutBuffer, TypeOK
  <2>2. QED
    BY <2>1, <1>8 DEF DrmPutBuffer, Empty
<1>9. CASE DrmDeinit
  <2>1. dev = Objects \ {"res"} /\ object["res"] = "freed" /\ pc = "closing" /\ pc' = "closed" /\ initOk
    BY <1>9 DEF DrmDeinit
  <2>2. \A o \in Objects : object'[o] = "freed"
    BY <2>1, <1>9 DEF DrmDeinit, Freed
  <2>3. ~zposChecked => NotLive(object, dev) = {}
    BY <2>1 DEF NotLive
  <2>4. QED
    BY <2>1, <2>2, <2>3, <1>9 DEF DrmDeinit, Objects
<1>10. CASE DrmInitDies
  BY <1>10 DEF DrmInitDies, InitLeaves
<1>11. CASE UNCHANGED vars
  BY <1>11 DEF vars
<1>12. QED
  BY <1>1, <1>2, <1>3, <1>4, <1>5, <1>6, <1>7, <1>8, <1>9, <1>10, <1>11 DEF Next

LEMMA HeldAlways == Spec => [](TypeOK /\ Held)
<1>1. Init => TypeOK /\ Held
  BY InitInv, InitHeld DEF IInv
<1>2. TypeOK /\ Held /\ [Next]_vars => (TypeOK /\ Held)'
  BY StepType, StepHeld
<1>3. QED
  BY <1>1, <1>2, PTL DEF Spec

-----------------------------------------------------------------------------

\* The type invariant, for any number of buffers.
THEOREM TypeCorrect == Spec => []TypeOK
<1>1. Init => TypeOK
  BY InitInv DEF IInv
<1>2. QED
  BY <1>1, StepType, PTL DEF Spec

\* Whatever blits and commits fail, and however many buffers there are,
\* display_commit draws into the slot on screen only when every other buffer
\* has failed to reach the screen since.
THEOREM OffScreen == Spec => []DrawsOffScreen
<1>1. IInv /\ [Next]_vars => IInv'
  BY StepType, StepRing DEF IInv
<1>2. QED
  BY InitInv, <1>1, RingIsOffScreen, PTL DEF Spec

\* On no error path of drmInit, and not in drmDeinit, is an object freed that is
\* not live, as long as the ZPOS branch is compiled out.
THEOREM FreedOnce == Spec => []NoDoubleFree
<1>1. TypeOK /\ Held => NoDoubleFree
  BY DEF Held, PlainDevice, NoDoubleFree
<1>2. QED
  BY <1>1, HeldAlways, PTL

\* display_commit after a display_init that failed never reaches drmCommit: the
\* blit has no mapping to read.
THEOREM NotUsedDead == Spec => []NoDeadUse
<1>1. TypeOK /\ Held => NoDeadUse
  BY DEF Held, PlainDevice, NoDeadUse
<1>2. QED
  BY <1>1, HeldAlways, PTL

\* Whichever call fails, and however many buffers there are, what is left behind
\* is drm_fd of a failed drmInit, and the slot on which drmModeAddFB2 failed.
THEOREM LeftBehind == Spec => []NothingLeaked
<1>1. TypeOK /\ Held => NothingLeaked
  <2> SUFFICES ASSUME TypeOK, Held, pc = "closed" \/ (pc # "init" /\ ~initOk)
               PROVE  /\ \A o \in Objects : object[o] = "live" => o = "fd" /\ ~initOk
                      /\ \A i \in Slots : ~buf[i].fb /\ (buf[i].map \/ buf[i].dmabuf => i = got)
    BY DEF NothingLeaked
  <2>1. \A o \in Objects : object[o] = "live" => o = "fd" /\ ~initOk
    BY DEF Held, ObjectsHeld
  <2>2. ASSUME NEW i \in Slots
        PROVE  ~buf[i].fb /\ (buf[i].map \/ buf[i].dmabuf => i = got)
    <3>1. got \in Nat /\ i \in Nat
      BY BufCountAssumption DEF TypeOK, Slots
    <3>2. buf[i] = Empty \/ (i = got /\ ~buf[i].fb)
      BY <3>1 DEF Held, SlotsHeld
    <3>3. QED
      BY <3>2 DEF Empty
  <2>3. QED
    BY <2>1, <2>2
<1>2. QED
  BY <1>1, HeldAlways, PTL
=============================================================================
