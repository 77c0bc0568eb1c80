------------------------------ MODULE DrmDisplay ------------------------------
(***************************************************************************)
(* The DRM output of rkdrm_display/ (rkdrm_display.c, main.c) and of       *)
(* ffDecDisplayTest/, which shares its code: drmInit finds and keeps the   *)
(* device's objects, drmGetBuffer allocates BUF_COUNT buffers, and each    *)
(* display_commit draws into one buffer of the ring and puts it on screen. *)
(* drmPutBuffer and drmDeinit are what the header offers a caller to give  *)
(* everything back.                                                        *)
(*                                                                         *)
(* Every libdrm call and every blit may fail.  The programs ignore the     *)
(* result of display_init and of display_commit.  The kernel and the RGA   *)
(* blitter are external.  The two main functions never call drmPutBuffer   *)
(* and drmDeinit: the caller that does is one that puts back what it got.  *)
(***************************************************************************)
EXTENDS Integers, Sequences, FiniteSets

CONSTANT BufCount     \* BUF_COUNT

ASSUME BufCountAssumption == BufCount \in Nat \ {0}

Slots    == 0..(BufCount - 1)
NoSlot   == -1
Acquired == <<"fd", "res", "connector", "dpms", "crtc", "primary", "overlay">>
Objects  == {"fd", "res", "connector", "dpms", "crtc", "primary", "overlay"}

VARIABLES zposChecked, \* drmInit sets ZPOS and checks it: TRUE in
                      \* rkdrm_display, FALSE (#if 0) in ffDecDisplayTest
          pc,         \* where the program is
          object,     \* the libdrm objects drmInit obtains
          freedTwice, \* the objects freed when they were not live
          dev,        \* the pointers of struct drm_dev that are set
          initOk,     \* drmInit returned 0
          buf,        \* what each slot of disp->buf holds
          got,        \* how many calls of drmGetBuffer have returned 0
          num,        \* display_commit's static num
          front,      \* the slot on screen
          misses,     \* the frames in a row that did not reach the screen,
                      \* up to BufCount
          deadUse     \* drmCommit has used a freed or absent object

vars == <<zposChecked, pc, object, freedTwice, dev, initOk, buf, got, num, front, misses, deadUse>>

Buffers == [map : BOOLEAN, dmabuf : BOOLEAN, fb : BOOLEAN]
Empty   == [map |-> FALSE, dmabuf |-> FALSE, fb |-> FALSE]

TypeOK ==
  /\ zposChecked \in BOOLEAN
  /\ pc \in {"init", "buffers", "loop", "closing", "closed", "dead"}
  /\ object \in [Objects -> {"none", "live", "freed"}]
  /\ freedTwice \subseteq Objects
  /\ dev \subseteq Objects
  /\ initOk \in BOOLEAN
  /\ buf \in [Slots -> Buffers]
  /\ got \in 0..BufCount
  /\ num \in Slots
  /\ front \in Slots \cup {NoSlot}
  /\ misses \in 0..BufCount
  /\ deadUse \in BOOLEAN

Init ==
  /\ zposChecked \in BOOLEAN
  /\ pc = "init"
  /\ object = [o \in Objects |-> "none"]
  /\ freedTwice = {} /\ dev = {} /\ initOk = FALSE
  /\ buf = [i \in Slots |-> Empty] /\ got = 0
  /\ num = 0 /\ front = NoSlot /\ misses = 0
  /\ deadUse = FALSE

-----------------------------------------------------------------------------
(* drmInit and drmDeinit.                                                  *)

\* The objects in state objs once those of S have been freed.
Freed(objs, S) == [o \in Objects |-> IF o \in S THEN "freed" ELSE objs[o]]

NotLive(objs, S) == {o \in S : objs[o] # "live"}

FirstAcquired(n) == {Acquired[k] : k \in 1..n}

LiveUpTo(n) == [o \in Objects |-> IF o \in FirstAcquired(n) THEN "live" ELSE "none"]

\* Mutant: the label chain starts one step too low.
UnwindLess(n) == FirstAcquired(n - 2) \ {"fd"}

\* Mutant: the chain frees the object that could not be obtained as well.
UnwindMore(n) == FirstAcquired(n) \ {"fd"}

\* What the chain of labels frees when object number n cannot be obtained.
Unwind(n) == FirstAcquired(n - 1) \ {"fd"}

InitLeaves == UNCHANGED <<zposChecked, buf, got, num, front, misses, deadUse>>

\* drmOpen, drmSetClientCap or the search for object number n fails: what was
\* obtained is freed, but drm_fd stays open and dpms and primary stay set.
DrmInitFails ==
  /\ pc = "init"
  /\ \E n \in 1..Len(Acquired) :
       /\ object' = Freed(LiveUpTo(n - 1), Unwind(n))
       /\ freedTwice' = NotLive(LiveUpTo(n - 1), Unwind(n))
       /\ dev' = FirstAcquired(n - 1) \cap {"fd", "dpms", "primary"}
  /\ pc' = "loop"
  /\ UNCHANGED initOk
  /\ InitLeaves

\* A property, a plane, the list of planes or an encoder that libdrm does not give
\* is a null pointer, which the searches and drmFillPlaneProp follow: the process
\* dies, and the kernel takes back what it had.
DrmInitDies ==
  /\ pc = "init"
  /\ pc' = "dead"
  /\ UNCHANGED <<object, freedTwice, dev, initOk>>
  /\ InitLeaves

\* All objects are found; res is freed, everything else is kept in dev.
Found(objs) ==
  /\ dev' = Objects \ {"res"}
  /\ object' = objs
  /\ initOk' = TRUE
  /\ pc' = "buffers"
  /\ InitLeaves

DrmInitSucceeds ==
  /\ pc = "init"
  /\ Found(Freed(LiveUpTo(Len(Acquired)), {"res"}))
  /\ UNCHANGED freedTwice

\* Setting ZPOS fails: the chain of err_plane_overlay runs, res a second time,
\* but ret is still 0 and dev keeps its pointers.
DrmInitZposFails ==
  /\ pc = "init"
  /\ zposChecked
  /\ LET objs == Freed(LiveUpTo(Len(Acquired)), {"res"})
         n    == Len(Acquired)
     IN /\ Found(Freed(objs, Unwind(n)))
        /\ freedTwice' = NotLive(objs, Unwind(n))

\* A caller that is done, once its buffers are put back.
DrmDeinit ==
  /\ pc = "closing"
  /\ \A i \in Slots : i < got => buf[i] = Empty
  /\ object' = Freed(object, dev)
  /\ freedTwice' = freedTwice \cup NotLive(object, dev)
  /\ pc' = "closed"
  /\ UNCHANGED <<zposChecked, dev, initOk, buf, got, num, front, misses, deadUse>>

-----------------------------------------------------------------------------
(* The buffers.                                                            *)

\* What drmGetBuffer may leave in a slot with an error: nothing, or, when
\* drmModeAddFB2 is what failed, the mapping and the dma-buf.
LeftByFailure == {Empty, [map |-> TRUE, dmabuf |-> TRUE, fb |-> FALSE]}

\* The dumb handle is destroyed in every case: the mapping, the dma-buf and
\* the framebuffer keep the memory.
DrmGetBuffer ==
  /\ pc = "buffers"
  /\ got < BufCount
  /\ \/ /\ buf' = [buf EXCEPT ![got] = [map |-> TRUE, dmabuf |-> TRUE, fb |-> TRUE]]
        /\ got' = got + 1
        /\ pc' = IF got' = BufCount THEN "loop" ELSE "buffers"
     \* display_init returns -1 and the program goes on.
     \/ /\ \E left \in LeftByFailure : buf' = [buf EXCEPT ![got] = left]
        /\ pc' = "loop"
        /\ UNCHANGED got
  /\ UNCHANGED <<zposChecked, object, freedTwice, dev, initOk, num, front, misses, deadUse>>

\* The caller puts back a buffer drmGetBuffer has given it.
DrmPutBuffer(i) ==
  /\ pc = "closing"
  /\ i < got /\ buf[i] # Empty
  /\ buf' = [buf EXCEPT ![i] = Empty]
  /\ front' = IF front = i THEN NoSlot ELSE front
  /\ UNCHANGED <<zposChecked, pc, object, freedTwice, dev, initOk, got, num, misses, deadUse>>

\* The caller stops displaying; only a device that was opened can be closed.
Stop ==
  /\ pc = "loop" /\ initOk
  /\ pc' = "closing"
  /\ UNCHANGED <<zposChecked, object, freedTwice, dev, initOk, buf, got, num, front, misses, deadUse>>

-----------------------------------------------------------------------------
(* display_commit.                                                         *)

\* Mutant: the result of the blit is ignored.
CanBlitAlways(i) == i \in Slots

\* The blit into a slot without a mapping fails.
CanBlit(i) == buf[i].map

\* Mutant: num wraps one slot too late.
AdvanceLate == num' = (num + 1) % (BufCount + 1)

\* Mutant: num wraps one slot too early.
AdvanceShort == num' = IF BufCount > 1 THEN (num + 1) % (BufCount - 1) ELSE 0

Advance == num' = (num + 1) % BufCount

Missed == misses' = IF misses < BufCount THEN misses + 1 ELSE misses

\* rga fail: drm_commit returns, the slot may be half drawn.
BlitFails ==
  /\ pc = "loop"
  /\ Missed
  /\ Advance
  /\ UNCHANGED <<zposChecked, pc, object, freedTwice, dev, initOk, buf, got, front, deadUse>>

\* The frame is drawn and drmCommit uses the crtc and the overlay plane.
BlitAndCommit ==
  /\ pc = "loop"
  /\ CanBlit(num)
  /\ deadUse' = (deadUse \/ NotLive(object, {"crtc", "overlay"}) # {})
  /\ \/ Missed /\ UNCHANGED front              \* the kernel refuses the commit
     \/ buf[num].fb /\ front' = num /\ misses' = 0
  /\ Advance
  /\ UNCHANGED <<zposChecked, pc, object, freedTwice, dev, initOk, buf, got>>

Next ==
  \/ DrmInitFails \/ DrmInitDies \/ DrmInitSucceeds \/ DrmInitZposFails
  \/ DrmGetBuffer \/ BlitFails \/ BlitAndCommit
  \/ Stop \/ (\E i \in Slots : DrmPutBuffer(i)) \/ DrmDeinit

Spec == Init /\ [][Next]_vars

-----------------------------------------------------------------------------
(* Properties.                                                             *)

\* Without the ZPOS branch no object is freed twice, or freed without having
\* been obtained, on any error path of drmInit or in drmDeinit.
NoDoubleFree == ~zposChecked => freedTwice = {}

\* Without the ZPOS branch drmCommit never runs on a device that drmInit failed
\* to open, although the program ignores that it failed.
NoDeadUse == ~zposChecked => ~deadUse

\* A failed drmInit leaves nothing but drm_fd open, and a caller that has put
\* everything back leaves no object behind; a buffer is left only by a
\* drmModeAddFB2 that failed.
NothingLeaked ==
  (pc = "closed" \/ (pc # "init" /\ ~initOk)) =>
    /\ \A o \in Objects : object[o] = "live" => o = "fd" /\ ~initOk
    /\ \A i \in Slots : ~buf[i].fb /\ (buf[i].map \/ buf[i].dmabuf => i = got)

\* The next frame is drawn into the buffer on screen only after all of the
\* other buffers have failed to reach the screen.
DrawsOffScreen == front = num => misses >= BufCount - 1

\* rkdrm_display.c:570 "set ZPOS property failed!", main.c:40 "drmInit: Failed":
\* when drmInit returns 0, everything dev points to is live.
InitSuccessIsUsable ==
  initOk /\ pc # "closed" => \A o \in dev : object[o] = "live"
=============================================================================
