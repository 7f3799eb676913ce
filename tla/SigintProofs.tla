---------------------------- MODULE SigintProofs ----------------------------
(* Proofs about Sigint, for every set of sources and threads, every number   *)
(* of episodes and of presses.                                               *)
EXTENDS Sigint, TLAPS

\* Even generations are complete: the mirror is then the source they
\* installed, and Base's own record names a generation with its source.
SwapInv ==
    /\ ses.pc \in {"idle", "record"} => egen % 2 = 0 /\ mirror = owner[egen]
    /\ ses.pc \in {"store", "finish"} => egen % 2 = 1 /\ egen + 1 \in Gens
    /\ ses.pc = "finish" => mirror = ses.src
    /\ ses.pc = "record" => ses.gen = egen /\ owner[egen] = ses.src
    /\ episode.gen <= egen /\ owner[episode.gen] = episode.src

\* The seqlock: a snapshot whose generation has not moved is consistent, and
\* a verified one stays so; the source is marked before the flag goes up.
SignalInv ==
    /\ sig.pc \in {"src", "verify"} => sig.gen % 2 = 0 /\ sig.gen <= egen
    /\ sig.pc = "verify" /\ sig.gen = egen => sig.src = owner[egen]
    /\ sig.pc \in {"mark", "flag", "pend", "lock", "notify", "wake"} =>
         sig.gen \in pressed /\ owner[sig.gen] = sig.src
    /\ sig.pc = "mark" => sig.src # NoSrc
    /\ sig.pc \in {"flag", "pend", "lock", "notify", "wake"} /\ sig.src # NoSrc =>
         sig.src \in marked

\* A published press was targeted by the signal thread.
PendingInv == pending # 0 => pending \in pressed

\* What a pass has read is an episode that was installed, and it delivers
\* only to one that was pressed, also after it has waited for a walk lock.
PassInv ==
    /\ \A t \in Threads :
         /\ th[t].pc = "consume" => th[t].gen <= egen /\ owner[th[t].gen] = th[t].src
         /\ th[t].pc \in {"deliver", "walk"} =>
              th[t].src # NoSrc /\ \E g \in pressed : owner[g] = th[t].src
    /\ walk.src # NoSrc => \E g \in pressed : owner[g] = walk.src

\* Only generations that exist are pressed.
PressedInv == \A g \in pressed : g <= egen

InPass(t) == th[t].pc \in {"claim", "read", "consume", "deliver", "walk", "unlock", "exit"}

\* A thread in a pass runs the lock's owner, and the lock's count is that of
\* the passes begun and not ended, the one that waits included.
LockInv ==
    /\ \A t \in Threads : InPass(t) =>
         passLock.by = t /\ passLock.count = IF walk.src = NoSrc THEN 1 ELSE 2
    /\ (\A t \in Threads : ~InPass(t)) =>
         passLock.count = IF walk.src = NoSrc THEN 0 ELSE 1

\* Each source is installed once, and tasks park under it only after that.
FreshInv ==
    /\ \A g, h \in Gens : owner[g] = owner[h] /\ owner[g] # NoSrc => g = h
    /\ \A g \in Gens : g > egen => owner[g] = NoSrc
    /\ parked \subseteq handed
    /\ \A s \in handed : \E g \in Gens : owner[g] = s
    /\ ses.pc \in {"store", "finish"} /\ ses.src # NoSrc => \A g \in Gens : owner[g] # ses.src
    /\ ses.pc = "record" => ses.src \notin handed

\* Once the current generation is pressed, the signal thread targets it, and
\* publishes no other.
TargetInv ==
    egen \in pressed =>
        /\ sig.pc \in {"mark", "flag", "pend", "lock", "notify", "wake"} => sig.gen = egen
        /\ sig.pc \notin {"mark", "flag", "pend"} => pending \in {0, egen}

\* A press that the tasks parked under s wait for, and what will wake them:
\* the press is not yet published; or it is, and the flag will be or has been
\* raised after that, or claimed by a pass that has yet to consume the press;
\* or a pass has consumed it and has yet to walk s.
Waits(s) ==
    /\ s \in (marked \cap parked) \ missed
    /\ episode.src = s /\ episode.gen = egen /\ ~exited

Reader(t) == th[t].pc = "read" \/ (th[t].pc = "consume" /\ th[t].gen = egen)
Walker(t, s) == th[t].pc \in {"deliver", "walk"} /\ th[t].src = s

Covered(s) ==
    \/ sig.pc \in {"mark", "flag", "pend"} /\ sig.src = s
    \/ pending = egen /\ (flag \/ sig.pc \in {"lock", "notify"} \/ \E t \in Threads : Reader(t))
    \/ walk.src = s
    \/ \E t \in Threads : Walker(t, s)

CoverInv == \A s \in Sources : Waits(s) => Covered(s)

IInv ==
    /\ TypeOK
    /\ SwapInv /\ SignalInv /\ PendingInv /\ PassInv /\ PressedInv
    /\ LockInv /\ FreshInv /\ TargetInv /\ CoverInv
    /\ OnlyPressedAreCancelled /\ PendingIsMarked /\ NoStrayExit

-----------------------------------------------------------------------------
(* Which variables a step of each actor leaves alone.                        *)

ThreadStep(t) == Idle(t) \/ RunTask(t) \/ Schedule(t)

\* A session step disturbs the episode's variables only.
LEMMA SessionFrame ==
  ASSUME Session
  PROVE  UNCHANGED <<pressVars, threadVars, flag, async, marked, parked, missed>>
BY DEF Session, SwapBegin, SwapStore, SwapFinish, Record, pressVars, threadVars

\* A step of the signal thread leaves the episode's variables, and every
\* thread's locals, alone; marks and targeted generations only accumulate.
LEMMA SignalFrame ==
  ASSUME Press \/ Signal
  PROVE  /\ UNCHANGED <<swapVars, listener, passLock, walk, exited, parked>>
         /\ marked \subseteq marked'
         /\ pressed \subseteq pressed'
         /\ UNCHANGED th \/ \E t \in Threads : th' = [th EXCEPT ![t] = Awakened(@)]
<1>1. CASE Press
  BY <1>1 DEF Press, swapVars, threadVars
<1>2. CASE Signal
  BY <1>2 DEF Signal, SnapGen, SnapSource, SnapVerify, Mark, RaiseFlag, PublishPending,
              NotifyLock, Notify, NotifyUnlock, WakeThread, swapVars, threadVars
<1> QED
  BY <1>1, <1>2

\* A step of a Julia thread leaves the episode's and the signal thread's
\* variables alone, and takes back no mark.
LEMMA ThreadFrame ==
  ASSUME NEW t \in Threads, ThreadStep(t)
  PROVE  /\ UNCHANGED <<swapVars, lock, sig, presses, pressed>>
         /\ marked \subseteq marked'
<1>1. CASE Dispatch(t)
  BY <1>1 DEF Dispatch, Peek, TryLock, Claim, ReadEpisode, Consume, Deliver, WalkSource,
              WalkWaits, WalkFails, ResumeWalk, Unlock, OutsideThreads, swapVars, pressVars
<1>2. CASE Idle(t) \/ RunTask(t) \/ Poll(t) \/ RunListener(t) \/ Spin(t)
             \/ StartSleep(t) \/ FallAsleep(t) \/ RunLoop(t)
  BY <1>2 DEF Idle, RunTask, Poll, RunListener, Spin, StartSleep, FallAsleep, RunLoop,
              OutsideThreads, swapVars, pressVars
<1> QED
  BY <1>1, <1>2 DEF ThreadStep, Schedule

\* The actors whose steps make up the next-state relation.
LEMMA Actors ==
  ASSUME [Next]_vars
  PROVE  \/ Session
         \/ \E s \in Sources : ParkUnder(s)
         \/ Press \/ Signal
         \/ \E t \in Threads : ThreadStep(t)
         \/ UNCHANGED vars
BY DEF Next, ThreadStep

-----------------------------------------------------------------------------
(* Types.                                                                    *)

\* The session task keeps the types.
LEMMA SessionTypes ==
  ASSUME IInv, Session
  PROVE  TypeOK'
<1>1. egen' \in 2..MaxGen /\ lock' \in {"free", "session", "signal"}
  BY SigintAssumption DEF IInv, TypeOK, SwapInv, Session, SwapBegin, SwapStore, SwapFinish, Record,
         MaxGen, Gens
<1>2. ses' \in SessionStates
  <2>1. CASE SwapBegin
    BY <2>1, SigintAssumption DEF SwapBegin, SessionStates, Gens, MaxGen
  <2>2. CASE SwapStore \/ SwapFinish \/ Record
    BY <2>2 DEF IInv, TypeOK, SwapInv, SwapStore, SwapFinish, Record, SessionStates
  <2> QED
    BY <2>1, <2>2 DEF Session
<1>3. /\ mirror' \in Sources \cup {NoSrc}
      /\ episode' \in [src : Sources \cup {NoSrc}, gen : Gens]
      /\ handed' \subseteq Sources
      /\ owner' \in [Gens -> Sources \cup {NoSrc}]
  BY DEF IInv, TypeOK, Session, SwapBegin, SwapStore, SwapFinish, Record, SessionStates
<1> QED
  BY <1>1, <1>2, <1>3, SessionFrame DEF IInv, TypeOK, pressVars, threadVars

\* A woken thread's record keeps its type.
LEMMA AwakenedType ==
  ASSUME NEW r \in ThreadStates
  PROVE  Awakened(r) \in ThreadStates
BY DEF Awakened, ThreadStates

\* The signal thread keeps the types.
LEMMA SignalTypes ==
  ASSUME IInv, Press \/ Signal
  PROVE  TypeOK'
<1>1. sig' \in SignalStates
  <2> sig \in SignalStates /\ egen \in Gens /\ mirror \in Sources \cup {NoSrc}
    BY SigintAssumption DEF IInv, TypeOK, Gens, MaxGen
  <2>1. CASE Press \/ SnapGen \/ SnapSource
    BY <2>1 DEF Press, SnapGen, SnapSource, SignalStates
  <2>2. CASE SnapVerify \/ Mark \/ RaiseFlag \/ PublishPending \/ NotifyLock
    BY <2>2 DEF SnapVerify, Mark, RaiseFlag, PublishPending, NotifyLock, SignalStates
  <2>3. CASE Notify \/ \E t \in Threads : WakeThread(t)
    BY <2>3 DEF Notify, WakeThread, SignalStates
  <2>4. CASE NotifyUnlock
    <3> 0 \in Gens
      BY SigintAssumption DEF Gens, MaxGen
    <3> QED
      BY <2>4 DEF NotifyUnlock, SignalStates
  <2> QED
    BY <2>1, <2>2, <2>3, <2>4 DEF Signal
<1>2. /\ presses' \in 0..MaxPresses
      /\ pending' \in Gens
      /\ pressed' \subseteq Gens
      /\ marked' \subseteq Sources /\ missed' \subseteq Sources
      /\ lock' \in {"free", "session", "signal"}
      /\ flag' \in BOOLEAN /\ async' \in BOOLEAN
  <2> /\ presses \in 0..MaxPresses /\ missed \subseteq Sources
      /\ pending \in Gens /\ pressed \subseteq Gens /\ marked \subseteq Sources
      /\ lock \in {"free", "session", "signal"} /\ flag \in BOOLEAN /\ async \in BOOLEAN
      /\ sig.gen \in Gens /\ sig.src \in Sources \cup {NoSrc}
      /\ sig.pc = "mark" => sig.src # NoSrc
    BY DEF IInv, TypeOK, SignalInv, SignalStates
  <2>1. CASE Press
    BY <2>1, SigintAssumption DEF Press
  <2>2. CASE Signal
    BY <2>2 DEF Signal, SnapGen, SnapSource, SnapVerify, Mark, RaiseFlag, PublishPending,
                NotifyLock, Notify, NotifyUnlock, WakeThread
  <2> QED
    BY <2>1, <2>2
<1>3. th' \in [Threads -> ThreadStates]
  <2> th \in [Threads -> ThreadStates]
    BY DEF IInv, TypeOK
  <2> QED
    BY SignalFrame, AwakenedType
<1> QED
  BY <1>1, <1>2, <1>3, SignalFrame DEF IInv, TypeOK, swapVars

\* A Julia thread keeps the types.
LEMMA ThreadTypes ==
  ASSUME IInv, NEW t \in Threads, ThreadStep(t)
  PROVE  TypeOK'
<1> 0 \in Gens
  BY SigintAssumption DEF Gens, MaxGen
<1> th \in [Threads -> ThreadStates] /\ th[t] \in ThreadStates
  BY DEF IInv, TypeOK
<1> /\ [IdleThread EXCEPT !.pc = "look"] \in ThreadStates
    /\ IdleThread \in ThreadStates
    /\ [IdleThread EXCEPT !.pc = "peek", !.asListener = TRUE] \in ThreadStates
  BY DEF IdleThread, ThreadStates
<1> walk \in [src : Sources \cup {NoSrc}, asListener : BOOLEAN]
  BY DEF IInv, TypeOK
<1>1. th' \in [Threads -> ThreadStates]
  <2>1. ASSUME NEW c \in {"busy", "poll", "look", "sleeping", "asleep", "peek", "trylock",
                          "claim", "read", "consume", "deliver", "walk", "unlock", "exit"},
               To(t, c)
        PROVE  th' \in [Threads -> ThreadStates]
    BY <2>1 DEF To, ThreadStates
  <2>2. CASE Idle(t) \/ RunTask(t) \/ Spin(t) \/ StartSleep(t) \/ FallAsleep(t)
    BY <2>2, <2>1 DEF Idle, RunTask, Spin, StartSleep, FallAsleep
  <2>3. CASE Poll(t) \/ Claim(t) \/ Consume(t) \/ Deliver(t) \/ WalkSource(t) \/ WalkFails(t)
    BY <2>3, <2>1 DEF Poll, Claim, Consume, Deliver, WalkSource, WalkFails
  <2>4. CASE EndPass(t)
    BY <2>4 DEF EndPass
  <2>5. CASE Peek(t) \/ TryLock(t) \/ Unlock(t)
    BY <2>5, <2>4, <2>1 DEF Peek, TryLock, Unlock
  <2>6. CASE RunListener(t)
    BY <2>6 DEF RunListener, ThreadStates
  <2>7. CASE ReadEpisode(t)
    BY <2>7 DEF ReadEpisode, ThreadStates, IInv, TypeOK
  <2>8. CASE RunLoop(t)
    <3>1. PICK w \in Threads : th' = [th EXCEPT ![t].pc = "poll", ![w] = Awakened(@)]
      BY <2>8 DEF RunLoop
    <3>2. [th EXCEPT ![t].pc = "poll"] \in [Threads -> ThreadStates]
      BY DEF ThreadStates
    <3> QED
      BY <3>1, <3>2, AwakenedType
  <2>9. CASE WalkWaits(t)
    BY <2>9 DEF WalkWaits
  <2>10. CASE ResumeWalk(t)
    <3> [pc |-> "walk", src |-> walk.src, gen |-> 0, asListener |-> walk.asListener]
          \in ThreadStates
      BY DEF ThreadStates
    <3> QED
      BY <2>10 DEF ResumeWalk
  <2> QED
    BY <2>2, <2>3, <2>5, <2>6, <2>7, <2>8, <2>9, <2>10 DEF ThreadStep, Schedule, Dispatch
<1>2. /\ pending' \in Gens
      /\ flag' \in BOOLEAN /\ async' \in BOOLEAN /\ exited' \in BOOLEAN
      /\ marked' \subseteq Sources /\ parked' \subseteq Sources
      /\ missed' \subseteq Sources
      /\ walk' \in [src : Sources \cup {NoSrc}, asListener : BOOLEAN]
      /\ listener' \in {"parked", "ready", "running", "again"}
  <2> /\ pending \in Gens /\ 0 \in Gens
      /\ flag \in BOOLEAN /\ async \in BOOLEAN /\ exited \in BOOLEAN
      /\ marked \subseteq Sources /\ parked \subseteq Sources /\ missed \subseteq Sources
      /\ listener \in {"parked", "ready", "running", "again"}
      /\ th[t].src \in Sources \cup {NoSrc} /\ th[t].asListener \in BOOLEAN
      /\ th[t].pc \in {"deliver", "walk"} => th[t].src # NoSrc
    BY SigintAssumption DEF IInv, TypeOK, PassInv, ThreadStates, Gens, MaxGen
  <2>1. CASE Idle(t) \/ RunTask(t) \/ Poll(t) \/ RunListener(t) \/ Spin(t)
               \/ StartSleep(t) \/ FallAsleep(t) \/ RunLoop(t)
    BY <2>1 DEF Idle, RunTask, Poll, RunListener, Spin, StartSleep, FallAsleep, RunLoop,
                OutsideThreads, pressVars
  <2>2. CASE Peek(t) \/ TryLock(t) \/ Claim(t) \/ ReadEpisode(t) \/ Consume(t) \/ Unlock(t)
    BY <2>2 DEF Peek, TryLock, Claim, ReadEpisode, Consume, Unlock, EndPass, OutsideThreads,
                pressVars
  <2>3. CASE Deliver(t) \/ WalkSource(t) \/ WalkWaits(t) \/ WalkFails(t) \/ ResumeWalk(t)
    <3>1. CASE Deliver(t) \/ WalkSource(t) \/ WalkFails(t)
      BY <3>1 DEF Deliver, WalkSource, WalkFails, pressVars
    <3>2. CASE WalkWaits(t)
      BY <3>2 DEF WalkWaits, pressVars
    <3>3. CASE ResumeWalk(t)
      BY <3>3 DEF ResumeWalk, NoWalk, pressVars
    <3> QED
      BY <2>3, <3>1, <3>2, <3>3
  <2> QED
    BY <2>1, <2>2, <2>3 DEF ThreadStep, Schedule, Dispatch
<1>3. passLock' \in [by : Threads \cup {NoThread}, count : 0..2]
  <2> passLock \in [by : Threads \cup {NoThread}, count : 0..2]
    BY DEF IInv, TypeOK
  <2>1. CASE TryLock(t)
    <3>1. passLock.by = t => passLock.count <= 1
      BY <2>1 DEF TryLock, IInv, LockInv, InPass
    <3> QED
      BY <2>1, <3>1 DEF TryLock
  <2>2. CASE Unlock(t)
    <3>1. passLock.count \in 1..2
      BY <2>2 DEF Unlock, IInv, LockInv, InPass
    <3> QED
      BY <2>2, <3>1 DEF Unlock
  <2>3. CASE RunTask(t) \/ RunListener(t)
    BY <2>3 DEF RunTask, RunListener, SwitchFrom
  <2>4. CASE ResumeWalk(t)
    BY <2>4 DEF ResumeWalk
  <2>5. TryLock(t) \/ Unlock(t) \/ RunTask(t) \/ RunListener(t) \/ ResumeWalk(t)
          \/ UNCHANGED passLock
    BY DEF ThreadStep, Schedule, Dispatch, Idle, Poll, Spin, StartSleep, FallAsleep, RunLoop,
           Peek, Claim, ReadEpisode, Consume, Deliver, WalkSource, WalkWaits, WalkFails
  <2> QED
    BY <2>1, <2>2, <2>3, <2>4, <2>5
<1> QED
  BY <1>1, <1>2, <1>3, ThreadFrame DEF IInv, TypeOK, swapVars

\* No step leaves the types.
LEMMA TypeStep ==
  ASSUME IInv, [Next]_vars
  PROVE  TypeOK'
<1>1. ASSUME NEW s \in Sources, ParkUnder(s) PROVE TypeOK'
  BY <1>1 DEF ParkUnder, IInv, TypeOK, swapVars, pressVars, threadVars
<1>2. CASE UNCHANGED vars
  BY <1>2 DEF vars, IInv, TypeOK
<1> QED
  BY <1>1, <1>2, Actors, SessionTypes, SignalTypes, ThreadTypes

-----------------------------------------------------------------------------
(* The parts of the invariant.                                               *)

\* A completed swap writes only its own, new generation, so everything known
\* of earlier generations stays true.
LEMMA OwnerKept ==
  ASSUME IInv, Session
  PROVE  /\ egen <= egen'
         /\ \A g \in Gens : g <= egen => owner'[g] = owner[g]
<1> egen \in Nat /\ owner \in [Gens -> Sources \cup {NoSrc}]
  BY SigintAssumption DEF IInv, TypeOK, MaxGen
<1>1. CASE SwapFinish
  <2>1. egen' = egen + 1 /\ owner' = [owner EXCEPT ![egen + 1] = ses.src]
    BY <1>1 DEF SwapFinish
  <2>2. \A g \in Gens : g <= egen => g # egen + 1
    BY DEF Gens
  <2> QED
    BY <2>1, <2>2
<1>2. CASE SwapBegin \/ SwapStore \/ Record
  BY <1>2 DEF SwapBegin, SwapStore, Record
<1> QED
  BY <1>1, <1>2 DEF Session

\* The session's part.
LEMMA SwapStep ==
  ASSUME IInv, [Next]_vars
  PROVE  SwapInv'
<1> /\ egen \in Gens /\ egen \in Nat /\ ses \in SessionStates
    /\ owner \in [Gens -> Sources \cup {NoSrc}]
    /\ episode \in [src : Sources \cup {NoSrc}, gen : Gens]
    /\ SwapInv
  BY SigintAssumption DEF IInv, TypeOK, Gens, MaxGen
<1>1. CASE SwapBegin
  <2>1. (egen + 1) % 2 = 1 /\ egen + 1 + 1 \in Gens
    <3> egen % 2 = 0 /\ egen + 2 <= MaxGen
      BY <1>1 DEF SwapBegin, SwapInv
    <3> MaxGen \in Nat
      BY SigintAssumption DEF MaxGen
    <3> QED
      BY DEF Gens
  <2>2. egen' = egen + 1 /\ ses'.pc = "store" /\ UNCHANGED <<mirror, owner, episode>>
    BY <1>1 DEF SwapBegin
  <2>3. episode.gen <= egen + 1
    BY DEF SwapInv, Gens
  <2> QED
    BY <2>1, <2>2, <2>3 DEF SwapInv
<1>2. CASE SwapStore
  BY <1>2 DEF SwapStore, SwapInv, SessionStates
<1>3. CASE SwapFinish
  <2>1. (egen + 1) % 2 = 0 /\ egen + 1 \in Gens /\ mirror = ses.src
    BY <1>3 DEF SwapFinish, SwapInv, Gens
  <2>2. /\ egen' = egen + 1 /\ ses'.pc = "record" /\ ses'.gen = egen + 1
        /\ ses'.src = ses.src
        /\ owner' = [owner EXCEPT ![egen + 1] = ses.src]
        /\ UNCHANGED <<mirror, episode>>
    BY <1>3 DEF SwapFinish, SessionStates
  <2>3. owner'[egen + 1] = ses.src
    BY <2>1, <2>2
  <2>4. episode.gen <= egen + 1 /\ owner'[episode.gen] = episode.src
    BY <2>2 DEF SwapInv, Gens
  <2> QED
    BY <2>1, <2>2, <2>3, <2>4 DEF SwapInv
<1>4. CASE Record
  BY <1>4 DEF Record, SwapInv, SessionStates
<1>5. CASE UNCHANGED swapVars
  BY <1>5 DEF swapVars, SwapInv
<1>6. UNCHANGED swapVars \/ Session
  <2>1. ASSUME NEW s \in Sources, ParkUnder(s) PROVE UNCHANGED swapVars
    BY <2>1 DEF ParkUnder, swapVars
  <2> QED
    BY <2>1, Actors, SignalFrame, ThreadFrame DEF swapVars, vars
<1> QED
  BY <1>1, <1>2, <1>3, <1>4, <1>5, <1>6 DEF Session

\* The signal thread's part.
LEMMA SignalStep ==
  ASSUME IInv, [Next]_vars
  PROVE  SignalInv'
<1> /\ egen \in Gens /\ egen \in Nat /\ sig \in SignalStates /\ pressed \subseteq Gens
    /\ owner \in [Gens -> Sources \cup {NoSrc}]
    /\ SignalInv /\ SwapInv /\ PressedInv
  BY SigintAssumption DEF IInv, TypeOK, Gens, MaxGen
<1>1. CASE Session
  <2>1. UNCHANGED <<sig, pressed, marked>>
    BY <1>1, SessionFrame DEF pressVars
  <2>2. sig.pc = "verify" /\ sig.gen = egen' => egen' = egen
    BY <1>1, OwnerKept DEF SignalInv, SignalStates, Gens, Session, SwapBegin, SwapStore,
                           SwapFinish, Record
  <2>3. \A g \in pressed : owner'[g] = owner[g]
    BY <1>1, OwnerKept DEF PressedInv
  <2>4. sig.gen \in Gens /\ (sig.gen <= egen => sig.gen <= egen')
    BY <1>1, OwnerKept DEF SignalStates, Gens, Session, SwapBegin, SwapStore,
                           SwapFinish, Record
  <2>5. owner'[egen] = owner[egen]
    BY <1>1, OwnerKept
  <2> QED
    BY <2>1, <2>2, <2>3, <2>4, <2>5 DEF SignalInv
<1>2. CASE Press
  BY <1>2 DEF Press, SignalInv, SignalStates
<1>3. CASE SnapGen
  BY <1>3 DEF SnapGen, SignalInv, SignalStates, swapVars
<1>4. CASE SnapSource
  <2>1. sig.gen = egen => mirror = owner[egen]
    BY <1>4 DEF SnapSource, SignalInv, SwapInv, IInv, TypeOK, SessionStates
  <2> QED
    BY <1>4, <2>1 DEF SnapSource, SignalInv, SignalStates, swapVars
<1>5. CASE SnapVerify
  BY <1>5 DEF SnapVerify, SignalInv, SignalStates, swapVars
<1>6. CASE Mark \/ RaiseFlag \/ PublishPending \/ NotifyLock \/ Notify \/ NotifyUnlock
  BY <1>6 DEF Mark, RaiseFlag, PublishPending, NotifyLock, Notify, NotifyUnlock,
              SignalInv, SignalStates, swapVars
<1>7. ASSUME NEW t \in Threads, WakeThread(t) PROVE SignalInv'
  BY <1>7 DEF WakeThread, SignalInv, SignalStates, swapVars
<1>8. CASE UNCHANGED <<swapVars, sig, pressed>> /\ marked \subseteq marked'
  BY <1>8 DEF SignalInv, swapVars
<1>9. ASSUME NEW s \in Sources, ParkUnder(s)
      PROVE  UNCHANGED <<swapVars, sig, pressed>> /\ marked \subseteq marked'
  BY <1>9 DEF ParkUnder, pressVars
<1>10. ASSUME NEW t \in Threads, ThreadStep(t)
       PROVE  UNCHANGED <<swapVars, sig, pressed>> /\ marked \subseteq marked'
  BY <1>10, ThreadFrame
<1>11. CASE UNCHANGED vars
  BY <1>11, <1>8 DEF vars, swapVars
<1> QED
  BY <1>1, <1>2, <1>3, <1>4, <1>5, <1>6, <1>7, <1>8, <1>9, <1>10, <1>11, Actors DEF Signal

\* A thread only ever takes the pending press back.
LEMMA ThreadPending ==
  ASSUME NEW t \in Threads, ThreadStep(t)
  PROVE  pending' \in {0, pending}
BY DEF ThreadStep, Schedule, Dispatch, Idle, RunTask, Poll, RunListener, Spin,
       StartSleep, FallAsleep, RunLoop, Peek, TryLock, Claim, ReadEpisode,
       Consume, Deliver, WalkSource, WalkWaits, WalkFails, ResumeWalk, Unlock,
       OutsideThreads, pressVars

\* The published press.
LEMMA PendingStep ==
  ASSUME IInv, [Next]_vars
  PROVE  PendingInv' /\ PendingIsMarked'
<1> /\ pending \in Gens /\ pressed \subseteq Gens /\ PendingInv /\ PendingIsMarked
    /\ PressedInv /\ SignalInv
  BY DEF IInv, TypeOK
<1>1. CASE Session
  <2>1. UNCHANGED <<pending, pressed, marked>>
    BY <1>1, SessionFrame DEF pressVars
  <2>2. \A g \in pressed : owner'[g] = owner[g]
    BY <1>1, OwnerKept DEF PressedInv
  <2> QED
    BY <2>1, <2>2 DEF PendingInv, PendingIsMarked
<1>2. CASE PublishPending
  BY <1>2 DEF PublishPending, PendingInv, PendingIsMarked, SignalInv, swapVars
<1>3. CASE UNCHANGED owner /\ pending' \in {0, pending} /\ marked \subseteq marked'
             /\ pressed \subseteq pressed'
  BY <1>3 DEF PendingInv, PendingIsMarked
<1>4. CASE Press \/ Signal
  <2>1. PublishPending \/ pending' = pending
    BY <1>4 DEF Press, Signal, SnapGen, SnapSource, SnapVerify, Mark, RaiseFlag,
                NotifyLock, Notify, NotifyUnlock, WakeThread
  <2> QED
    BY <1>2, <1>3, <1>4, <2>1, SignalFrame DEF swapVars
<1>5. ASSUME NEW t \in Threads, ThreadStep(t) PROVE PendingInv' /\ PendingIsMarked'
  <2>1. pending' \in {0, pending}
    BY <1>5, ThreadPending
  <2> QED
    BY <1>3, <1>5, <2>1, ThreadFrame DEF swapVars
<1>6. ASSUME NEW s \in Sources, ParkUnder(s) PROVE PendingInv' /\ PendingIsMarked'
  BY <1>3, <1>6 DEF ParkUnder, swapVars, pressVars
<1>7. CASE UNCHANGED vars
  BY <1>3, <1>7 DEF vars
<1> QED
  BY <1>1, <1>4, <1>5, <1>6, <1>7, Actors

\* A thread that ends a pass goes back to its loop, or peeks again.
LEMMA EndPassEffect ==
  ASSUME TypeOK, NEW t \in Threads, EndPass(t)
  PROVE  /\ th'[t].pc \in {"look", "poll", "peek"}
         /\ \A u \in Threads \ {t} : th'[u] = th[u]
<1>1. PICK l \in {"look", "poll", "peek"}, b \in BOOLEAN :
         th' = [th EXCEPT ![t] = [pc |-> l, src |-> NoSrc, gen |-> 0, asListener |-> b]]
  <2>1. CASE ~th[t].asListener
    BY <2>1 DEF EndPass, IdleThread
  <2>2. CASE th[t].asListener /\ listener = "running"
    BY <2>2 DEF EndPass, IdleThread
  <2>3. CASE th[t].asListener /\ listener = "again"
    BY <2>3 DEF EndPass, IdleThread
  <2>4. QED BY <2>1, <2>2, <2>3 DEF EndPass
<1>2. QED BY <1>1 DEF TypeOK

\* The steps of the scheduler loop outside a pass.
Looping(t) ==
    \/ Idle(t) \/ RunTask(t) \/ Poll(t) \/ RunListener(t) \/ Spin(t) \/ StartSleep(t)
    \/ FallAsleep(t) \/ RunLoop(t) \/ Peek(t)

\* A step of thread t wakes other threads at most.
LEMMA OthersKept ==
  ASSUME TypeOK, NEW t \in Threads, ThreadStep(t), NEW u \in Threads, u # t
  PROVE  \/ th'[u] = th[u]
         \/ th[u].pc \in {"sleeping", "asleep"} /\ th'[u].pc = "poll"
<1> th \in [Threads -> ThreadStates]
  BY DEF TypeOK
<1>1. CASE RunLoop(t)
  <2>1. PICK w \in Threads : th' = [th EXCEPT ![t].pc = "poll", ![w] = Awakened(@)]
    BY <1>1 DEF RunLoop
  <2> QED
    BY <2>1 DEF Awakened, ThreadStates
<1>2. CASE EndPass(t)
  BY <1>2, EndPassEffect
<1>3. CASE \E c : To(t, c)
  BY <1>3 DEF To
<1>4. CASE RunListener(t) \/ ReadEpisode(t) \/ WalkWaits(t) \/ ResumeWalk(t)
  BY <1>4 DEF RunListener, ReadEpisode, WalkWaits, ResumeWalk
<1>5. CASE Idle(t) \/ RunTask(t) \/ Poll(t) \/ Spin(t) \/ StartSleep(t) \/ FallAsleep(t)
  BY <1>3, <1>5 DEF Idle, RunTask, Poll, Spin, StartSleep, FallAsleep
<1>6. CASE Peek(t) \/ TryLock(t) \/ Unlock(t)
  BY <1>2, <1>3, <1>6 DEF Peek, TryLock, Unlock
<1>7. CASE Claim(t) \/ Consume(t) \/ Deliver(t) \/ WalkSource(t) \/ WalkFails(t)
  BY <1>3, <1>7 DEF Claim, Consume, Deliver, WalkSource, WalkFails
<1> QED
  BY <1>1, <1>4, <1>5, <1>6, <1>7 DEF ThreadStep, Schedule, Dispatch

\* So does a step of the signal thread.
LEMMA SignalKept ==
  ASSUME TypeOK, Press \/ Signal, NEW u \in Threads
  PROVE  \/ th'[u] = th[u]
         \/ th[u].pc \in {"sleeping", "asleep"} /\ th'[u].pc = "poll"
<1> th \in [Threads -> ThreadStates]
  BY DEF TypeOK
<1>1. ASSUME NEW t \in Threads, th' = [th EXCEPT ![t] = Awakened(@)]
      PROVE  \/ th'[u] = th[u]
             \/ th[u].pc \in {"sleeping", "asleep"} /\ th'[u].pc = "poll"
  BY <1>1 DEF Awakened, ThreadStates
<1> QED
  BY <1>1, SignalFrame

\* A thread in its loop stays out of passes, and was in none.
LEMMA LoopingEffect ==
  ASSUME TypeOK, NEW t \in Threads, Looping(t)
  PROVE  /\ th[t].pc \in {"busy", "poll", "look", "sleeping", "asleep", "peek"}
         /\ th'[t].pc \in {"busy", "poll", "look", "sleeping", "asleep", "peek", "trylock"}
         /\ UNCHANGED <<swapVars, lock, pressVars, flag, exited, marked, parked, missed, walk>>
         /\ passLock'.count = passLock.count
         /\ passLock'.by = passLock.by \/ passLock.by = t
<1> th \in [Threads -> ThreadStates] /\ passLock \in [by : Threads \cup {NoThread}, count : 0..2]
  BY DEF TypeOK
<1>1. CASE Idle(t) \/ Poll(t) \/ Spin(t) \/ StartSleep(t) \/ FallAsleep(t)
  BY <1>1 DEF Idle, Poll, Spin, StartSleep, FallAsleep, To, OutsideThreads, ThreadStates
<1>2. CASE RunTask(t) \/ RunListener(t)
  BY <1>2 DEF RunTask, RunListener, SwitchFrom, To, OutsideThreads, ThreadStates
<1>3. CASE RunLoop(t)
  <2>1. PICK w \in Threads : th' = [th EXCEPT ![t].pc = "poll", ![w] = Awakened(@)]
    BY <1>3 DEF RunLoop
  <2>2. th'[t].pc = "poll"
    BY <2>1 DEF Awakened, ThreadStates
  <2> QED
    BY <1>3, <2>2 DEF RunLoop
<1>4. CASE Peek(t)
  BY <1>4, EndPassEffect DEF Peek, To, OutsideThreads, ThreadStates
<1> QED
  BY <1>1, <1>2, <1>3, <1>4 DEF Looping

\* The dispatch passes.
LEMMA PassStep ==
  ASSUME IInv, [Next]_vars
  PROVE  PassInv'
<1> /\ th \in [Threads -> ThreadStates] /\ pressed \subseteq Gens
    /\ egen \in Nat
    /\ TypeOK /\ PassInv /\ SwapInv /\ PendingInv /\ PressedInv
  BY SigintAssumption DEF IInv, TypeOK, MaxGen
<1> \A u \in Threads : th[u].gen \in Gens
  BY DEF ThreadStates
<1>1. CASE Session
  <2>1. UNCHANGED <<th, walk, pressed>>
    BY <1>1, SessionFrame DEF pressVars, threadVars
  <2>2. \A u \in Threads : th[u].gen <= egen =>
          th[u].gen <= egen' /\ owner'[th[u].gen] = owner[th[u].gen]
    <3> egen' \in Nat
      BY <1>1 DEF Session, SwapBegin, SwapStore, SwapFinish, Record
    <3> QED
      BY <1>1, OwnerKept DEF Gens
  <2>3. \A g \in pressed : owner'[g] = owner[g]
    BY <1>1, OwnerKept DEF PressedInv
  <2> QED
    BY <2>1, <2>2, <2>3 DEF PassInv
<1>2. ASSUME UNCHANGED <<swapVars, walk>>, pressed \subseteq pressed',
             \A u \in Threads : th'[u].pc \in {"consume", "deliver", "walk"} => th'[u] = th[u]
      PROVE  PassInv'
  BY <1>2 DEF PassInv, swapVars
<1>3. CASE Press \/ Signal
  <2>1. \A u \in Threads : th'[u].pc \in {"consume", "deliver", "walk"} => th'[u] = th[u]
    BY <1>3, SignalKept
  <2> QED
    BY <1>2, <1>3, <2>1, SignalFrame
<1>4. ASSUME NEW t \in Threads, ThreadStep(t) PROVE PassInv'
  <2>1. UNCHANGED swapVars /\ pressed' = pressed
    BY <1>4, ThreadFrame
  <2>2. \A u \in Threads \ {t} :
          th'[u].pc \in {"consume", "deliver", "walk"} => th'[u] = th[u]
    BY <1>4, OthersKept
  <2>3. ASSUME th'[t].pc \notin {"consume", "deliver", "walk"}, UNCHANGED walk
        PROVE  PassInv'
    BY <1>2, <2>1, <2>2, <2>3
  <2>4. CASE Looping(t)
    BY <2>3, <2>4, LoopingEffect
  <2>5. CASE TryLock(t) \/ Unlock(t)
    <3>1. EndPass(t) \/ To(t, "claim")
      BY <2>5 DEF TryLock, Unlock
    <3>2. th'[t].pc \in {"look", "poll", "peek", "claim"}
      BY <3>1, EndPassEffect DEF To, ThreadStates
    <3> QED
      BY <2>3, <2>5, <3>2 DEF TryLock, Unlock, OutsideThreads
  <2>6. CASE Claim(t) \/ WalkSource(t) \/ WalkFails(t)
    BY <2>3, <2>6 DEF Claim, WalkSource, WalkFails, To, ThreadStates
  <2>7. CASE ReadEpisode(t)
    <3>1. th'[t].pc = "consume" /\ th'[t].gen = episode.gen /\ th'[t].src = episode.src
      BY <2>7 DEF ReadEpisode, ThreadStates
    <3>2. episode.gen <= egen /\ owner[episode.gen] = episode.src /\ UNCHANGED walk
      BY <2>7 DEF ReadEpisode, SwapInv, OutsideThreads
    <3> QED
      BY <2>1, <2>2, <3>1, <3>2 DEF PassInv, swapVars
  <2>8. CASE Consume(t)
    <3>1. th[t].gen <= egen /\ owner[th[t].gen] = th[t].src /\ UNCHANGED walk
      BY <2>8 DEF Consume, PassInv
    <3>2. CASE To(t, "deliver") /\ Consumes(pending, th[t].gen) /\ th[t].src # NoSrc
      <4>1. th[t].gen \in pressed
        BY <3>2 DEF Consumes, PendingInv
      <4>2. th'[t].pc = "deliver" /\ th'[t].src = th[t].src
        BY <3>2 DEF To, ThreadStates
      <4> QED
        BY <2>1, <2>2, <3>1, <3>2, <4>1, <4>2 DEF PassInv, swapVars
    <3>3. CASE To(t, "claim") \/ To(t, "exit")
      <4>1. th'[t].pc \in {"claim", "exit"}
        BY <3>3 DEF To, ThreadStates
      <4> QED
        BY <2>3, <3>1, <4>1
    <3> QED
      BY <2>8, <3>2, <3>3 DEF Consume
  <2>9. CASE Deliver(t)
    <3>1. th'[t].pc = "walk" /\ th'[t].src = th[t].src /\ UNCHANGED walk /\ th[t].pc = "deliver"
      BY <2>9 DEF Deliver, To, ThreadStates
    <3> QED
      BY <2>1, <2>2, <3>1 DEF PassInv, swapVars
  <2>10. CASE WalkWaits(t)
    <3>1. th'[t].pc = "poll" /\ walk'.src = th[t].src /\ th[t].pc = "walk"
      BY <2>10 DEF WalkWaits, IdleThread
    <3> QED
      BY <2>1, <2>2, <3>1 DEF PassInv, swapVars
  <2>11. CASE ResumeWalk(t)
    <3>1. th'[t].pc = "walk" /\ th'[t].src = walk.src /\ walk.src # NoSrc /\ walk'.src = NoSrc
      BY <2>11 DEF ResumeWalk, NoWalk
    <3> QED
      BY <2>1, <2>2, <3>1 DEF PassInv, swapVars
  <2> QED
    BY <1>4, <2>4, <2>5, <2>6, <2>7, <2>8, <2>9, <2>10, <2>11
       DEF ThreadStep, Schedule, Dispatch, Looping
<1>5. ASSUME NEW s \in Sources, ParkUnder(s) PROVE PassInv'
  BY <1>2, <1>5 DEF ParkUnder, pressVars, threadVars
<1>6. CASE UNCHANGED vars
  BY <1>2, <1>6 DEF vars, swapVars
<1> QED
  BY <1>1, <1>3, <1>4, <1>5, <1>6, Actors

\* Targeted generations exist, marked sources were targeted, and an exit had
\* a press at the prompt behind it.
LEMMA HistoryStep ==
  ASSUME IInv, [Next]_vars
  PROVE  PressedInv' /\ OnlyPressedAreCancelled' /\ NoStrayExit'
<1> /\ th \in [Threads -> ThreadStates] /\ pressed \subseteq Gens /\ egen \in Nat
    /\ sig \in SignalStates
    /\ PressedInv /\ OnlyPressedAreCancelled /\ NoStrayExit
    /\ PassInv /\ SignalInv /\ PendingInv
  BY SigintAssumption DEF IInv, TypeOK, MaxGen
<1>1. CASE Session
  <2>1. UNCHANGED <<pressed, marked, exited>>
    BY <1>1, SessionFrame DEF pressVars, threadVars
  <2>2. \A g \in pressed : g <= egen' /\ owner'[g] = owner[g]
    <3> egen' \in Nat
      BY <1>1 DEF Session, SwapBegin, SwapStore, SwapFinish, Record
    <3> QED
      BY <1>1, OwnerKept DEF PressedInv, Gens
  <2> QED
    BY <2>1, <2>2 DEF PressedInv, OnlyPressedAreCancelled, NoStrayExit
<1>2. CASE UNCHANGED <<swapVars, pressed, marked, exited>>
  BY <1>2 DEF PressedInv, OnlyPressedAreCancelled, NoStrayExit, swapVars
<1>3. CASE SnapVerify
  BY <1>3 DEF SnapVerify, PressedInv, OnlyPressedAreCancelled, NoStrayExit, SignalInv,
              swapVars, threadVars
<1>4. CASE Mark
  BY <1>4 DEF Mark, PressedInv, OnlyPressedAreCancelled, NoStrayExit, SignalInv,
              swapVars, threadVars
<1>5. CASE Press \/ Signal
  <2>1. SnapVerify \/ Mark \/ UNCHANGED <<pressed, marked>>
    BY <1>5 DEF Press, Signal, SnapGen, SnapSource, RaiseFlag, PublishPending,
                NotifyLock, Notify, NotifyUnlock, WakeThread
  <2> QED
    BY <1>2, <1>3, <1>4, <1>5, <2>1, SignalFrame
<1>6. ASSUME NEW t \in Threads, ThreadStep(t)
      PROVE  PressedInv' /\ OnlyPressedAreCancelled' /\ NoStrayExit'
  <2>1. UNCHANGED <<swapVars, pressed>>
    BY <1>6, ThreadFrame
  <2>2. CASE Deliver(t)
    <3>1. \E g \in pressed : owner[g] = th[t].src
      BY <2>2 DEF Deliver, PassInv
    <3>2. marked' = marked \cup {th[t].src} /\ UNCHANGED exited
      BY <2>2 DEF Deliver
    <3> QED
      BY <2>1, <3>1, <3>2 DEF PressedInv, OnlyPressedAreCancelled, NoStrayExit, swapVars
  <2>3. CASE Consume(t)
    <3>1. owner[th[t].gen] = th[t].src /\ UNCHANGED marked
      BY <2>3 DEF Consume, PassInv
    <3>2. exited' = exited \/ (th[t].src = NoSrc /\ Consumes(pending, th[t].gen))
      BY <2>3 DEF Consume
    <3>3. Consumes(pending, th[t].gen) => th[t].gen \in pressed
      BY DEF Consumes, PendingInv
    <3> QED
      BY <2>1, <3>1, <3>2, <3>3
         DEF PressedInv, OnlyPressedAreCancelled, NoStrayExit, swapVars
  <2>4. Deliver(t) \/ Consume(t) \/ UNCHANGED <<marked, exited>>
    BY <1>6 DEF ThreadStep, Schedule, Dispatch, Idle, RunTask, Poll, RunListener, Spin,
                StartSleep, FallAsleep, RunLoop, Peek, TryLock, Claim, ReadEpisode,
                WalkSource, WalkWaits, WalkFails, ResumeWalk, Unlock, OutsideThreads
  <2> QED
    BY <1>2, <2>1, <2>2, <2>3, <2>4
<1>7. ASSUME NEW s \in Sources, ParkUnder(s)
      PROVE  PressedInv' /\ OnlyPressedAreCancelled' /\ NoStrayExit'
  BY <1>2, <1>7 DEF ParkUnder, pressVars, threadVars
<1>8. CASE UNCHANGED vars
  BY <1>2, <1>8 DEF vars, swapVars
<1> QED
  BY <1>1, <1>5, <1>6, <1>7, <1>8, Actors

-----------------------------------------------------------------------------
(* The pass lock.                                                            *)

\* The lock agrees with the passes as long as none begins, waits or ends.
LEMMA LockKept ==
  ASSUME LockInv, UNCHANGED walk, passLock'.count = passLock.count,
         \A u \in Threads : InPass(u)' <=> InPass(u),
         \A u \in Threads : InPass(u) => passLock'.by = passLock.by
  PROVE  LockInv'
BY DEF LockInv

\* However passes of idle threads and of the listener race, wait and nest.
LEMMA LockStep ==
  ASSUME IInv, [Next]_vars
  PROVE  LockInv'
<1> TypeOK /\ LockInv /\ th \in [Threads -> ThreadStates]
  BY DEF IInv, TypeOK
<1>1. CASE UNCHANGED <<th, passLock, walk>>
  BY <1>1, LockKept DEF InPass
<1>2. CASE Press \/ Signal
  <2>1. UNCHANGED <<passLock, walk>>
    BY <1>2, SignalFrame
  <2>2. \A u \in Threads : InPass(u)' <=> InPass(u)
    BY <1>2, SignalKept DEF InPass
  <2> QED
    BY <2>1, <2>2, LockKept
<1>3. ASSUME NEW t \in Threads, ThreadStep(t) PROVE LockInv'
  <2>1. \A u \in Threads \ {t} : InPass(u)' <=> InPass(u)
    BY <1>3, OthersKept DEF InPass
  <2>2. ASSUME UNCHANGED <<walk, passLock>>, InPass(t)' <=> InPass(t)
        PROVE  LockInv'
    BY <2>1, <2>2, LockKept
  <2>3. CASE Looping(t)
    <3>1. ~InPass(t) /\ ~InPass(t)'
      BY <2>3, LoopingEffect DEF InPass
    <3>2. \A u \in Threads : InPass(u) => passLock'.by = passLock.by
      BY <2>3, <3>1, LoopingEffect DEF LockInv
    <3> QED
      BY <2>1, <2>3, <3>1, <3>2, LoopingEffect, LockKept
  <2>4. CASE TryLock(t)
    <3>1. ~InPass(t) /\ UNCHANGED walk
      BY <2>4 DEF TryLock, InPass, OutsideThreads
    <3>2. CASE /\ passLock.count = 0 \/ passLock.by = t
               /\ passLock' = [by |-> t, count |-> passLock.count + 1]
               /\ To(t, "claim")
      <4>1. InPass(t)'
        BY <3>2 DEF To, InPass, ThreadStates
      <4>2. \A u \in Threads : ~InPass(u)
        BY <3>1, <3>2 DEF LockInv
      <4>3. \A u \in Threads \ {t} : ~InPass(u)'
        BY <2>1, <4>2
      <4> QED
        BY <3>1, <3>2, <4>1, <4>2, <4>3 DEF LockInv
    <3>3. CASE EndPass(t) /\ UNCHANGED passLock
      BY <2>2, <3>1, <3>3, EndPassEffect DEF InPass
    <3> QED
      BY <2>4, <3>2, <3>3 DEF TryLock
  <2>5. CASE Unlock(t)
    <3>1. InPass(t) /\ UNCHANGED walk /\ ~InPass(t)'
      BY <2>5, EndPassEffect DEF Unlock, InPass, OutsideThreads
    <3>2. \A u \in Threads \ {t} : ~InPass(u) /\ ~InPass(u)'
      BY <2>1, <3>1 DEF LockInv
    <3>3. passLock'.count = passLock.count - 1
      BY <2>5 DEF Unlock
    <3> QED
      BY <3>1, <3>2, <3>3 DEF LockInv
  <2>6. CASE Claim(t) \/ ReadEpisode(t) \/ Consume(t) \/ Deliver(t) \/ WalkSource(t)
               \/ WalkFails(t)
    <3>1. InPass(t) /\ UNCHANGED <<walk, passLock>>
      BY <2>6 DEF Claim, ReadEpisode, Consume, Deliver, WalkSource, WalkFails, InPass,
                  OutsideThreads
    <3>2. InPass(t)'
      BY <2>6 DEF Claim, ReadEpisode, Consume, Deliver, WalkSource, WalkFails, To, InPass,
                  ThreadStates
    <3> QED
      BY <2>2, <3>1, <3>2
  <2>7. CASE WalkWaits(t)
    <3>1. /\ InPass(t) /\ ~InPass(t)' /\ UNCHANGED passLock
          /\ walk.src = NoSrc /\ walk'.src = th[t].src /\ th[t].src # NoSrc
      BY <2>7 DEF WalkWaits, InPass, IdleThread, IInv, PassInv
    <3>2. \A u \in Threads \ {t} : ~InPass(u) /\ ~InPass(u)'
      BY <2>1, <3>1 DEF LockInv
    <3> QED
      BY <3>1, <3>2 DEF LockInv
  <2>8. CASE ResumeWalk(t)
    <3>1. /\ ~InPass(t) /\ InPass(t)' /\ walk.src # NoSrc /\ walk'.src = NoSrc
          /\ passLock.by \in {t, NoThread}
          /\ passLock'.by = t /\ passLock'.count = passLock.count
      BY <2>8 DEF ResumeWalk, InPass, NoWalk, TypeOK
    <3>2. \A u \in Threads \ {t} : ~InPass(u) /\ ~InPass(u)'
      BY <2>1, <3>1, SigintAssumption DEF LockInv
    <3> QED
      BY <3>1, <3>2 DEF LockInv
  <2> QED
    BY <1>3, <2>3, <2>4, <2>5, <2>6, <2>7, <2>8
       DEF ThreadStep, Schedule, Dispatch, Looping
<1>4. CASE Session
  BY <1>1, <1>4, SessionFrame DEF threadVars
<1>5. ASSUME NEW s \in Sources, ParkUnder(s) PROVE LockInv'
  BY <1>1, <1>5 DEF ParkUnder, threadVars
<1>6. CASE UNCHANGED vars
  BY <1>1, <1>6 DEF vars
<1> QED
  BY <1>2, <1>3, <1>4, <1>5, <1>6, Actors

-----------------------------------------------------------------------------
(* No press is forgotten.                                                    *)

\* Sources are fresh when installed.
LEMMA FreshStep ==
  ASSUME IInv, [Next]_vars
  PROVE  FreshInv'
<1> /\ FreshInv /\ SwapInv /\ ses \in SessionStates /\ handed \subseteq Sources
    /\ owner \in [Gens -> Sources \cup {NoSrc}] /\ egen \in Nat
    /\ NoSrc \notin Sources
  BY SigintAssumption DEF IInv, TypeOK, MaxGen
<1>1. CASE UNCHANGED swapVars /\ parked' \subseteq handed
  BY <1>1 DEF FreshInv, swapVars
<1>2. CASE SwapBegin
  <2>1. PICK s \in (Sources \ Range(owner)) \cup {NoSrc} :
          ses' = [pc |-> "store", src |-> s, gen |-> 0]
    BY <1>2 DEF SwapBegin
  <2>2. ses'.src # NoSrc => \A g \in Gens : owner[g] # ses'.src
    BY <2>1 DEF Range
  <2>3. ses'.pc = "store" /\ UNCHANGED <<owner, handed, parked>> /\ egen' = egen + 1
    BY <1>2, <2>1 DEF SwapBegin
  <2>4. \A g \in Gens : g > egen + 1 => owner[g] = NoSrc
    BY DEF FreshInv, Gens
  <2> QED
    BY <2>2, <2>3, <2>4 DEF FreshInv
<1>3. CASE SwapStore
  BY <1>3 DEF SwapStore, FreshInv, SessionStates
<1>4. CASE SwapFinish
  <2>1. /\ egen + 1 \in Gens
        /\ owner' = [owner EXCEPT ![egen + 1] = ses.src]
        /\ ses'.pc = "record" /\ ses'.src = ses.src
        /\ UNCHANGED <<handed, parked>>
        /\ ses.src # NoSrc => \A g \in Gens : owner[g] # ses.src
    BY <1>4 DEF SwapFinish, SwapInv, FreshInv, SessionStates
  <2>2. \A g, h \in Gens : owner'[g] = owner'[h] /\ owner'[g] # NoSrc => g = h
    BY <2>1 DEF FreshInv
  <2>3. owner[egen + 1] = NoSrc
    BY <2>1 DEF FreshInv
  <2>4. \A s \in handed : \E g \in Gens : owner'[g] = s
    BY <2>1, <2>3 DEF FreshInv
  <2>5. ses.src \notin handed
    BY <2>1 DEF FreshInv
  <2>6. egen' = egen + 1 /\ \A g \in Gens : g > egen + 1 => owner'[g] = NoSrc
    BY <1>4, <2>1 DEF SwapFinish, FreshInv, Gens
  <2> QED
    BY <2>1, <2>2, <2>4, <2>5, <2>6 DEF FreshInv
<1>5. CASE Record
  <2>1. /\ ses'.pc = "idle" /\ UNCHANGED <<egen, owner, parked>>
        /\ handed' = handed \cup ({ses.src} \ {NoSrc})
    BY <1>5 DEF Record, SessionStates
  <2>2. owner[egen] = ses.src /\ egen \in Gens
    BY <1>5 DEF Record, SwapInv, IInv, TypeOK, Gens
  <2> QED
    BY <2>1, <2>2 DEF FreshInv
<1>6. ASSUME NEW s \in Sources, ParkUnder(s) PROVE UNCHANGED swapVars /\ parked' \subseteq handed
  BY <1>6 DEF ParkUnder, FreshInv
<1>7. CASE Press \/ Signal
  BY <1>1, <1>7, SignalFrame DEF FreshInv
<1>8. ASSUME NEW t \in Threads, ThreadStep(t) PROVE FreshInv'
  <2>1. parked' \subseteq parked
    BY <1>8 DEF ThreadStep, Schedule, Dispatch, Idle, RunTask, Poll, RunListener, Spin,
                StartSleep, FallAsleep, RunLoop, Peek, TryLock, Claim, ReadEpisode, Consume,
                Deliver, WalkSource, WalkWaits, WalkFails, ResumeWalk, Unlock, OutsideThreads
  <2> QED
    BY <1>1, <1>8, <2>1, ThreadFrame DEF FreshInv
<1>9. CASE UNCHANGED vars
  BY <1>1, <1>9 DEF vars, swapVars, FreshInv
<1> QED
  BY <1>1, <1>2, <1>3, <1>4, <1>5, <1>6, <1>7, <1>8, <1>9, Actors DEF Session

\* The signal thread targets the current generation once that is pressed.
LEMMA TargetStep ==
  ASSUME IInv, [Next]_vars
  PROVE  TargetInv'
<1> /\ TargetInv /\ SignalInv /\ SwapInv /\ PressedInv /\ sig \in SignalStates
    /\ egen \in Nat /\ pressed \subseteq Gens
  BY SigintAssumption DEF IInv, TypeOK, MaxGen
<1>1. CASE Session
  <2>1. UNCHANGED <<sig, pending, pressed>>
    BY <1>1, SessionFrame DEF pressVars
  <2>2. egen' = egen \/ egen' = egen + 1
    BY <1>1 DEF Session, SwapBegin, SwapStore, SwapFinish, Record
  <2>3. egen + 1 \notin pressed
    BY DEF PressedInv, Gens
  <2> QED
    BY <2>1, <2>2, <2>3 DEF TargetInv
<1>2. CASE Press \/ SnapGen \/ SnapSource \/ SnapVerify
  <2>1. CASE Press \/ SnapGen \/ SnapSource
    <3>1. /\ sig.pc \in {"idle", "gen", "src"} /\ sig'.pc \in {"gen", "src", "verify"}
          /\ UNCHANGED <<egen, pressed, pending>>
      BY <2>1 DEF Press, SnapGen, SnapSource, SignalStates, swapVars
    <3> QED
      BY <3>1 DEF TargetInv
  <2>2. CASE SnapVerify
    BY <2>2 DEF SnapVerify, TargetInv, SignalStates, swapVars
  <2> QED
    BY <1>2, <2>1, <2>2
<1>3. CASE Mark \/ RaiseFlag \/ PublishPending \/ NotifyLock \/ Notify \/ NotifyUnlock
  <2>1. UNCHANGED <<egen, pressed>>
    BY <1>3 DEF Mark, RaiseFlag, PublishPending, NotifyLock, Notify, NotifyUnlock, swapVars
  <2>2. CASE Mark \/ RaiseFlag
    <3>1. /\ sig.pc \in {"mark", "flag"} /\ sig'.pc \in {"flag", "pend"}
          /\ sig'.gen = sig.gen
      BY <2>2 DEF Mark, RaiseFlag, SignalStates
    <3> QED
      BY <2>1, <3>1 DEF TargetInv
  <2>3. CASE PublishPending
    <3>1. sig.pc = "pend" /\ sig'.pc = "lock" /\ sig'.gen = sig.gen /\ pending' = sig.gen
      BY <2>3 DEF PublishPending, SignalStates
    <3> QED
      BY <2>1, <3>1 DEF TargetInv
  <2>4. CASE NotifyLock \/ Notify
    <3>1. /\ sig.pc \in {"lock", "notify"} /\ sig'.pc \in {"notify", "wake"}
          /\ sig'.gen = sig.gen /\ pending' = pending
      BY <2>4 DEF NotifyLock, Notify, SignalStates
    <3> QED
      BY <2>1, <3>1 DEF TargetInv
  <2>5. CASE NotifyUnlock
    <3>1. sig.pc = "wake" /\ sig'.pc = "idle" /\ pending' = pending
      BY <2>5 DEF NotifyUnlock, SignalStates
    <3> QED
      BY <2>1, <3>1 DEF TargetInv
  <2> QED
    BY <1>3, <2>2, <2>3, <2>4, <2>5
<1>4. ASSUME NEW t \in Threads, WakeThread(t) PROVE TargetInv'
  BY <1>4 DEF WakeThread, TargetInv, SignalStates, swapVars
<1>5. CASE UNCHANGED <<swapVars, sig, pressed>> /\ pending' \in {0, pending}
  BY <1>5 DEF TargetInv, swapVars
<1>6. ASSUME NEW s \in Sources, ParkUnder(s) PROVE TargetInv'
  BY <1>5, <1>6 DEF ParkUnder, pressVars
<1>7. ASSUME NEW t \in Threads, ThreadStep(t) PROVE TargetInv'
  <2>1. pending' \in {0, pending}
    BY <1>7, ThreadPending
  <2> QED
    BY <1>5, <1>7, <2>1, ThreadFrame
<1>8. CASE UNCHANGED vars
  BY <1>5, <1>8 DEF vars, swapVars
<1> QED
  BY <1>1, <1>2, <1>3, <1>4, <1>6, <1>7, <1>8, Actors DEF Signal

\* What a wait is covered by is not lost while the press, the flag and the
\* passes stay as they are.
LEMMA CoverKept ==
  ASSUME NEW s \in Sources, Covered(s),
         UNCHANGED <<sig, pending, egen, flag, walk>>,
         \A u \in Threads : (Reader(u) => Reader(u)') /\ (Walker(u, s) => Walker(u, s)')
  PROVE  Covered(s)'
BY DEF Covered

\* A press that has marked the current source targets its generation.
LEMMA WaitsPressed ==
  ASSUME IInv, NEW s \in Sources, Waits(s)
  PROVE  egen \in pressed /\ owner[egen] = s
<1>1. owner[egen] = s
  BY DEF Waits, IInv, SwapInv
<1>2. PICK g \in pressed : owner[g] = s
  BY DEF Waits, IInv, OnlyPressedAreCancelled
<1>3. g \in Gens /\ egen \in Gens
  BY SigintAssumption DEF IInv, TypeOK, Gens, MaxGen
<1> QED
  BY <1>1, <1>2, <1>3, SigintAssumption DEF IInv, FreshInv

\* The session: an episode that is current after a swap has nobody parked.
LEMMA CoverSession ==
  ASSUME IInv, Session
  PROVE  CoverInv'
<1> /\ egen \in Nat /\ episode.gen \in Gens /\ SwapInv /\ FreshInv /\ CoverInv
    /\ ses \in SessionStates
  BY SigintAssumption DEF IInv, TypeOK, MaxGen
<1> UNCHANGED <<sig, pending, flag, walk, th, marked, parked, missed, exited>>
  BY SessionFrame DEF pressVars, threadVars
<1> SUFFICES ASSUME NEW s \in Sources, Waits(s)' PROVE Covered(s)'
  BY DEF CoverInv
<1>1. CASE SwapBegin \/ SwapFinish
  <2>1. egen' = egen + 1 /\ episode' = episode /\ episode.gen <= egen
    BY <1>1 DEF SwapBegin, SwapFinish, SwapInv
  <2> QED
    BY <2>1 DEF Waits, Gens
<1>2. CASE SwapStore
  <2>1. UNCHANGED <<egen, episode>>
    BY <1>2 DEF SwapStore
  <2>2. Covered(s)
    BY <2>1 DEF Waits, CoverInv
  <2> QED
    BY <2>1, <2>2, CoverKept DEF Reader, Walker
<1>3. CASE Record
  <2>1. episode'.src = ses.src /\ ses.src \notin handed
    BY <1>3 DEF Record, FreshInv
  <2> QED
    BY <2>1 DEF Waits, FreshInv
<1> QED
  BY <1>1, <1>2, <1>3 DEF Session

\* The signal thread: a wait it begins it also covers, until the press is
\* published with the flag still to be raised.
LEMMA CoverSignal ==
  ASSUME IInv, Press \/ Signal
  PROVE  CoverInv'
<1> TypeOK /\ CoverInv /\ TargetInv /\ SignalInv /\ sig \in SignalStates
  BY DEF IInv, TypeOK
<1> UNCHANGED <<egen, episode, walk, parked, exited>>
  BY SignalFrame DEF swapVars
<1> SUFFICES ASSUME NEW s \in Sources, Waits(s)' PROVE Covered(s)'
  BY DEF CoverInv
<1>1. \A u \in Threads : (Reader(u) => Reader(u)') /\ (Walker(u, s) => Walker(u, s)')
  BY SignalKept DEF Reader, Walker
<1>2. ASSUME UNCHANGED <<marked, missed>> PROVE Waits(s) /\ Covered(s)
  BY <1>2 DEF Waits, CoverInv
<1>3. CASE Press \/ SnapGen \/ SnapSource \/ NotifyUnlock \/ (\E t \in Threads : WakeThread(t))
  <2>1. /\ UNCHANGED <<marked, missed, pending, flag>>
        /\ sig.pc \notin {"mark", "flag", "pend", "lock", "notify"}
    BY <1>3 DEF Press, SnapGen, SnapSource, NotifyUnlock, WakeThread
  <2> QED
    BY <1>1, <1>2, <2>1 DEF Covered
<1>4. CASE SnapVerify
  <2>1. UNCHANGED <<marked, pending, flag>> /\ sig.pc = "verify"
    BY <1>4 DEF SnapVerify
  <2>2. CASE Waits(s)
    BY <1>1, <2>1, <2>2 DEF Covered, CoverInv
  <2>3. CASE ~Waits(s)
    <3>1. s \in missed /\ missed' = missed \ {sig.src} /\ sig' = [sig EXCEPT !.pc = IF sig.src = NoSrc THEN "pend" ELSE "mark"]
      BY <1>4, <2>1, <2>3 DEF SnapVerify, Waits
    <3>2. sig'.src = s /\ sig'.pc \in {"mark", "pend"}
      BY <3>1 DEF Waits, SignalStates
    <3> QED
      BY <3>2 DEF Covered
  <2> QED
    BY <2>2, <2>3
<1>5. CASE Mark
  <2>1. /\ sig.pc = "mark" /\ sig'.pc = "flag" /\ sig'.src = sig.src
        /\ marked' = marked \cup {sig.src} /\ UNCHANGED <<pending, flag, missed>>
    BY <1>5 DEF Mark, SignalStates
  <2>2. CASE sig.src = s
    BY <2>1, <2>2 DEF Covered
  <2>3. CASE sig.src # s
    <3>1. Covered(s)
      BY <2>1, <2>3 DEF Waits, CoverInv
    <3> QED
      BY <1>1, <2>1, <2>3, <3>1 DEF Covered
  <2> QED
    BY <2>2, <2>3
<1>6. CASE RaiseFlag \/ NotifyLock
  <2>1. /\ sig.pc \in {"flag", "lock"} /\ sig'.src = sig.src /\ (flag => flag')
        /\ sig.pc = "flag" => sig'.pc = "pend"
        /\ sig.pc = "lock" => sig'.pc = "notify"
        /\ UNCHANGED <<marked, missed, pending>>
    BY <1>6 DEF RaiseFlag, NotifyLock, SignalStates
  <2> QED
    BY <1>1, <1>2, <2>1 DEF Covered
<1>7. CASE PublishPending
  <2>1. /\ sig.pc = "pend" /\ sig'.pc = "lock" /\ pending' = sig.gen
        /\ UNCHANGED <<marked, missed, flag>>
    BY <1>7 DEF PublishPending, SignalStates
  <2>2. sig.gen = egen
    BY <1>2, <2>1, WaitsPressed DEF TargetInv
  <2> QED
    BY <2>1, <2>2 DEF Covered
<1>8. CASE Notify
  <2>1. /\ sig.pc = "notify" /\ flag' = TRUE
        /\ UNCHANGED <<marked, missed, pending>>
    BY <1>8 DEF Notify
  <2> QED
    BY <1>1, <1>2, <2>1 DEF Covered
<1> QED
  BY <1>3, <1>4, <1>5, <1>6, <1>7, <1>8 DEF Signal

\* The threads: a claimed flag has a reader, which finds the press, and a
\* consumed press has a walker, which walks, waits or fails.
LEMMA CoverThread ==
  ASSUME IInv, NEW t \in Threads, ThreadStep(t)
  PROVE  CoverInv'
<1> /\ TypeOK /\ CoverInv /\ PassInv /\ SwapInv
    /\ th \in [Threads -> ThreadStates] /\ th[t] \in ThreadStates
  BY DEF IInv, TypeOK
<1> UNCHANGED <<egen, episode, sig>>
  BY ThreadFrame DEF swapVars
<1> SUFFICES ASSUME NEW s \in Sources, Waits(s)' PROVE Covered(s)'
  BY DEF CoverInv
<1>1. \A u \in Threads \ {t} : (Reader(u) => Reader(u)') /\ (Walker(u, s) => Walker(u, s)')
  BY OthersKept DEF Reader, Walker
<1>2. ASSUME UNCHANGED <<marked, parked, missed, exited>> PROVE Waits(s) /\ Covered(s)
  BY <1>2 DEF Waits, CoverInv
<1>3. ASSUME UNCHANGED <<pending, flag, walk, marked, parked, missed, exited>>,
             ~Reader(t), ~Walker(t, s)
      PROVE  Covered(s)'
  BY <1>1, <1>2, <1>3, CoverKept
<1>4. CASE Looping(t)
  BY <1>3, <1>4, LoopingEffect DEF Reader, Walker, pressVars
<1>5. CASE TryLock(t) \/ Unlock(t)
  BY <1>3, <1>5 DEF TryLock, Unlock, Reader, Walker, OutsideThreads, pressVars
<1>6. CASE Claim(t)
  <2>1. /\ ~Reader(t) /\ ~Walker(t, s)
        /\ UNCHANGED <<pending, walk, marked, parked, missed, exited>>
        /\ flag => Reader(t)'
    BY <1>6 DEF Claim, Reader, Walker, To, ThreadStates, pressVars
  <2> QED
    BY <1>1, <1>2, <2>1 DEF Covered
<1>7. CASE ReadEpisode(t)
  <2>1. /\ ~Walker(t, s)
        /\ UNCHANGED <<pending, flag, walk, marked, parked, missed, exited>>
        /\ th'[t].pc = "consume" /\ th'[t].gen = episode.gen
    BY <1>7 DEF ReadEpisode, Walker, ThreadStates, OutsideThreads, pressVars
  <2>2. Reader(t)'
    BY <2>1 DEF Reader, Waits
  <2> QED
    BY <1>1, <1>2, <2>1, <2>2, CoverKept
<1>8. CASE Consume(t)
  <2>1. /\ ~Walker(t, s) /\ th[t].pc = "consume"
        /\ UNCHANGED <<flag, walk, marked, parked, missed>>
        /\ exited' = FALSE => exited = FALSE
    BY <1>8 DEF Consume, Walker, IInv, TypeOK
  <2>2. Waits(s) /\ Covered(s)
    BY <2>1 DEF Waits, CoverInv, TypeOK
  <2>3. CASE ~Consumes(pending, th[t].gen)
    <3>1. UNCHANGED pending
      BY <1>8, <2>3 DEF Consume
    <3>2. pending = egen => ~Reader(t)
      <4>1. egen # 0
        BY DEF IInv, TypeOK
      <4> QED
        BY <2>1, <2>3, <4>1 DEF Reader, Consumes
    <3> QED
      BY <1>1, <2>1, <2>2, <3>1, <3>2 DEF Covered
  <2>4. CASE Consumes(pending, th[t].gen)
    <3>1. CASE pending = egen
      <4>1. th[t].src = s /\ s # NoSrc
        BY <2>1, <2>2, <2>4, <3>1, WaitsPressed, SigintAssumption DEF Consumes, PassInv
      <4>2. To(t, "deliver")
        BY <1>8, <2>4, <4>1 DEF Consume
      <4>3. Walker(t, s)'
        BY <4>1, <4>2 DEF To, ThreadStates, Walker
      <4> QED
        BY <4>3 DEF Covered
    <3>2. CASE pending # egen
      BY <1>1, <2>1, <2>2, <3>2 DEF Covered
    <3> QED
      BY <3>1, <3>2
  <2> QED
    BY <2>3, <2>4
<1>9. CASE Deliver(t)
  <2>1. /\ ~Reader(t) /\ th[t].pc = "deliver"
        /\ UNCHANGED <<pending, flag, walk, parked, missed, exited>>
        /\ marked' = marked \cup {th[t].src}
        /\ th'[t].pc = "walk" /\ th'[t].src = th[t].src
    BY <1>9 DEF Deliver, Reader, To, ThreadStates, pressVars
  <2>2. CASE th[t].src = s
    BY <2>1, <2>2 DEF Covered, Walker
  <2>3. CASE th[t].src # s
    <3>1. Covered(s) /\ ~Walker(t, s)
      BY <2>1, <2>3 DEF Waits, CoverInv, Walker
    <3> QED
      BY <1>1, <2>1, <3>1, CoverKept
  <2> QED
    BY <2>2, <2>3
<1>10. CASE WalkSource(t) \/ WalkFails(t)
  <2>1. /\ ~Reader(t) /\ th[t].pc = "walk"
        /\ UNCHANGED <<pending, flag, walk, marked, exited>>
        /\ th[t].src \notin parked' \/ th[t].src \in missed'
        /\ parked' \subseteq parked /\ missed \subseteq missed'
    BY <1>10 DEF WalkSource, WalkFails, Reader, pressVars
  <2>2. ~Walker(t, s) /\ Covered(s)
    BY <2>1 DEF Waits, CoverInv, Walker
  <2> QED
    BY <1>1, <2>1, <2>2, CoverKept
<1>11. CASE WalkWaits(t)
  <2>1. /\ ~Reader(t) /\ th[t].pc = "walk" /\ walk.src = NoSrc /\ walk'.src = th[t].src
        /\ UNCHANGED <<pending, flag, marked, parked, missed, exited>>
    BY <1>11 DEF WalkWaits, Reader, pressVars
  <2>2. walk.src # s
    BY <2>1, SigintAssumption
  <2> QED
    BY <1>1, <1>2, <2>1, <2>2 DEF Covered, Walker
<1>12. CASE ResumeWalk(t)
  <2>1. /\ ~Reader(t) /\ ~Walker(t, s)
        /\ th'[t].pc = "walk" /\ th'[t].src = walk.src
        /\ UNCHANGED <<pending, flag, marked, parked, missed, exited>>
    BY <1>12 DEF ResumeWalk, Reader, Walker, pressVars
  <2> QED
    BY <1>1, <1>2, <2>1 DEF Covered, Walker
<1> QED
  BY <1>4, <1>5, <1>6, <1>7, <1>8, <1>9, <1>10, <1>11, <1>12
     DEF ThreadStep, Schedule, Dispatch, Looping

\* Every wait stays covered.
LEMMA CoverStep ==
  ASSUME IInv, [Next]_vars
  PROVE  CoverInv'
<1> CoverInv
  BY DEF IInv
<1>1. ASSUME NEW p \in Sources, ParkUnder(p) PROVE CoverInv'
  <2> SUFFICES ASSUME NEW s \in Sources, Waits(s)' PROVE Covered(s)'
    BY DEF CoverInv
  <2>1. /\ p \notin marked /\ parked' = parked \cup {p}
        /\ UNCHANGED <<sig, pending, egen, flag, walk, th, marked, missed, episode, exited>>
    BY <1>1 DEF ParkUnder, swapVars, pressVars, threadVars
  <2>2. Covered(s)
    BY <2>1 DEF Waits, CoverInv
  <2> QED
    BY <2>1, <2>2, CoverKept DEF Reader, Walker
<1>2. CASE UNCHANGED vars
  BY <1>2 DEF vars, CoverInv, Waits, Covered, Reader, Walker
<1> QED
  BY <1>1, <1>2, CoverSession, CoverSignal, CoverThread, Actors

\* The initial state satisfies the invariant.
LEMMA InitIInv == Init => IInv
<1> SUFFICES ASSUME Init PROVE IInv
  OBVIOUS
<1> MaxGen \in Nat /\ MaxGen >= 2 /\ 0 \in Gens /\ 2 \in Gens
  BY SigintAssumption DEF MaxGen, Gens
<1>1. th \in [Threads -> ThreadStates]
  BY DEF Init, IdleThread, ThreadStates
<1>2. sig \in SignalStates /\ ses \in SessionStates
  BY DEF Init, SignalStates, SessionStates
<1>3. TypeOK
  <2>1. episode \in [src : Sources \cup {NoSrc}, gen : Gens]
    BY DEF Init
  <2>2. egen \in 2..MaxGen /\ presses \in 0..MaxPresses /\ pending \in Gens
    BY SigintAssumption DEF Init
  <2>3. owner \in [Gens -> Sources \cup {NoSrc}]
    BY DEF Init
  <2>4. /\ passLock \in [by : Threads \cup {NoThread}, count : 0..2]
        /\ walk \in [src : Sources \cup {NoSrc}, asListener : BOOLEAN]
    BY DEF Init, NoWalk
  <2> QED
    BY <1>1, <1>2, <2>1, <2>2, <2>3, <2>4 DEF Init, TypeOK
<1>4. SwapInv /\ SignalInv /\ PendingInv /\ PressedInv
  BY DEF Init, SwapInv, SignalInv, PendingInv, PressedInv
<1>5. PassInv
  BY DEF Init, PassInv, IdleThread, NoWalk
<1>6. LockInv
  BY DEF Init, LockInv, InPass, IdleThread, NoWalk
<1>7. FreshInv /\ TargetInv /\ CoverInv
  BY DEF Init, FreshInv, TargetInv, CoverInv, Waits
<1> QED
  BY <1>3, <1>4, <1>5, <1>6, <1>7 DEF Init, IInv, OnlyPressedAreCancelled, PendingIsMarked, NoStrayExit

\* The inductive invariant holds throughout.
THEOREM IInvInvariant == Spec => []IInv
<1>1. IInv /\ [Next]_vars => IInv'
  BY TypeStep, SwapStep, SignalStep, PendingStep, PassStep, HistoryStep, LockStep, FreshStep,
     TargetStep, CoverStep DEF IInv
<1> QED
  BY InitIInv, <1>1, PTL DEF Spec

\* The variables keep their types, whatever the episodes and presses.
THEOREM TypeCorrect == Spec => []TypeOK
BY IInvInvariant, PTL DEF IInv

\* However a press, the episodes' swaps and late passes interleave, only
\* sources that were the current episode of some press are cancelled.
THEOREM PressStaysInEpisode == Spec => []OnlyPressedAreCancelled
BY IInvInvariant, PTL DEF IInv

\* A press is published to the dispatch pass only once its source is marked.
THEOREM PressIsMarkedFirst == Spec => []PendingIsMarked
BY IInvInvariant, PTL DEF IInv

\* A late press of an evaluation never makes the process exit.
THEOREM ExitIsAsked == Spec => []NoStrayExit
BY IInvInvariant, PTL DEF IInv

\* The strengthening says at least what the property does: a published press
\* is that of the current generation, so the signal thread and the passes that
\* have it are bound for its source.
LEMMA CoverIsUnderWay ==
  ASSUME IInv
  PROVE  NoPressForgotten
<1> SUFFICES ASSUME NEW s \in (marked \cap parked) \ missed,
                    episode.src = s, episode.gen = egen, ~exited
             PROVE  UnderWay(s)
  BY DEF NoPressForgotten
<1>1. s \in Sources /\ Waits(s)
  BY DEF Waits, IInv, TypeOK
<1>2. Covered(s) /\ egen \in pressed /\ owner[egen] = s
  BY <1>1, WaitsPressed DEF IInv, CoverInv
<1>3. sig.pc \in {"lock", "notify"} => sig.src = s
  BY <1>2 DEF IInv, TargetInv, SignalInv
<1>4. \A t \in Threads : Reader(t) => th[t].pc = "read" \/ (th[t].pc = "consume" /\ th[t].src = s)
  BY <1>2 DEF IInv, PassInv, Reader
<1> QED
  BY <1>2, <1>3, <1>4 DEF Covered, UnderWay, Walker

\* However the handler, the episodes' swaps and passes interleave, wait and
\* nest, a press whose tasks are still parked is under way, unless its walk
\* failed or the process exits.
THEOREM PressIsNotForgotten == Spec => []NoPressForgotten
BY IInvInvariant, CoverIsUnderWay, PTL
====
