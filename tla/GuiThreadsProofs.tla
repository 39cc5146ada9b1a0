-------------------------- MODULE GuiThreadsProofs --------------------------
(***************************************************************************)
(* Proofs about GuiThreads, for any set of addresses and any number of     *)
(* button presses.                                                         *)
(*                                                                         *)
(* The safety properties are not inductive: a frame is owned because of    *)
(* where the emulation thread must be whenever vblank_ready_ is set, and a *)
(* run measures from a fresh clock because of a flag set long before.  IInv *)
(* adds those facts in four parts that do not depend on each other beyond  *)
(* the types, so that each is preserved by a lemma of its own.             *)
(***************************************************************************)
EXTENDS GuiThreads, TLAPS

-----------------------------------------------------------------------------
(* The inductive invariant.                                                *)

\* A closure that has not returned TRUE yet: its counter still allows a call.
Callable(c) ==
  /\ c.kind = "step" => c.cnt <= 1
  /\ c.kind = "vblank" => c.cnt > 0

Counters ==
  /\ Callable(condition)
  /\ Callable(request)
  /\ epc \in {"reset_time", "check", "execute"} => Callable(cond)

Handshake ==
  /\ emu_running <=> mpc \notin {"unblock", "join_emu", "join_audio", "ended"}
  /\ mpc \in {"await", "blocked"} => ~got_frame
  /\ Drawing => EmuParked /\ ~render_done /\ ~vblank_ready
  /\ vblank_ready => \/ EmuParked
                     \/ ~emu_running /\ epc \in {"top", "exited"}
  /\ vblank_ready /\ emu_running => ~render_done
  /\ EmuParked /\ ~render_done => vblank_ready \/ Drawing
  /\ epc = "blocked" => ~render_done /\ mpc \notin {"join_emu", "join_audio", "ended"}

\* The clock was restarted after c was made, or will be before c runs.
Covered(c) == c.since <= prev_fire \/ (reset_time_pending /\ c.since <= clicks)

Clock ==
  /\ prev_fire <= clicks
  /\ request.since <= clicks
  /\ Covered(condition)
  /\ epc = "reset_time" => Covered(cond)
  /\ epc \in {"check", "execute"} => cond.since <= prev_fire

Generations ==
  /\ gen <= condition_generation
  /\ epc \in {"reset_time", "check", "execute", "fail", "finish"}
       /\ gen = condition_generation => condition.since = cond.since

IInv == TypeOK /\ Counters /\ Handshake /\ Clock /\ Generations

-----------------------------------------------------------------------------
(* Each part is preserved by every action.                                 *)

\* The flags stay Booleans: a lemma of its own, because their values come from
\* formulas (IsRunning, Returns) that the other leaves do not need.
LEMMA FlagsStep ==
  Flags /\ [Next]_vars => Flags'
<1> SUFFICES ASSUME Flags, [Next]_vars
             PROVE  Flags'
  OBVIOUS
<1> USE PcAssumption, ClicksAssumption DEF Flags, vars, handshake, run, machine,
        emu, mainLocal
<1>1. CASE EmuThread
  <2>1. CASE EmuLoop
    BY <2>1 DEF EmuLoop, EmuGoes
  <2>2. CASE EmuSnapshot
    BY <2>2 DEF EmuSnapshot, IsRunning, EmuGoes
  <2>3. CASE EmuResetTime
    BY <2>3 DEF EmuResetTime, EmuGoes
  <2>4. CASE EmuCheck
    BY <2>4 DEF EmuCheck, Called, Returns, EmuGoes
  <2>5. CASE EmuExecuted
    BY <2>5 DEF EmuExecuted, EmuGoes
  <2>6. CASE EmuInterrupted
    BY <2>6 DEF EmuInterrupted, EmuGoes
  <2>7. CASE EmuFailed
    BY <2>7 DEF EmuFailed, EmuGoes
  <2>8. CASE EmuFail
    BY <2>8 DEF EmuFail, ClearOwn, NoCondition, EmuGoes
  <2>9. CASE EmuFinish
    BY <2>9 DEF EmuFinish, ClearOwn, NoCondition, EmuGoes
  <2>10. CASE EmuSignal
    BY <2>10 DEF EmuSignal, EmuGoes
  <2>11. CASE EmuNotify
    BY <2>11 DEF EmuNotify, EmuGoes
  <2>12. CASE EmuWait
    BY <2>12 DEF EmuWait, EmuGoes
  <2> QED BY <1>1, <2>1, <2>2, <2>3, <2>4, <2>5, <2>6, <2>7, <2>8, <2>9,
            <2>10, <2>11, <2>12 DEF EmuThread
<1>2. CASE MainThread
  <2>1. CASE MainPoll
    BY <2>1 DEF MainPoll, MainGoes
  <2>2. CASE MainAwait
    BY <2>2 DEF MainAwait, TakeFrame, MainGoes
  <2>3. CASE MainTimeout
    BY <2>3 DEF MainTimeout, TakeFrame, MainGoes
  <2>4. CASE MainUpdate
    BY <2>4 DEF MainUpdate, MainGoes
  <2>5. CASE MainWindow
    BY <2>5 DEF MainWindow, Prepare, PauseAnd, Install, ClickDump, Click,
       ClearCondition, Condition, NoCondition, MainGoes
  <2>6. CASE MainReload
    BY <2>6 DEF MainReload, MainGoes
  <2>7. CASE MainLoad
    BY <2>7 DEF MainLoad, MainGoes
  <2>8. CASE MainInspect
    BY <2>8 DEF MainInspect, IsRunning, DecodeBegin, MainGoes
  <2>9. CASE MainSample
    BY <2>9 DEF MainSample, IsRunning, MainGoes
  <2>10. CASE MainCommands
    BY <2>10 DEF MainCommands, Prepare, PauseAnd, Install, Click,
       ClearCondition, Condition, NoCondition, StartCount, DecodeBegin, MainGoes
  <2>11. CASE MainDecodeNext
    BY <2>11 DEF MainDecodeNext, Condition, MainGoes
  <2>12. CASE MainPresent
    BY <2>12 DEF MainPresent, NotifyRender, MainGoes
  <2>13. CASE MainStop
    BY <2>13 DEF MainStop, MainGoes
  <2>14. CASE MainUnblock
    BY <2>14 DEF MainUnblock, NotifyRender, MainGoes
  <2>15. CASE MainJoin
    BY <2>15 DEF MainJoin, MainGoes
  <2> QED BY <1>2, <2>1, <2>2, <2>3, <2>4, <2>5, <2>6, <2>7, <2>8, <2>9,
            <2>10, <2>11, <2>12, <2>13, <2>14, <2>15 DEF MainThread
<1>3. CASE AudioThread
  BY <1>3 DEF AudioThread
<1>4. CASE UserCloses
  BY <1>4 DEF UserCloses, MainGoes
<1>5. CASE SpuriousWakeup
  BY <1>5 DEF SpuriousWakeup, EmuGoes, MainGoes
<1>6. CASE Terminated
  BY <1>6 DEF Terminated
<1>7. CASE UNCHANGED vars
  BY <1>7
<1> QED BY <1>1, <1>2, <1>3, <1>4, <1>5, <1>6, <1>7 DEF Next

\* The counter captured in a closure of set_condition stays in range: a closure
\* that returned TRUE is dropped with its snapshot and never called again.
LEMMA CountersStep ==
  TypeOK /\ Counters /\ Flags' /\ [Next]_vars => TypeOK' /\ Counters'
<1> SUFFICES ASSUME TypeOK /\ Counters /\ Flags', [Next]_vars
             PROVE  TypeOK' /\ Counters'
  OBVIOUS
<1> USE PcAssumption, ClicksAssumption DEF TypeOK, Counters, Callable,
        Conditions, Kinds, EmuPcs, MainPcs, vars, handshake, run, machine, emu,
        mainLocal
<1>1. CASE EmuThread
  <2>1. CASE EmuLoop
    BY <2>1 DEF EmuLoop, EmuGoes
  <2>2. CASE EmuSnapshot
    BY <2>2 DEF EmuSnapshot, IsRunning, EmuGoes
  <2>3. CASE EmuResetTime
    BY <2>3 DEF EmuResetTime, EmuGoes
  <2>4. CASE EmuCheck
    BY <2>4 DEF EmuCheck, Called, Returns, EmuGoes
  <2>5. CASE EmuExecuted
    BY <2>5 DEF EmuExecuted, EmuGoes
  <2>6. CASE EmuInterrupted
    BY <2>6 DEF EmuInterrupted, EmuGoes
  <2>7. CASE EmuFailed
    BY <2>7 DEF EmuFailed, EmuGoes
  <2>8. CASE EmuFail
    BY <2>8 DEF EmuFail, ClearOwn, NoCondition, EmuGoes
  <2>9. CASE EmuFinish
    BY <2>9 DEF EmuFinish, ClearOwn, NoCondition, EmuGoes
  <2>10. CASE EmuSignal
    BY <2>10 DEF EmuSignal, EmuGoes
  <2>11. CASE EmuNotify
    BY <2>11 DEF EmuNotify, EmuGoes
  <2>12. CASE EmuWait
    BY <2>12 DEF EmuWait, EmuGoes
  <2> QED BY <1>1, <2>1, <2>2, <2>3, <2>4, <2>5, <2>6, <2>7, <2>8, <2>9,
            <2>10, <2>11, <2>12 DEF EmuThread
<1>2. CASE MainThread
  <2>1. CASE MainPoll
    BY <2>1 DEF MainPoll, MainGoes
  <2>2. CASE MainAwait
    BY <2>2 DEF MainAwait, TakeFrame, MainGoes
  <2>3. CASE MainTimeout
    BY <2>3 DEF MainTimeout, TakeFrame, MainGoes
  <2>4. CASE MainUpdate
    BY <2>4 DEF MainUpdate, MainGoes
  <2>5. CASE MainWindow
    BY <2>5 DEF MainWindow, Prepare, PauseAnd, Install, ClickDump, Click,
       ClearCondition, Condition, NoCondition, MainGoes
  <2>6. CASE MainReload
    BY <2>6 DEF MainReload, MainGoes
  <2>7. CASE MainLoad
    BY <2>7 DEF MainLoad, MainGoes
  <2>8. CASE MainInspect
    BY <2>8 DEF MainInspect, IsRunning, DecodeBegin, MainGoes
  <2>9. CASE MainSample
    BY <2>9 DEF MainSample, IsRunning, MainGoes
  <2>10. CASE MainCommands
    BY <2>10 DEF MainCommands, Prepare, PauseAnd, Install, Click,
       ClearCondition, Condition, NoCondition, StartCount, DecodeBegin, MainGoes
  <2>11. CASE MainDecodeNext
    BY <2>11 DEF MainDecodeNext, Condition, MainGoes
  <2>12. CASE MainPresent
    BY <2>12 DEF MainPresent, NotifyRender, MainGoes
  <2>13. CASE MainStop
    BY <2>13 DEF MainStop, MainGoes
  <2>14. CASE MainUnblock
    BY <2>14 DEF MainUnblock, NotifyRender, MainGoes
  <2>15. CASE MainJoin
    BY <2>15 DEF MainJoin, MainGoes
  <2> QED BY <1>2, <2>1, <2>2, <2>3, <2>4, <2>5, <2>6, <2>7, <2>8, <2>9,
            <2>10, <2>11, <2>12, <2>13, <2>14, <2>15 DEF MainThread
<1>3. CASE AudioThread
  BY <1>3 DEF AudioThread
<1>4. CASE UserCloses
  BY <1>4 DEF UserCloses, MainGoes
<1>5. CASE SpuriousWakeup
  BY <1>5 DEF SpuriousWakeup, EmuGoes, MainGoes
<1>6. CASE Terminated
  BY <1>6 DEF Terminated
<1>7. CASE UNCHANGED vars
  BY <1>7
<1> QED BY <1>1, <1>2, <1>3, <1>4, <1>5, <1>6, <1>7 DEF Next

\* vblank_ready_, render_done_ and the two threads' positions stay consistent:
\* a frame is signalled or drawn only while the emulation thread is parked.
LEMMA HandshakeStep ==
  TypeOK /\ Handshake /\ [Next]_vars => Handshake'
<1> SUFFICES ASSUME TypeOK /\ Handshake, [Next]_vars
             PROVE  Handshake'
  OBVIOUS
<1> USE PcAssumption, ClicksAssumption DEF TypeOK, Flags, Handshake, Drawing,
        RoundPcs, EmuParked, EmuPcs, MainPcs, vars, handshake, run, machine,
        emu, mainLocal
<1>1. CASE EmuThread
  <2>1. CASE EmuLoop
    BY <2>1 DEF EmuLoop, EmuGoes
  <2>2. CASE EmuSnapshot
    BY <2>2 DEF EmuSnapshot, IsRunning, EmuGoes
  <2>3. CASE EmuResetTime
    BY <2>3 DEF EmuResetTime, EmuGoes
  <2>4. CASE EmuCheck
    BY <2>4 DEF EmuCheck, Called, Returns, EmuGoes
  <2>5. CASE EmuExecuted
    BY <2>5 DEF EmuExecuted, EmuGoes
  <2>6. CASE EmuInterrupted
    BY <2>6 DEF EmuInterrupted, EmuGoes
  <2>7. CASE EmuFailed
    BY <2>7 DEF EmuFailed, EmuGoes
  <2>8. CASE EmuFail
    BY <2>8 DEF EmuFail, ClearOwn, NoCondition, EmuGoes
  <2>9. CASE EmuFinish
    BY <2>9 DEF EmuFinish, ClearOwn, NoCondition, EmuGoes
  <2>10. CASE EmuSignal
    BY <2>10 DEF EmuSignal, EmuGoes
  <2>11. CASE EmuNotify
    BY <2>11 DEF EmuNotify, EmuGoes
  <2>12. CASE EmuWait
    BY <2>12 DEF EmuWait, EmuGoes
  <2> QED BY <1>1, <2>1, <2>2, <2>3, <2>4, <2>5, <2>6, <2>7, <2>8, <2>9,
            <2>10, <2>11, <2>12 DEF EmuThread
<1>2. CASE MainThread
  <2>1. CASE MainPoll
    BY <2>1 DEF MainPoll, MainGoes
  <2>2. CASE MainAwait
    BY <2>2 DEF MainAwait, TakeFrame, MainGoes
  <2>3. CASE MainTimeout
    BY <2>3 DEF MainTimeout, TakeFrame, MainGoes
  <2>4. CASE MainUpdate
    BY <2>4 DEF MainUpdate, MainGoes
  <2>5. CASE MainWindow
    BY <2>5 DEF MainWindow, Prepare, PauseAnd, Install, ClickDump, Click,
       ClearCondition, Condition, NoCondition, MainGoes
  <2>6. CASE MainReload
    BY <2>6 DEF MainReload, MainGoes
  <2>7. CASE MainLoad
    BY <2>7 DEF MainLoad, MainGoes
  <2>8. CASE MainInspect
    BY <2>8 DEF MainInspect, IsRunning, DecodeBegin, MainGoes
  <2>9. CASE MainSample
    BY <2>9 DEF MainSample, IsRunning, MainGoes
  <2>10. CASE MainCommands
    BY <2>10 DEF MainCommands, Prepare, PauseAnd, Install, Click,
       ClearCondition, Condition, NoCondition, StartCount, DecodeBegin, MainGoes
  <2>11. CASE MainDecodeNext
    BY <2>11 DEF MainDecodeNext, Condition, MainGoes
  <2>12. CASE MainPresent
    BY <2>12 DEF MainPresent, NotifyRender, MainGoes
  <2>13. CASE MainStop
    BY <2>13 DEF MainStop, MainGoes
  <2>14. CASE MainUnblock
    BY <2>14 DEF MainUnblock, NotifyRender, MainGoes
  <2>15. CASE MainJoin
    BY <2>15 DEF MainJoin, MainGoes
  <2> QED BY <1>2, <2>1, <2>2, <2>3, <2>4, <2>5, <2>6, <2>7, <2>8, <2>9,
            <2>10, <2>11, <2>12, <2>13, <2>14, <2>15 DEF MainThread
<1>3. CASE AudioThread
  BY <1>3 DEF AudioThread
<1>4. CASE UserCloses
  BY <1>4 DEF UserCloses, MainGoes
<1>5. CASE SpuriousWakeup
  BY <1>5 DEF SpuriousWakeup, EmuGoes, MainGoes
<1>6. CASE Terminated
  BY <1>6 DEF Terminated
<1>7. CASE UNCHANGED vars
  BY <1>7
<1> QED BY <1>1, <1>2, <1>3, <1>4, <1>5, <1>6, <1>7 DEF Next

\* Every condition is covered by a restart of the interrupt clock, done or
\* pending, because set_condition stores the flag in its critical section.
LEMMA ClockStep ==
  TypeOK /\ TypeOK' /\ Clock /\ [Next]_vars => Clock'
<1> SUFFICES ASSUME TypeOK /\ TypeOK' /\ Clock, [Next]_vars
             PROVE  Clock'
  OBVIOUS
<1> USE PcAssumption, ClicksAssumption DEF TypeOK, Clock, Covered, Conditions,
        Kinds, vars, handshake, run, machine, emu, mainLocal
<1>1. CASE EmuThread
  <2>1. CASE EmuLoop
    BY <2>1 DEF EmuLoop, EmuGoes
  <2>2. CASE EmuSnapshot
    BY <2>2 DEF EmuSnapshot, IsRunning, EmuGoes
  <2>3. CASE EmuResetTime
    BY <2>3 DEF EmuResetTime, EmuGoes
  <2>4. CASE EmuCheck
    BY <2>4 DEF EmuCheck, Called, Returns, EmuGoes
  <2>5. CASE EmuExecuted
    BY <2>5 DEF EmuExecuted, EmuGoes
  <2>6. CASE EmuInterrupted
    BY <2>6 DEF EmuInterrupted, EmuGoes
  <2>7. CASE EmuFailed
    BY <2>7 DEF EmuFailed, EmuGoes
  <2>8. CASE EmuFail
    BY <2>8 DEF EmuFail, ClearOwn, NoCondition, EmuGoes
  <2>9. CASE EmuFinish
    BY <2>9 DEF EmuFinish, ClearOwn, NoCondition, EmuGoes
  <2>10. CASE EmuSignal
    BY <2>10 DEF EmuSignal, EmuGoes
  <2>11. CASE EmuNotify
    BY <2>11 DEF EmuNotify, EmuGoes
  <2>12. CASE EmuWait
    BY <2>12 DEF EmuWait, EmuGoes
  <2> QED BY <1>1, <2>1, <2>2, <2>3, <2>4, <2>5, <2>6, <2>7, <2>8, <2>9,
            <2>10, <2>11, <2>12 DEF EmuThread
<1>2. CASE MainThread
  <2>1. CASE MainPoll
    BY <2>1 DEF MainPoll, MainGoes
  <2>2. CASE MainAwait
    BY <2>2 DEF MainAwait, TakeFrame, MainGoes
  <2>3. CASE MainTimeout
    BY <2>3 DEF MainTimeout, TakeFrame, MainGoes
  <2>4. CASE MainUpdate
    BY <2>4 DEF MainUpdate, MainGoes
  <2>5. CASE MainWindow
    BY <2>5 DEF MainWindow, Prepare, PauseAnd, Install, ClickDump, Click,
       ClearCondition, Condition, NoCondition, MainGoes
  <2>6. CASE MainReload
    BY <2>6 DEF MainReload, MainGoes
  <2>7. CASE MainLoad
    BY <2>7 DEF MainLoad, MainGoes
  <2>8. CASE MainInspect
    BY <2>8 DEF MainInspect, IsRunning, DecodeBegin, MainGoes
  <2>9. CASE MainSample
    BY <2>9 DEF MainSample, IsRunning, MainGoes
  <2>10. CASE MainCommands
    BY <2>10 DEF MainCommands, Prepare, PauseAnd, Install, Click,
       ClearCondition, Condition, NoCondition, StartCount, DecodeBegin, MainGoes
  <2>11. CASE MainDecodeNext
    BY <2>11 DEF MainDecodeNext, Condition, MainGoes
  <2>12. CASE MainPresent
    BY <2>12 DEF MainPresent, NotifyRender, MainGoes
  <2>13. CASE MainStop
    BY <2>13 DEF MainStop, MainGoes
  <2>14. CASE MainUnblock
    BY <2>14 DEF MainUnblock, NotifyRender, MainGoes
  <2>15. CASE MainJoin
    BY <2>15 DEF MainJoin, MainGoes
  <2> QED BY <1>2, <2>1, <2>2, <2>3, <2>4, <2>5, <2>6, <2>7, <2>8, <2>9,
            <2>10, <2>11, <2>12, <2>13, <2>14, <2>15 DEF MainThread
<1>3. CASE AudioThread
  BY <1>3 DEF AudioThread
<1>4. CASE UserCloses
  BY <1>4 DEF UserCloses, MainGoes
<1>5. CASE SpuriousWakeup
  BY <1>5 DEF SpuriousWakeup, EmuGoes, MainGoes
<1>6. CASE Terminated
  BY <1>6 DEF Terminated
<1>7. CASE UNCHANGED vars
  BY <1>7
<1> QED BY <1>1, <1>2, <1>3, <1>4, <1>5, <1>6, <1>7 DEF Next

\* As long as the generation is the one snapshotted, the condition is too.
LEMMA GenerationsStep ==
  TypeOK /\ Generations /\ [Next]_vars => Generations'
<1> SUFFICES ASSUME TypeOK /\ Generations, [Next]_vars
             PROVE  Generations'
  OBVIOUS
<1> USE PcAssumption, ClicksAssumption DEF TypeOK, Generations, Conditions,
        Kinds, vars, handshake, run, machine, emu, mainLocal
<1>1. CASE EmuThread
  <2>1. CASE EmuLoop
    BY <2>1 DEF EmuLoop, EmuGoes
  <2>2. CASE EmuSnapshot
    BY <2>2 DEF EmuSnapshot, IsRunning, EmuGoes
  <2>3. CASE EmuResetTime
    BY <2>3 DEF EmuResetTime, EmuGoes
  <2>4. CASE EmuCheck
    BY <2>4 DEF EmuCheck, Called, Returns, EmuGoes
  <2>5. CASE EmuExecuted
    BY <2>5 DEF EmuExecuted, EmuGoes
  <2>6. CASE EmuInterrupted
    BY <2>6 DEF EmuInterrupted, EmuGoes
  <2>7. CASE EmuFailed
    BY <2>7 DEF EmuFailed, EmuGoes
  <2>8. CASE EmuFail
    BY <2>8 DEF EmuFail, ClearOwn, NoCondition, EmuGoes
  <2>9. CASE EmuFinish
    BY <2>9 DEF EmuFinish, ClearOwn, NoCondition, EmuGoes
  <2>10. CASE EmuSignal
    BY <2>10 DEF EmuSignal, EmuGoes
  <2>11. CASE EmuNotify
    BY <2>11 DEF EmuNotify, EmuGoes
  <2>12. CASE EmuWait
    BY <2>12 DEF EmuWait, EmuGoes
  <2> QED BY <1>1, <2>1, <2>2, <2>3, <2>4, <2>5, <2>6, <2>7, <2>8, <2>9,
            <2>10, <2>11, <2>12 DEF EmuThread
<1>2. CASE MainThread
  <2>1. CASE MainPoll
    BY <2>1 DEF MainPoll, MainGoes
  <2>2. CASE MainAwait
    BY <2>2 DEF MainAwait, TakeFrame, MainGoes
  <2>3. CASE MainTimeout
    BY <2>3 DEF MainTimeout, TakeFrame, MainGoes
  <2>4. CASE MainUpdate
    BY <2>4 DEF MainUpdate, MainGoes
  <2>5. CASE MainWindow
    BY <2>5 DEF MainWindow, Prepare, PauseAnd, Install, ClickDump, Click,
       ClearCondition, Condition, NoCondition, MainGoes
  <2>6. CASE MainReload
    BY <2>6 DEF MainReload, MainGoes
  <2>7. CASE MainLoad
    BY <2>7 DEF MainLoad, MainGoes
  <2>8. CASE MainInspect
    BY <2>8 DEF MainInspect, IsRunning, DecodeBegin, MainGoes
  <2>9. CASE MainSample
    BY <2>9 DEF MainSample, IsRunning, MainGoes
  <2>10. CASE MainCommands
    BY <2>10 DEF MainCommands, Prepare, PauseAnd, Install, Click,
       ClearCondition, Condition, NoCondition, StartCount, DecodeBegin, MainGoes
  <2>11. CASE MainDecodeNext
    BY <2>11 DEF MainDecodeNext, Condition, MainGoes
  <2>12. CASE MainPresent
    BY <2>12 DEF MainPresent, NotifyRender, MainGoes
  <2>13. CASE MainStop
    BY <2>13 DEF MainStop, MainGoes
  <2>14. CASE MainUnblock
    BY <2>14 DEF MainUnblock, NotifyRender, MainGoes
  <2>15. CASE MainJoin
    BY <2>15 DEF MainJoin, MainGoes
  <2> QED BY <1>2, <2>1, <2>2, <2>3, <2>4, <2>5, <2>6, <2>7, <2>8, <2>9,
            <2>10, <2>11, <2>12, <2>13, <2>14, <2>15 DEF MainThread
<1>3. CASE AudioThread
  BY <1>3 DEF AudioThread
<1>4. CASE UserCloses
  BY <1>4 DEF UserCloses, MainGoes
<1>5. CASE SpuriousWakeup
  BY <1>5 DEF SpuriousWakeup, EmuGoes, MainGoes
<1>6. CASE Terminated
  BY <1>6 DEF Terminated
<1>7. CASE UNCHANGED vars
  BY <1>7
<1> QED BY <1>1, <1>2, <1>3, <1>4, <1>5, <1>6, <1>7 DEF Next

\* A step of the threads is a step of the turn-taking specification, or none.
LEMMA TurnsStep ==
  TypeOK /\ Handshake /\ Handshake' /\ [Next]_vars => [Turns!Next]_(Turns!vars)
<1> SUFFICES ASSUME TypeOK /\ Handshake /\ Handshake', [Next]_vars
             PROVE  [Turns!Next]_(Turns!vars)
  OBVIOUS
<1> USE PcAssumption, ClicksAssumption DEF TypeOK, Flags, Handshake, Drawing,
        RoundPcs, EmuParked, EmuPcs, MainPcs, Turns!Next, Turns!vars,
        Turns!BeginInstruction, Turns!EndInstruction, Turns!ReachVblank,
        Turns!TakeFrame, Turns!FinishFrame, Turns!Close, vars, handshake, run,
        machine, emu, mainLocal
<1>1. CASE EmuThread
  <2>1. CASE EmuLoop
    BY <2>1 DEF EmuLoop, EmuGoes
  <2>2. CASE EmuSnapshot
    BY <2>2 DEF EmuSnapshot, IsRunning, EmuGoes
  <2>3. CASE EmuResetTime
    BY <2>3 DEF EmuResetTime, EmuGoes
  <2>4. CASE EmuCheck
    BY <2>4 DEF EmuCheck, Called, Returns, EmuGoes
  <2>5. CASE EmuExecuted
    BY <2>5 DEF EmuExecuted, EmuGoes
  <2>6. CASE EmuInterrupted
    BY <2>6 DEF EmuInterrupted, EmuGoes
  <2>7. CASE EmuFailed
    BY <2>7 DEF EmuFailed, EmuGoes
  <2>8. CASE EmuFail
    BY <2>8 DEF EmuFail, ClearOwn, NoCondition, EmuGoes
  <2>9. CASE EmuFinish
    BY <2>9 DEF EmuFinish, ClearOwn, NoCondition, EmuGoes
  <2>10. CASE EmuSignal
    BY <2>10 DEF EmuSignal, EmuGoes
  <2>11. CASE EmuNotify
    BY <2>11 DEF EmuNotify, EmuGoes
  <2>12. CASE EmuWait
    BY <2>12 DEF EmuWait, EmuGoes
  <2> QED BY <1>1, <2>1, <2>2, <2>3, <2>4, <2>5, <2>6, <2>7, <2>8, <2>9,
            <2>10, <2>11, <2>12 DEF EmuThread
<1>2. CASE MainThread
  <2>1. CASE MainPoll
    BY <2>1 DEF MainPoll, MainGoes
  <2>2. CASE MainAwait
    BY <2>2 DEF MainAwait, TakeFrame, MainGoes
  <2>3. CASE MainTimeout
    BY <2>3 DEF MainTimeout, TakeFrame, MainGoes
  <2>4. CASE MainUpdate
    BY <2>4 DEF MainUpdate, MainGoes
  <2>5. CASE MainWindow
    BY <2>5 DEF MainWindow, Prepare, PauseAnd, Install, ClickDump, Click,
       ClearCondition, Condition, NoCondition, MainGoes
  <2>6. CASE MainReload
    BY <2>6 DEF MainReload, MainGoes
  <2>7. CASE MainLoad
    BY <2>7 DEF MainLoad, MainGoes
  <2>8. CASE MainInspect
    BY <2>8 DEF MainInspect, IsRunning, DecodeBegin, MainGoes
  <2>9. CASE MainSample
    BY <2>9 DEF MainSample, IsRunning, MainGoes
  <2>10. CASE MainCommands
    BY <2>10 DEF MainCommands, Prepare, PauseAnd, Install, Click,
       ClearCondition, Condition, NoCondition, StartCount, DecodeBegin, MainGoes
  <2>11. CASE MainDecodeNext
    BY <2>11 DEF MainDecodeNext, Condition, MainGoes
  <2>12. CASE MainPresent
    BY <2>12 DEF MainPresent, NotifyRender, MainGoes
  <2>13. CASE MainStop
    BY <2>13 DEF MainStop, MainGoes
  <2>14. CASE MainUnblock
    BY <2>14 DEF MainUnblock, NotifyRender, MainGoes
  <2>15. CASE MainJoin
    BY <2>15 DEF MainJoin, MainGoes
  <2> QED BY <1>2, <2>1, <2>2, <2>3, <2>4, <2>5, <2>6, <2>7, <2>8, <2>9,
            <2>10, <2>11, <2>12, <2>13, <2>14, <2>15 DEF MainThread
<1>3. CASE AudioThread
  BY <1>3 DEF AudioThread
<1>4. CASE UserCloses
  BY <1>4 DEF UserCloses, MainGoes
<1>5. CASE SpuriousWakeup
  BY <1>5 DEF SpuriousWakeup, EmuGoes, MainGoes
<1>6. CASE Terminated
  BY <1>6 DEF Terminated
<1>7. CASE UNCHANGED vars
  BY <1>7
<1> QED BY <1>1, <1>2, <1>3, <1>4, <1>5, <1>6, <1>7 DEF Next

\* A step of the emulation thread that ends a run ends the run it snapshotted.
LEMMA OwnStep ==
  ASSUME TypeOK, Generations, [Next]_vars,
         epc \in {"fail", "finish"}, epc' # epc, condition' # condition
  PROVE  condition.since = cond.since
<1> USE DEF vars, run, emu
<1>1. EmuFail \/ EmuFinish
  <2>1. CASE EmuThread
    BY <2>1 DEF EmuThread, EmuGoes, EmuLoop, EmuSnapshot, EmuResetTime, EmuCheck,
                EmuExecuted, EmuInterrupted, EmuFailed, EmuSignal, EmuNotify, EmuWait
  <2>2. CASE MainThread
    BY <2>2 DEF MainThread, MainPoll, MainAwait, TakeFrame, MainTimeout, MainUpdate,
                MainWindow, Prepare, PauseAnd, Install, ClickDump, MainReload,
                MainLoad, MainInspect, DecodeBegin, MainSample, MainCommands,
                MainDecodeNext, MainPresent, NotifyRender, MainStop, MainUnblock,
                MainJoin
  <2>3. CASE AudioThread \/ UserCloses \/ SpuriousWakeup \/ Terminated
    BY <2>3 DEF AudioThread, UserCloses, SpuriousWakeup, EmuGoes, Terminated
  <2> QED BY <2>1, <2>2, <2>3 DEF Next
<1>2. condition_generation = gen
  BY <1>1 DEF EmuFail, EmuFinish, ClearOwn
<1> QED BY <1>2 DEF Generations

-----------------------------------------------------------------------------
(* The theorems.                                                           *)

\* The state Gui::loop starts from satisfies the inductive invariant.
LEMMA InitInductive == Init => IInv
<1> SUFFICES ASSUME Init PROVE IInv
  OBVIOUS
<1>1. Flags
  BY DEF Init, Flags
<1>2. NoCondition \in Conditions
  BY PcAssumption DEF NoCondition, Conditions, Kinds
<1>3. TypeOK
  BY <1>1, <1>2, PcAssumption, ClicksAssumption DEF Init, TypeOK, EmuPcs, MainPcs
<1>4. Counters
  BY DEF Init, Counters, Callable, NoCondition
<1>5. Handshake
  BY DEF Init, Handshake, Drawing, EmuParked
<1>6. Clock /\ Generations
  BY DEF Init, Clock, Covered, Generations, NoCondition
<1> QED BY <1>3, <1>4, <1>5, <1>6 DEF IInv

\* Every variable keeps its type; in particular the counter a snapshot of
\* condition_ counts with (gui.cpp:621, 636) never leaves 0..2.
THEOREM TypeCorrect == Spec => []TypeOK
<1>1. Init => TypeOK /\ Counters
  BY InitInductive DEF IInv
<1>2. TypeOK /\ Counters /\ [Next]_vars => TypeOK' /\ Counters'
  BY FlagsStep, CountersStep DEF TypeOK
<1> QED BY <1>1, <1>2, PTL DEF Spec

\* The inductive invariant holds in every reachable state.
THEOREM Invariance == Spec => []IInv
<1>1. IInv /\ [Next]_vars => IInv'
  BY FlagsStep, CountersStep, HandshakeStep, ClockStep, GenerationsStep DEF
     TypeOK, IInv
<1> QED BY <1>1, InitInductive, PTL DEF Spec

\* While the main thread draws a frame, whatever is clicked meanwhile, the
\* emulation thread waits (gui.cpp:232).
THEOREM FramesOwned == Spec => []FrameOwnership
<1>1. IInv => FrameOwnership
  BY DEF IInv, Handshake, FrameOwnership
<1> QED BY <1>1, Invariance, PTL

\* Whenever the emulation thread blocks in render_cv_.wait, a notification is
\* still to come: from the round that draws its frame, or from the shutdown.
THEOREM NoLostWakeup == Spec => []BlockedIsOwed
<1>1. IInv => BlockedIsOwed
  BY DEF IInv, Handshake, BlockedIsOwed, EmuParked
<1> QED BY <1>1, Invariance, PTL

\* An instruction executes only after the interrupt clock was restarted for the
\* run it belongs to (gui.cpp:188, 277).
THEOREM ClockIsFresh == Spec => []FreshClock
<1>1. IInv => FreshClock
  BY DEF IInv, TypeOK, Conditions, Clock, FreshClock
<1> QED BY <1>1, Invariance, PTL

\* The emulation thread clears only the condition it snapshotted (gui.cpp:202
\* and 218), however late it gets there.
THEOREM OthersRunsSurvive == Spec => OnlyOwnRunCleared
<1>1. IInv /\ [Next]_vars =>
        [(epc \in {"fail", "finish"} /\ epc' # epc /\ condition' # condition)
           => condition.since = cond.since]_vars
  BY OwnStep DEF IInv
<1> QED BY <1>1, Invariance, PTL DEF Spec, OnlyOwnRunCleared

\* The handshake implements the safety part of FrameTurns: emulation, a finished
\* frame, its drawing, and only then emulation again.
THEOREM TurnsAreTaken == Spec => Turns!Init /\ [][Turns!Next]_(Turns!vars)
<1>1. Init => Turns!Init
  BY DEF Init, Turns!Init, Drawing, RoundPcs
<1>2. IInv /\ IInv' /\ [Next]_vars => [Turns!Next]_(Turns!vars)
  BY TurnsStep DEF IInv
<1> QED BY <1>1, <1>2, Invariance, PTL DEF Spec
=============================================================================
