------------------------- MODULE SystemBrokerProofs -------------------------
(***************************************************************************)
(* Safety of the System broker for every set of commands, any number of    *)
(* deliveries and boots, with failing disks.                               *)
(***************************************************************************)
EXTENDS SystemBroker, TLAPS

(***************************************************************************)
(* The values that stand for "none" lie in the ranges of their fields.     *)
(***************************************************************************)
LEMMA Ranges == /\ 0 \in 0..MaxBoot
                /\ 1 \in 1..MaxBoot
                /\ \A b \in 1..MaxBoot : b \in 0..MaxBoot
BY BrokerAssumption

LEMMA CurrentCommand ==
  ASSUME TypeOK, pc # "accept"
  PROVE  cur \in Calls /\ cmd \in Commands
BY DEF TypeOK, Calls, cmd

(***************************************************************************)
(* What each kind of journal entry looks like, for the writes below.       *)
(***************************************************************************)
LEMMA EntryTypes ==
  ASSUME TypeOK, NEW d \in Commands
  PROVE  /\ journal[d] \in Entry
         /\ \A s \in JournalStates :
              /\ [journal[d] EXCEPT !.state = s] \in Entry
              /\ [journal[d] EXCEPT !.state = s].boot = journal[d].boot
              /\ [journal[d] EXCEPT !.state = s].state = s
         /\ \A s \in JournalStates, b \in 0..MaxBoot : [state |-> s, boot |-> b] \in Entry
BY DEF TypeOK, Entry

(***************************************************************************)
(* Answering and closing calls keeps the variables they touch typed.       *)
(***************************************************************************)
LEMMA AnswerType ==
  ASSUME TypeOK, NEW what \in Answers, Answer(what)
  PROVE  /\ answer' \in [Calls -> Answers]
         /\ pc' = "accept"
         /\ cur' = NoCall
BY DEF TypeOK, Answer

LEMMA ClosedType ==
  ASSUME TypeOK, NEW calls, Closed(calls)
  PROVE  answer' \in [Calls -> Answers]
BY DEF TypeOK, Closed, Answers

LEMMA WrittenType ==
  ASSUME TypeOK, NEW entry \in Entry, Written(entry) \/ WriteFails(entry)
  PROVE  journal' \in [Commands -> Entry]
BY DEF TypeOK, Written, WriteFails

LEMMA TypeStep == TypeOK /\ [Next]_vars => TypeOK'
<1> SUFFICES ASSUME TypeOK, [Next]_vars PROVE TypeOK'
  OBVIOUS
<1> USE DEF Steps, history
<1>1. ASSUME NEW call \in Calls, Submit(call) PROVE TypeOK'
  BY <1>1 DEF Submit, TypeOK
<1>2. ASSUME NEW call \in Calls, Accept(call) PROVE TypeOK'
  <2>1. call # NoCall
    BY DEF Calls, NoCall
  <2> QED
    BY <1>2, <2>1 DEF Accept, TypeOK
<1>3. CASE PrepareFails
  <2>1. answer' \in [Calls -> Answers] /\ pc' = "accept" /\ cur' = NoCall
    BY <1>3, AnswerType DEF PrepareFails, Answers
  <2> QED
    BY <1>3, <2>1 DEF PrepareFails, TypeOK
<1>4. CASE Replay \/ RefuseInDoubt
  <2>1. answer' \in [Calls -> Answers] /\ pc' = "accept" /\ cur' = NoCall
    BY <1>4, AnswerType DEF Replay, RefuseInDoubt, Answers
  <2> QED
    BY <1>4, <2>1 DEF Replay, RefuseInDoubt, TypeOK
<1>5. CASE Recover
  <2> DEFINE entry == [journal[cmd] EXCEPT !.state = "completed"]
  <2>1. entry \in Entry
    BY <1>5, CurrentCommand, EntryTypes DEF Recover, Locked, JournalStates
  <2>2. (Written(entry) \/ WriteFails(entry)) /\ \E w \in Answers : Answer(w)
    BY <1>5 DEF Recover, Answers
  <2>3. journal' \in [Commands -> Entry]
    BY <2>1, <2>2, WrittenType
  <2>4. answer' \in [Calls -> Answers] /\ pc' = "accept" /\ cur' = NoCall
    BY <2>2, AnswerType
  <2> QED
    BY <1>5, <2>3, <2>4 DEF Recover, TypeOK
<1>6. CASE Start
  <2> DEFINE entry == [state |-> "started",
                       boot |-> IF KindOf[cmd] = "power" THEN boot ELSE NoBoot]
  <2>1. entry \in Entry
    BY Ranges DEF TypeOK, Entry, JournalStates, NoBoot
  <2>2. journal' \in [Commands -> Entry]
    BY <1>6, <2>1, WrittenType DEF Start
  <2>3. /\ answer' \in [Calls -> Answers]
        /\ pc' \in Steps
        /\ cur' \in Calls \cup {NoCall}
        /\ cur' = NoCall <=> pc' = "accept"
        /\ lock' \in {"free", "held", "leaked"}
    <3>1. CASE UNCHANGED <<cur, answer>> /\ pc' \in {"intent", "run"} /\ lock' = "held"
      BY <1>6, <3>1 DEF TypeOK, Start, Locked
    <3>2. CASE Answer("error") /\ UNCHANGED lock
      BY <3>2, AnswerType DEF TypeOK, Answers
    <3> QED
      BY <1>6, <3>1, <3>2 DEF Start
  <2> QED
    BY <1>6, <2>2, <2>3 DEF Start, TypeOK
<1>7. CASE RecordIntent
  <2>1. CASE UNCHANGED <<cur, answer, lock>> /\ pc' = "run"
    BY <1>7, <2>1 DEF RecordIntent, TypeOK
  <2>2. CASE Answer("error") /\ lock' = "leaked"
    BY <1>7, <2>2, AnswerType DEF RecordIntent, TypeOK, Answers
  <2> QED
    BY <1>7, <2>1, <2>2 DEF RecordIntent
<1>8. ASSUME TakesEffect, pc # "accept"
      PROVE  /\ effects' \in [Commands -> Nat]
             /\ effectBoot' \in [Commands -> 0..MaxBoot]
  BY <1>8, CurrentCommand, Ranges DEF TakesEffect, TypeOK
<1>9. CASE Run
  BY <1>8, <1>9, CurrentCommand DEF Run, TypeOK
<1>10. CASE RunFails
  BY <1>8, <1>10 DEF RunFails, TypeOK
<1>11. CASE MarkRebootRequested
  <2> DEFINE entry == [state |-> "reboot_requested", boot |-> boot]
  <2>1. entry \in Entry
    BY Ranges DEF TypeOK, Entry, JournalStates
  <2>2. journal' \in [Commands -> Entry]
    BY <1>11, <2>1, WrittenType DEF MarkRebootRequested
  <2> QED
    BY <1>11, <2>2 DEF MarkRebootRequested, TypeOK
<1>12. CASE Prepare \/ AnnounceReboot \/ CrossRefused \/ CrossReturns
  BY <1>12 DEF Prepare, AnnounceReboot, CrossRefused, CrossReturns, TypeOK
<1>13. CASE CrossAccepted
  BY <1>13, CurrentCommand, Ranges DEF CrossAccepted, TypeOK
<1>14. CASE FinishOk \/ FinishError
  <2>1. pc # "accept"
    BY <1>14 DEF FinishOk, FinishError
  <2>2. \E s \in JournalStates :
          Written([journal[cmd] EXCEPT !.state = s])
          \/ WriteFails([journal[cmd] EXCEPT !.state = s])
    BY <1>14 DEF FinishOk, FinishError, JournalStates
  <2>3. journal' \in [Commands -> Entry]
    BY <2>1, <2>2, CurrentCommand, EntryTypes, WrittenType
  <2>4. answer' \in [Calls -> Answers] /\ pc' = "accept" /\ cur' = NoCall
    BY <1>14, AnswerType DEF FinishOk, FinishError, Answers
  <2> QED
    BY <1>14, <2>3, <2>4 DEF FinishOk, FinishError, TypeOK
<1>15. CASE ClearIntentFails
  BY <1>15, AnswerType DEF ClearIntentFails, TypeOK, Answers
<1>16. CASE Crash
  BY <1>16, ClosedType DEF Crash, TypeOK
<1>17. CASE HostReboot
  BY <1>17, ClosedType, BrokerAssumption DEF HostReboot, TypeOK
<1>18. CASE UNCHANGED vars
  BY <1>18 DEF vars, TypeOK
<1> QED
  BY <1>1, <1>2, <1>3, <1>4, <1>5, <1>6, <1>7, <1>9, <1>10, <1>11, <1>12, <1>13,
     <1>14, <1>15, <1>16, <1>17, <1>18 DEF Next, Serve

(***************************************************************************)
(* Every variable keeps its type.                                          *)
(***************************************************************************)
THEOREM TypeCorrect == Spec => []TypeOK
<1>1. Init => TypeOK
  BY Ranges DEF Init, TypeOK, Entry, JournalStates, Answers, Steps, NoBoot
<1> QED
  BY <1>1, TypeStep, PTL DEF Spec

-----------------------------------------------------------------------------
(* The journal *)

(***************************************************************************)
(* A write to the journal touches the served command only, and a failed    *)
(* one leaves either the old entry or the new one.                         *)
(***************************************************************************)
LEMMA WriteFrame ==
  ASSUME TypeOK, cmd \in Commands, NEW entry \in Entry,
         Written(entry) \/ WriteFails(entry)
  PROVE  /\ journal'[cmd] = entry \/ journal'[cmd] = journal[cmd]
         /\ \A d \in Commands : d # cmd => journal'[d] = journal[d]
BY DEF TypeOK, Written, WriteFails

(***************************************************************************)
(* The entries the broker writes, and when it writes them.                 *)
(***************************************************************************)
Wrote(entry) ==
  /\ journal'[cmd] = entry \/ journal'[cmd] = journal[cmd]
  /\ \A d \in Commands : d # cmd => journal'[d] = journal[d]

LEMMA RecoverWrites ==
  ASSUME TypeOK, Recover
  PROVE  Wrote([journal[cmd] EXCEPT !.state = "completed"])
<1>1. cmd \in Commands /\ [journal[cmd] EXCEPT !.state = "completed"] \in Entry
  BY CurrentCommand, EntryTypes DEF Recover, Locked, JournalStates
<1> QED
  BY <1>1, WriteFrame DEF Recover, Wrote

LEMMA StartWrites ==
  ASSUME TypeOK, Start
  PROVE  Wrote([state |-> "started",
                boot |-> IF KindOf[cmd] = "power" THEN boot ELSE NoBoot])
<1>1. cmd \in Commands
  BY CurrentCommand DEF Start, Locked
<1>2. [state |-> "started",
       boot |-> IF KindOf[cmd] = "power" THEN boot ELSE NoBoot] \in Entry
  BY Ranges DEF TypeOK, Entry, JournalStates, NoBoot
<1> QED
  BY <1>1, <1>2, WriteFrame DEF Start, Wrote

LEMMA MarkWrites ==
  ASSUME TypeOK, MarkRebootRequested
  PROVE  Wrote([state |-> "reboot_requested", boot |-> boot])
<1>1. cmd \in Commands
  BY CurrentCommand DEF MarkRebootRequested
<1>2. [state |-> "reboot_requested", boot |-> boot] \in Entry
  BY Ranges DEF TypeOK, Entry, JournalStates
<1> QED
  BY <1>1, <1>2, WriteFrame DEF MarkRebootRequested, Wrote

LEMMA FinishWrites ==
  ASSUME TypeOK
  PROVE  /\ FinishOk => Wrote([journal[cmd] EXCEPT !.state = "completed"])
         /\ FinishError => Wrote([journal[cmd] EXCEPT !.state = "in_doubt"])
<1>1. FinishOk \/ FinishError =>
        /\ cmd \in Commands
        /\ [journal[cmd] EXCEPT !.state = "completed"] \in Entry
        /\ [journal[cmd] EXCEPT !.state = "in_doubt"] \in Entry
  BY CurrentCommand, EntryTypes DEF FinishOk, FinishError, JournalStates
<1> QED
  BY <1>1, WriteFrame DEF FinishOk, FinishError, Wrote

Untouched == \/ \E call \in Calls : Submit(call) \/ Accept(call)
             \/ Prepare \/ PrepareFails \/ Replay \/ RefuseInDoubt
             \/ RecordIntent \/ Run \/ RunFails \/ AnnounceReboot
             \/ CrossRefused \/ CrossAccepted \/ CrossReturns \/ ClearIntentFails
             \/ Crash \/ HostReboot \/ UNCHANGED vars

LEMMA UntouchedJournal == Untouched => journal' = journal
BY DEF Untouched, Submit, Accept, Prepare, PrepareFails, Replay, RefuseInDoubt, RecordIntent,
       Run, RunFails, AnnounceReboot, CrossRefused, CrossAccepted, CrossReturns,
       ClearIntentFails, Crash, HostReboot, vars

LEMMA SettlesStep ==
  ASSUME TypeOK, Safe, [Next]_vars
  PROVE  \A d \in Commands : Settles(d)
<1>1. CASE Untouched
  BY <1>1, UntouchedJournal DEF Settles
<1>2. CASE Recover
  <2>1. journal[cmd].state \notin {"completed", "in_doubt"} /\ cmd \in Commands
    BY <1>2, CurrentCommand DEF Recover, BoundaryCrossed, Locked
  <2>2. [journal[cmd] EXCEPT !.state = "completed"].state = "completed"
    BY <2>1, EntryTypes DEF JournalStates
  <2> QED
    BY <1>2, <2>1, <2>2, RecoverWrites DEF Wrote, Settles
<1>3. CASE Start
  BY <1>3, StartWrites DEF Wrote, Settles, Start, Fresh
<1>4. CASE MarkRebootRequested
  BY <1>4, MarkWrites DEF Wrote, Settles, MarkRebootRequested, Safe, StepHolds
<1>5. CASE FinishOk \/ FinishError
  <2>1. journal[cmd].state \in {"started", "reboot_requested"} /\ cmd \in Commands
    BY <1>5, CurrentCommand DEF FinishOk, FinishError, Safe, StepHolds
  <2>2. /\ [journal[cmd] EXCEPT !.state = "completed"].state = "completed"
        /\ [journal[cmd] EXCEPT !.state = "in_doubt"].state = "in_doubt"
    BY <2>1, EntryTypes DEF JournalStates
  <2> QED
    BY <1>5, <2>1, <2>2, FinishWrites DEF Wrote, Settles
<1> QED
  BY <1>1, <1>2, <1>3, <1>4, <1>5 DEF Next, Serve, Untouched

-----------------------------------------------------------------------------
(* The inductive invariant *)

LEMMA AnswersStep ==
  ASSUME TypeOK, Safe, [Next]_vars
  PROVE  AnswersHold'
<1>0. \A d \in Commands : journal[d].state = "completed" => journal'[d].state = "completed"
  BY SettlesStep DEF Settles
<1>1. \A call \in Calls : call[1] \in Commands
  BY DEF Calls
<1>2. ASSUME NEW what \in Answers, Answer(what), pc # "accept",
             what = "ok" => journal'[cmd].state = "completed"
      PROVE  AnswersHold'
  <2>1. \A call \in Calls :
          answer'[call] = "ok" => answer[call] = "ok" \/ (call = cur /\ what = "ok")
    BY <1>2 DEF Answer, TypeOK
  <2> QED
    BY <1>0, <1>1, <1>2, <2>1 DEF Safe, AnswersHold, cmd
<1>3. CASE answer' = answer
  BY <1>0, <1>1, <1>3 DEF Safe, AnswersHold
<1>4. ASSUME NEW calls, Closed(calls) PROVE AnswersHold'
  <2>1. \A call \in Calls : answer'[call] = "ok" => answer[call] = "ok"
    BY <1>4 DEF Closed
  <2> QED
    BY <1>0, <1>1, <2>1 DEF Safe, AnswersHold
<1>5. CASE Replay
  BY <1>2, <1>5, UntouchedJournal DEF Replay, Locked, Answers, Untouched
<1>6. CASE Recover \/ FinishOk
  <2>1. pc # "accept" /\ cmd \in Commands
    BY <1>6, CurrentCommand DEF Recover, FinishOk, Locked
  <2>2. CASE Answer("ok") /\ Written([journal[cmd] EXCEPT !.state = "completed"])
    <3>1. journal'[cmd].state = "completed"
      BY <2>1, <2>2, EntryTypes DEF Written, TypeOK, JournalStates
    <3> QED
      BY <1>2, <2>1, <2>2, <3>1 DEF Answers
  <2>3. CASE Answer("error")
    BY <1>2, <2>1, <2>3 DEF Answers
  <2> QED
    BY <1>6, <2>2, <2>3 DEF Recover, FinishOk
<1>7. CASE PrepareFails \/ RefuseInDoubt \/ FinishError \/ ClearIntentFails
  <2>1. pc # "accept" /\ (Answer("error") \/ Answer("in_doubt"))
    BY <1>7 DEF PrepareFails, RefuseInDoubt, FinishError, ClearIntentFails, Locked
  <2> QED
    BY <1>2, <2>1 DEF Answers
<1>8. CASE Start \/ RecordIntent
  <2>1. pc # "accept" /\ (Answer("error") \/ answer' = answer)
    BY <1>8 DEF Start, RecordIntent, Locked
  <2> QED
    BY <1>2, <1>3, <2>1 DEF Answers
<1>9. CASE Crash \/ HostReboot
  BY <1>4, <1>9 DEF Crash, HostReboot
<1> QED
  BY <1>3, <1>5, <1>6, <1>7, <1>8, <1>9
     DEF Next, Serve, Submit, Accept, Prepare, Run, RunFails, MarkRebootRequested, AnnounceReboot,
         CrossRefused, CrossAccepted, CrossReturns, vars

LEMMA EntriesStep ==
  ASSUME TypeOK, Safe, [Next]_vars, NEW d \in Commands
  PROVE  EntryHolds(d)'
<1>0. /\ EntryHolds(d)
      /\ boot \in Nat /\ journal[d].boot \in Nat /\ effectBoot[d] \in Nat
      /\ effects[d] \in Nat
  BY BrokerAssumption DEF Safe, TypeOK, Entry
<1>1. ASSUME UNCHANGED <<boot, effects, effectBoot, needsReboot>>, journal'[d] = journal[d]
      PROVE  EntryHolds(d)'
  BY <1>0, <1>1 DEF EntryHolds
<1>2. CASE UNCHANGED <<boot, journal, effects, effectBoot, needsReboot>>
  BY <1>1, <1>2
<1>3. CASE HostReboot
  BY <1>0, <1>3 DEF HostReboot, history, EntryHolds
<1>4. ASSUME UNCHANGED <<boot, effects, effectBoot, needsReboot>>,
             NEW entry \in Entry, Wrote(entry), cmd = d => EntryHolds(d)' \/ journal'[d] # entry
      PROVE  EntryHolds(d)'
  BY <1>1, <1>4 DEF Wrote
<1>5. CASE Recover
  <2> DEFINE entry == [journal[cmd] EXCEPT !.state = "completed"]
  <2>1. cmd \in Commands
    BY <1>5, CurrentCommand DEF Recover, Locked
  <2>2. entry \in Entry /\ entry.boot = journal[cmd].boot /\ entry.state = "completed"
    BY <2>1, EntryTypes DEF JournalStates
  <2>3. UNCHANGED <<boot, effects, effectBoot, needsReboot>>
    BY <1>5 DEF Recover, history
  <2>4. ASSUME cmd = d, journal'[d] = entry PROVE EntryHolds(d)'
    <3>1. journal[d].boot < boot
      BY <1>0, <1>5, <2>4 DEF Recover, BoundaryCrossed, EntryHolds, TypeOK
    <3>2. CASE journal[d].state = "reboot_requested"
      BY <1>0, <2>2, <2>3, <2>4, <3>1, <3>2 DEF EntryHolds
    <3>3. CASE KindOf[d] = "power"
      BY <1>0, <2>2, <2>3, <2>4, <3>1, <3>3 DEF EntryHolds
    <3> QED
      BY <1>5, <2>4, <3>2, <3>3 DEF Recover, BoundaryCrossed
  <2> QED
    BY <1>4, <1>5, <2>2, <2>3, <2>4, RecoverWrites
<1>6. CASE Start
  <2> DEFINE entry == [state |-> "started",
                       boot |-> IF KindOf[cmd] = "power" THEN boot ELSE NoBoot]
  <2>1. entry \in Entry /\ entry.boot <= boot
    BY <1>0, Ranges DEF TypeOK, Entry, JournalStates, NoBoot
  <2>2. UNCHANGED <<boot, effects, effectBoot, needsReboot>>
    BY <1>6 DEF Start, history
  <2>3. ASSUME cmd = d, journal'[d] = entry PROVE EntryHolds(d)'
    BY <1>0, <2>1, <2>2, <2>3 DEF EntryHolds
  <2> QED
    BY <1>4, <1>6, <2>1, <2>2, <2>3, StartWrites
<1>7. CASE MarkRebootRequested
  <2> DEFINE entry == [state |-> "reboot_requested", boot |-> boot]
  <2>1. entry \in Entry
    BY Ranges DEF TypeOK, Entry, JournalStates
  <2>2. UNCHANGED <<boot, effects, effectBoot, needsReboot>>
    BY <1>7 DEF MarkRebootRequested, history
  <2>3. effects[cmd] = 1 /\ effectBoot[cmd] = boot
    BY <1>7 DEF MarkRebootRequested, Safe, StepHolds
  <2>4. ASSUME cmd = d, journal'[d] = entry PROVE EntryHolds(d)'
    BY <1>0, <2>2, <2>3, <2>4 DEF EntryHolds
  <2> QED
    BY <1>4, <1>7, <2>1, <2>2, <2>4, MarkWrites
<1>8. CASE FinishOk
  <2> DEFINE entry == [journal[cmd] EXCEPT !.state = "completed"]
  <2>1. cmd \in Commands
    BY <1>8, CurrentCommand DEF FinishOk
  <2>2. entry \in Entry /\ entry.boot = journal[cmd].boot /\ entry.state = "completed"
    BY <2>1, EntryTypes DEF JournalStates
  <2>3. UNCHANGED <<boot, effects, effectBoot, needsReboot>>
    BY <1>8 DEF FinishOk, history
  <2>4. effects[cmd] = 1 /\ cmd \notin needsReboot
    BY <1>8 DEF FinishOk, Safe, StepHolds
  <2>5. ASSUME cmd = d, journal'[d] = entry PROVE EntryHolds(d)'
    BY <1>0, <2>2, <2>3, <2>4, <2>5 DEF EntryHolds
  <2> QED
    BY <1>4, <1>8, <2>2, <2>3, <2>5, FinishWrites
<1>9. CASE FinishError
  <2> DEFINE entry == [journal[cmd] EXCEPT !.state = "in_doubt"]
  <2>1. cmd \in Commands
    BY <1>9, CurrentCommand DEF FinishError
  <2>2. entry \in Entry /\ entry.boot = journal[cmd].boot /\ entry.state = "in_doubt"
    BY <2>1, EntryTypes DEF JournalStates
  <2>3. UNCHANGED <<boot, effects, effectBoot, needsReboot>>
    BY <1>9 DEF FinishError, history
  <2>4. ASSUME cmd = d, journal'[d] = entry PROVE EntryHolds(d)'
    BY <1>0, <2>2, <2>3, <2>4 DEF EntryHolds
  <2> QED
    BY <1>4, <1>9, <2>2, <2>3, <2>4, FinishWrites
<1>10. CASE Run
  <2>1. cmd \in Commands /\ effects[cmd] = 0 /\ journal[cmd].state = "started"
    BY <1>10, CurrentCommand DEF Run, Safe, StepHolds
  <2>2. UNCHANGED <<boot, journal>> /\ TakesEffect
    BY <1>10 DEF Run
  <2>3. \/ needsReboot' = needsReboot
        \/ needsReboot' = needsReboot \cup {cmd} /\ KindOf[cmd] = "update"
    BY <1>10 DEF Run
  <2>4. CASE d # cmd
    <3>1. effects'[d] = effects[d] /\ effectBoot'[d] = effectBoot[d]
      BY <2>2, <2>4 DEF TakesEffect, TypeOK
    <3>2. d \in needsReboot' <=> d \in needsReboot
      BY <2>3, <2>4 DEF TypeOK
    <3> QED
      BY <1>0, <2>2, <3>1, <3>2 DEF EntryHolds
  <2>5. CASE d = cmd
    <3>1. effects'[d] = 1
      BY <2>1, <2>2, <2>5 DEF TakesEffect, TypeOK
    <3>2. d \in needsReboot' => KindOf[d] = "update"
      BY <1>0, <2>3, <2>5 DEF EntryHolds
    <3> QED
      BY <1>0, <2>1, <2>2, <2>5, <3>1, <3>2 DEF EntryHolds
  <2> QED
    BY <2>4, <2>5
<1>11. CASE RunFails
  <2>1. cmd \in Commands /\ effects[cmd] = 0 /\ journal[cmd].state = "started"
    BY <1>11, CurrentCommand DEF RunFails, Safe, StepHolds
  <2>2. UNCHANGED <<boot, journal, needsReboot>>
    BY <1>11 DEF RunFails
  <2>3. CASE TakesEffect
    BY <1>0, <2>1, <2>2, <2>3 DEF TakesEffect, TypeOK, EntryHolds
  <2> QED
    BY <1>2, <1>11, <2>2, <2>3 DEF RunFails
<1> QED
  BY <1>2, <1>3, <1>5, <1>6, <1>7, <1>8, <1>9, <1>10, <1>11
     DEF Next, Serve, Submit, Accept, Prepare, PrepareFails, Replay, RefuseInDoubt, RecordIntent,
         AnnounceReboot, CrossRefused, CrossAccepted, CrossReturns, ClearIntentFails,
         Crash, history, vars

LEMMA StepsStep ==
  ASSUME TypeOK, Safe, [Next]_vars
  PROVE  StepHolds'
<1>1. CASE pc' \in {"accept", "prepare", "begin"}
  BY <1>1 DEF StepHolds
<1>2. CASE pc' = pc /\ UNCHANGED <<boot, cur, journal, effects, effectBoot, needsReboot>>
  BY <1>2 DEF StepHolds, Safe, cmd
<1>3. CASE Start /\ pc' # "accept"
  <2>1. cmd \in Commands /\ cmd' = cmd /\ effects' = effects /\ pc' \in {"intent", "run"}
    BY <1>3, CurrentCommand DEF Start, Locked, Answer, history, cmd
  <2>2. journal'[cmd].state = "started"
    BY <1>3, <2>1 DEF Start, Answer, Written, TypeOK
  <2>3. effects[cmd] = 0
    BY <1>3, <2>1 DEF Start, Fresh, Safe, EntryHolds
  <2> QED
    BY <2>1, <2>2, <2>3 DEF StepHolds
<1>4. CASE RecordIntent /\ pc' # "accept"
  BY <1>4 DEF RecordIntent, Answer, StepHolds, Safe, history, cmd
<1>5. CASE Run
  <2>1. cmd \in Commands /\ effects[cmd] = 0 /\ journal[cmd].state = "started"
    BY <1>5, CurrentCommand DEF Run, Safe, StepHolds
  <2>2. effects'[cmd] = 1 /\ effectBoot'[cmd] = boot /\ UNCHANGED <<boot, journal, cmd>>
    BY <1>5, <2>1 DEF Run, TakesEffect, TypeOK, cmd
  <2>3. pc' = "mark" \/ (pc' = "finish_ok" /\ cmd \notin needsReboot')
    BY <1>5, <2>1 DEF Run, Safe, EntryHolds
  <2> QED
    BY <2>1, <2>2, <2>3 DEF StepHolds
<1>6. CASE RunFails
  <2>1. journal[cmd].state = "started" /\ UNCHANGED <<journal, cmd>> /\ pc' = "finish_error"
    BY <1>6 DEF RunFails, Safe, StepHolds, cmd
  <2> QED
    BY <2>1 DEF StepHolds
<1>7. CASE MarkRebootRequested
  <2>1. UNCHANGED cmd /\ pc' \in {"announce", "finish_error"}
    BY <1>7 DEF MarkRebootRequested, cmd
  <2>2. journal'[cmd].state \in {"started", "reboot_requested"}
    BY <1>7, MarkWrites DEF Wrote, MarkRebootRequested, Safe, StepHolds
  <2> QED
    BY <2>1, <2>2 DEF StepHolds
<1>8. CASE AnnounceReboot \/ CrossRefused \/ CrossAccepted \/ CrossReturns
  <2>1. /\ UNCHANGED <<journal, cmd>>
        /\ pc \in {"announce", "cross", "crossing"}
        /\ pc' \in {"cross", "crossing", "finish_error"}
    BY <1>8 DEF AnnounceReboot, CrossRefused, CrossAccepted, CrossReturns, cmd
  <2> QED
    BY <2>1 DEF StepHolds, Safe
<1> QED
  BY <1>1, <1>2, <1>3, <1>4, <1>5, <1>6, <1>7, <1>8
     DEF Next, Serve, Submit, Accept, Prepare, PrepareFails, Replay, Recover, RefuseInDoubt,
         Start, RecordIntent, FinishOk, FinishError, ClearIntentFails, Crash, HostReboot,
         Answer, history, vars

LEMMA SafeInit == Init => TypeOK /\ Safe
BY Ranges DEF Init, TypeOK, Entry, JournalStates, Answers, Steps, Safe, EntryHolds, StepHolds,
              AnswersHold, Calls, NoBoot

LEMMA SafeStep == TypeOK /\ Safe /\ [Next]_vars => Safe'
BY AnswersStep, EntriesStep, StepsStep DEF Safe

LEMMA AlwaysSafe == Spec => []Safe
BY SafeInit, SafeStep, TypeCorrect, PTL DEF Spec

-----------------------------------------------------------------------------

(***************************************************************************)
(* No command's operation takes effect twice.                              *)
(***************************************************************************)
THEOREM EffectsAtMostOnce == Spec => []AtMostOnce
<1>1. Safe => AtMostOnce
  BY DEF Safe, EntryHolds, AtMostOnce
<1> QED
  BY <1>1, AlwaysSafe, PTL

(***************************************************************************)
(* A success that was answered was earned, now or by a later boot.         *)
(***************************************************************************)
THEOREM AnsweredSuccessIsEarned == Spec => []SuccessIsEarned
<1>1. Safe => SuccessIsEarned
  BY DEF Safe, EntryHolds, AnswersHold, SuccessIsEarned, Calls
<1> QED
  BY <1>1, AlwaysSafe, PTL

(***************************************************************************)
(* No update reports success in the boot that still needs its reboot.      *)
(***************************************************************************)
THEOREM NoSuccessBeforeReboot == Spec => []NoPreBootSuccess
<1>1. Safe => NoPreBootSuccess
  BY DEF Safe, EntryHolds, AnswersHold, NoPreBootSuccess, Calls
<1> QED
  BY <1>1, AlwaysSafe, PTL

(***************************************************************************)
(* No step of the broker or of the host unsettles a journal entry.         *)
(***************************************************************************)
THEOREM JournalStaysSettled == Spec => JournalSettles
<1>1. TypeOK /\ Safe /\ [Next]_vars => [\A d \in Commands : Settles(d)]_vars
  BY SettlesStep
<1> QED
  BY <1>1, TypeCorrect, AlwaysSafe, PTL DEF Spec, JournalSettles

-----------------------------------------------------------------------------
(* The calls *)

(***************************************************************************)
(* A call that waits or is served has no answer yet, and the served one    *)
(* has left the backlog.                                                   *)
(***************************************************************************)
PendingUnanswered ==
  /\ \A call \in Calls : call \in inbox \/ call = cur => answer[call] = "none"
  /\ cur \notin inbox

Answered(call) == answer[call] # "none" => answer'[call] = answer[call]

LEMMA AnsweringOnce ==
  ASSUME TypeOK, PendingUnanswered, pc # "accept", NEW what \in Answers, Answer(what)
  PROVE  \A call \in Calls : Answered(call)
BY DEF TypeOK, PendingUnanswered, Answer, Answered

LEMMA ClosingOnce ==
  ASSUME TypeOK, NEW calls, Closed(calls)
  PROVE  \A call \in Calls : Answered(call)
BY DEF TypeOK, Closed, Answered

(***************************************************************************)
(* How a step of the broker answers, if it does.                           *)
(***************************************************************************)
LEMMA StepAnswers ==
  ASSUME [Next]_vars
  PROVE  \/ answer' = answer
         \/ pc # "accept" /\ \E what \in Answers : Answer(what) /\ inbox' = inbox
         \/ cur' = NoCall /\ Closed({cur}) /\ inbox' = inbox
         \/ cur' = NoCall /\ Closed(inbox \cup {cur}) /\ inbox' = {}
BY DEF Next, Serve, Submit, Accept, Prepare, PrepareFails, Replay, Recover, RefuseInDoubt, Start,
       RecordIntent, Run, RunFails, MarkRebootRequested, AnnounceReboot, CrossRefused,
       CrossAccepted, CrossReturns, FinishOk, FinishError, ClearIntentFails, Crash, HostReboot,
       Locked, Answers, vars

LEMMA PendingStep ==
  ASSUME TypeOK, PendingUnanswered, [Next]_vars
  PROVE  PendingUnanswered'
<1>0. NoCall \notin Calls
  BY DEF NoCall, Calls
<1>1. CASE answer' = answer
  <2>1. ASSUME NEW call \in Calls, Submit(call) PROVE PendingUnanswered'
    BY <2>1 DEF Submit, PendingUnanswered, TypeOK
  <2>2. ASSUME NEW call \in Calls, Accept(call) PROVE PendingUnanswered'
    BY <2>2 DEF Accept, PendingUnanswered, TypeOK
  <2>3. CASE UNCHANGED <<inbox, cur>>
    BY <1>1, <2>3 DEF PendingUnanswered
  <2>4. CASE cur' = NoCall /\ inbox' \in {inbox, {}}
    BY <1>0, <1>1, <2>4 DEF PendingUnanswered, TypeOK
  <2> QED
    BY <2>1, <2>2, <2>3, <2>4
       DEF Next, Serve, Prepare, PrepareFails, Replay, Recover, RefuseInDoubt, Start,
           RecordIntent, Run, RunFails, MarkRebootRequested, AnnounceReboot, CrossRefused,
           CrossAccepted, CrossReturns, FinishOk, FinishError, ClearIntentFails, Crash,
           HostReboot, Answer, vars
<1>2. CASE pc # "accept" /\ \E what \in Answers : Answer(what) /\ inbox' = inbox
  BY <1>0, <1>2 DEF Answer, PendingUnanswered, TypeOK
<1>3. CASE cur' = NoCall /\ Closed({cur}) /\ inbox' = inbox
  <2>1. \A call \in Calls : call # cur => answer'[call] = answer[call]
    BY <1>3 DEF Closed, TypeOK
  <2> QED
    BY <1>0, <1>3, <2>1 DEF PendingUnanswered, TypeOK
<1>4. CASE cur' = NoCall /\ inbox' = {}
  BY <1>0, <1>4 DEF PendingUnanswered
<1> QED
  BY <1>1, <1>2, <1>3, <1>4, StepAnswers

(***************************************************************************)
(* Only a connection of the agent brings a new call.                       *)
(***************************************************************************)
LEMMA NoNewCalls ==
  ASSUME TypeOK, Serve \/ Crash \/ HostReboot, NEW call \in Calls,
         call \in inbox' \/ call = cur'
  PROVE  call \in inbox \/ call = cur
<1>1. NoCall \notin Calls
  BY DEF NoCall, Calls
<1> QED
  BY <1>1 DEF Serve, Accept, Prepare, PrepareFails, Replay, Recover, RefuseInDoubt, Start,
              RecordIntent, Run, RunFails, MarkRebootRequested, AnnounceReboot, CrossRefused,
              CrossAccepted, CrossReturns, FinishOk, FinishError, ClearIntentFails, Crash,
              HostReboot, Answer

LEMMA AnswersStay ==
  ASSUME TypeOK, PendingUnanswered, [Next]_vars
  PROVE  \A call \in Calls : Answered(call)
<1>1. answer' = answer => \A call \in Calls : Answered(call)
  BY DEF Answered
<1> QED
  BY <1>1, StepAnswers, AnsweringOnce, ClosingOnce

(***************************************************************************)
(* A call is answered once, whatever is delivered or dies after it.        *)
(***************************************************************************)
THEOREM AnswersAreFinal == Spec => [][\A call \in Calls : Answered(call)]_vars
<1>1. Init => PendingUnanswered
  BY DEF Init, PendingUnanswered, NoCall, Calls
<1>2. TypeOK /\ PendingUnanswered /\ [Next]_vars => PendingUnanswered'
  BY PendingStep
<1>3. TypeOK /\ PendingUnanswered /\ [Next]_vars => [\A call \in Calls : Answered(call)]_vars
  BY AnswersStay
<1> QED
  BY <1>1, <1>2, <1>3, TypeCorrect, PTL DEF Spec

-----------------------------------------------------------------------------
(* The boots in the journal *)

(***************************************************************************)
(* The entry of a power command holds the boot it was started in; only an  *)
(* update is marked with another one.                                      *)
(***************************************************************************)
BootsRecorded ==
  /\ \A d \in Commands :
       /\ journal[d].state = "absent" => journal[d].boot = NoBoot
       /\ KindOf[d] = "power" /\ journal[d].state # "absent" => journal[d].boot # NoBoot
  /\ pc = "mark" => KindOf[cmd] = "update"

(***************************************************************************)
(* A step writes the boot of a power command's entry only when it starts   *)
(* the command, and then the running boot.                                 *)
(***************************************************************************)
BootStays(d) ==
  \/ journal'[d].boot = journal[d].boot
  \/ KindOf[d] # "power"
  \/ /\ journal[d].boot = NoBoot
     /\ journal'[d].boot = boot
     /\ boot' = boot

LEMMA BootsStep ==
  ASSUME TypeOK, Safe, BootsRecorded, [Next]_vars
  PROVE  BootsRecorded' /\ \A d \in Commands : BootStays(d)
<1>0. boot # NoBoot
  BY BrokerAssumption DEF TypeOK, NoBoot
<1>1. CASE Untouched
  <2>1. journal' = journal
    BY <1>1, UntouchedJournal
  <2>2. pc' = "mark" => (pc = "mark" /\ cmd' = cmd) \/ KindOf[cmd'] = "update"
    BY <1>1 DEF Untouched, Submit, Accept, Prepare, PrepareFails, Replay, RefuseInDoubt,
                RecordIntent, Run, RunFails, AnnounceReboot, CrossRefused, CrossAccepted,
                CrossReturns, ClearIntentFails, Crash, HostReboot, Answer, vars, cmd
  <2> QED
    BY <2>1, <2>2 DEF BootsRecorded, BootStays
<1>2. ASSUME NEW entry \in Entry, Wrote(entry), cmd \in Commands, pc' # "mark",
             entry.state # "absent", boot' = boot,
             entry.boot = journal[cmd].boot /\ journal[cmd].state # "absent"
      PROVE  BootsRecorded' /\ \A d \in Commands : BootStays(d)
  BY <1>2 DEF Wrote, BootsRecorded, BootStays
<1>3. CASE Recover \/ FinishOk \/ FinishError
  <2>1. PICK s \in JournalStates :
          s # "absent" /\ Wrote([journal[cmd] EXCEPT !.state = s])
    BY <1>3, RecoverWrites, FinishWrites DEF JournalStates
  <2>2. cmd \in Commands /\ journal[cmd].state # "absent" /\ pc' # "mark" /\ boot' = boot
    BY <1>3, CurrentCommand
       DEF Recover, BoundaryCrossed, Locked, FinishOk, FinishError, Answer, Safe, StepHolds
  <2> QED
    BY <1>2, <2>1, <2>2, EntryTypes
<1>4. CASE Start
  <2>1. cmd \in Commands /\ journal[cmd].state = "absent" /\ pc' # "mark" /\ boot' = boot
    BY <1>4, CurrentCommand DEF Start, Fresh, Locked, Answer
  <2>2. journal[cmd].boot = NoBoot
    BY <2>1 DEF BootsRecorded
  <2> QED
    BY <1>0, <1>4, <2>1, <2>2, StartWrites DEF Wrote, BootsRecorded, BootStays
<1>5. CASE MarkRebootRequested
  <2>1. cmd \in Commands /\ KindOf[cmd] = "update" /\ pc' # "mark"
    BY <1>5, CurrentCommand DEF MarkRebootRequested, BootsRecorded
  <2> QED
    BY <1>5, <2>1, MarkWrites DEF Wrote, BootsRecorded, BootStays
<1> QED
  BY <1>1, <1>3, <1>4, <1>5 DEF Next, Serve, Untouched

(***************************************************************************)
(* An operation takes effect for the served command, and nothing else that *)
(* is told of it changes with it.                                          *)
(***************************************************************************)
Takes(d) ==
  /\ pc # "accept" /\ d = cmd
  /\ effects[d] = 0
  /\ effects'[d] = 1
  /\ \A e \in Commands : e # d => effects'[e] = effects[e]
  /\ UNCHANGED <<boot, journal>>

LEMMA EffectsStep ==
  ASSUME TypeOK, Safe, [Next]_vars
  PROVE  effects' = effects \/ \E d \in Commands : Takes(d)
<1>1. CASE (Run \/ RunFails) /\ TakesEffect
  <2>1. cmd \in Commands /\ effects[cmd] = 0 /\ pc # "accept" /\ UNCHANGED <<boot, journal>>
    BY <1>1, CurrentCommand DEF Run, RunFails, Safe, StepHolds
  <2> QED
    BY <1>1, <2>1 DEF TakesEffect, Takes, TypeOK
<1> QED
  BY <1>1 DEF Next, Serve, Submit, Accept, Prepare, PrepareFails, Replay, Recover, RefuseInDoubt,
              Start, RecordIntent, Run, RunFails, MarkRebootRequested, AnnounceReboot,
              CrossRefused, CrossAccepted, CrossReturns, FinishOk, FinishError,
              ClearIntentFails, Crash, HostReboot, history, vars

LEMMA BootRises ==
  ASSUME [Next]_vars
  PROVE  boot' = boot \/ boot' = boot + 1
BY DEF Next, Serve, Submit, Accept, Prepare, PrepareFails, Replay, Recover, RefuseInDoubt, Start,
       RecordIntent, Run, RunFails, MarkRebootRequested, AnnounceReboot, CrossRefused,
       CrossAccepted, CrossReturns, FinishOk, FinishError, ClearIntentFails, Crash, HostReboot,
       vars
=============================================================================
