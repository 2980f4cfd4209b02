---------------------------- MODULE DeviceProofs ----------------------------
(***************************************************************************)
(* What Device guarantees for every set of notes and schedules, any number *)
(* of Syncs at the same time, and any number of faults.                    *)
(***************************************************************************)
EXTENDS Device, NumberLemmas

-----------------------------------------------------------------------------
(***************************************************************************)
(* The operators of reminders and of answers.                              *)
(***************************************************************************)

\* What the assumptions say of one note.
LEMMA NoteFields ==
  ASSUME NEW n \in Notes
  PROVE  /\ n \in Nat /\ n # Rotation
         /\ Fire[n] \in Nat \cup {NoTime} /\ Every[n] \in Nat /\ Created[n] \in Nat
         /\ NewSchedule(n) \in Reminder
<1>1. /\ n \in Nat /\ n # Rotation
      /\ Fire[n] \in Nat \cup {NoTime} /\ Every[n] \in Nat /\ Created[n] \in Nat
  BY DeviceAssumption DEF DeviceAssumption, Rotation
<1> QED BY <1>1 DEF NewSchedule, Reminder

\* The next occurrence lies after the moment of the acknowledgement.
LEMMA NextFireLater ==
  ASSUME NEW fire \in Nat \cup {NoTime}, NEW every \in Nat \ {0}, NEW t \in Nat
  PROVE  NextFire(fire, every, t) \in Nat /\ NextFire(fire, every, t) > t
<1> DEFINE q == (t - fire) \div every
<1>1. CASE fire > t
  BY <1>1 DEF NextFire, NoTime
<1>2. CASE ~ (fire > t)
  <2>1. t - fire \in Nat
    BY <1>2 DEF NoTime
  <2>2. q \in Nat /\ t - fire < (q + 1) * every /\ (q + 1) * every \in Nat
    BY <2>1
  <2> QED BY <1>2, <2>2 DEF NextFire, NoTime
<1> QED BY <1>1, <1>2

\* An acknowledged schedule is a schedule, acknowledged now, and done with now.
LEMMA AcknowledgeResult ==
  ASSUME NEW n \in Notes, NEW r \in Reminder, NEW t \in Nat
  PROVE  /\ Acknowledge(n, r, t) \in Reminder
         /\ Acknowledge(n, r, t).acked = t
         /\ Acknowledge(n, r, t).dismissed \/ Acknowledge(n, r, t).fire > t
<1>1. CASE Every[n] = 0
  BY <1>1 DEF Acknowledge, Reminder
<1>2. CASE Every[n] # 0
  <2>1. Every[n] \in Nat \ {0} /\ r.fire \in Nat \cup {NoTime}
    BY <1>2, NoteFields DEF Reminder
  <2>2. NextFire(r.fire, Every[n], t) \in Nat /\ NextFire(r.fire, Every[n], t) > t
    BY <2>1, NextFireLater
  <2> QED BY <1>2, <2>2 DEF Acknowledge, Reminder
<1> QED BY <1>1, <1>2

\* The upsert keeps the time of the acknowledgement, and the schedule as well if
\* the text of the note has none.
LEMMA InsertReminderResult ==
  ASSUME NEW n \in Notes, reminders \in [Notes -> Reminder]
  PROVE  /\ InsertReminder(n) \in Reminder
         /\ InsertReminder(n).acked = reminders[n].acked
         /\ InsertReminder(n) = reminders[n] \/ InsertReminder(n).fire = Fire[n]
         /\ reminders[n] = NoReminder => InsertReminder(n) = NewSchedule(n)
<1>1. reminders[n] \in Reminder /\ Fire[n] \in Nat \cup {NoTime}
  BY NoteFields
<1>2. CASE Fire[n] = NoTime
  BY <1>1, <1>2 DEF InsertReminder, NewSchedule, NoReminder
<1>3. CASE Fire[n] # NoTime
  <2>1. InsertReminder(n) = [fire |-> Fire[n], dismissed |-> FALSE, acked |-> reminders[n].acked]
    BY <1>3 DEF InsertReminder
  <2>2. reminders[n].acked \in Nat \cup {NoTime}
    BY <1>1 DEF Reminder
  <2>3. reminders[n] = NoReminder => reminders[n].acked = NoTime
    BY DEF NoReminder
  <2>4. InsertReminder(n) \in Reminder
    BY <1>1, <2>1, <2>2 DEF Reminder
  <2>5. InsertReminder(n).acked = reminders[n].acked /\ InsertReminder(n).fire = Fire[n]
    BY <2>1
  <2>6. reminders[n] = NoReminder => InsertReminder(n) = NewSchedule(n)
    BY <2>1, <2>3 DEF NewSchedule
  <2> QED BY <2>4, <2>5, <2>6
<1> QED BY <1>2, <1>3

\* What an answer makes of the status of an item.
LEMMA MarkResult ==
  ASSUME NEW code \in Codes, NEW status \in Statuses
  PROVE  /\ Mark(code, status) \in Statuses
         /\ status # "none" => Mark(code, status) # "none"
         /\ Mark(code, status) = "pending" => status = "pending"
         /\ Mark(code, status) = "synced" => status = "synced" \/ code = "OK"
         /\ Mark(code, status) = "failed" =>
              \/ status = "failed"
              \/ code \in {"UNAUTHORIZED_KEY", "INVALID_TRANSACTION", "INTERNAL_ERROR", ""}
BY DEF Mark, Codes, Statuses

\* The server refuses only a device that is no longer current.
LEMMA VerdictResult ==
  ASSUME standing \in Standings, NEW n
  PROVE  /\ Verdict(n) \in {"OK", "STALE_POW_EPOCH", "UNAUTHORIZED_KEY", "INVALID_TRANSACTION"}
         /\ Verdict(n) = "OK" => OnChain(n) \/ Accepted(n)
         /\ Verdict(n) \in {"UNAUTHORIZED_KEY", "INVALID_TRANSACTION"} => standing # "current"
BY DEF Verdict, Accepted, Standings

-----------------------------------------------------------------------------
(***************************************************************************)
(* Which actions change what.                                              *)
(***************************************************************************)

\* A step is one of these actions, or changes nothing.
LEMMA Steps ==
  ASSUME [Next]_vars
  PROVE  \/ UNCHANGED vars \/ Launch \/ Crash \/ Tick \/ Rotate \/ ServerRestart
         \/ \E n \in Notes : Submit(n) \/ HomeAck(n) \/ CalendarAck(n) \/ OtherNote(n)
         \/ \E s \in Syncs : \/ StartSync(s) \/ Receive(s) \/ ReceiveFails(s) \/ Lose(s)
                            \/ Send(s) \/ SendBroken(s)
                            \/ StartPull(s) \/ PullNote(s) \/ FinishSync(s) \/ FailPull(s)
BY DEF Next, Terminal, Sync, Step

\* Reminders change by four actions.
LEMMA ReminderSteps ==
  ASSUME [Next]_vars
  PROVE  \/ reminders' = reminders
         \/ \E n \in Notes : Submit(n) \/ HomeAck(n) \/ CalendarAck(n)
         \/ \E s \in Syncs : PullNote(s)
BY Steps DEF vars, database, Launch, Crash, Tick, Rotate, ServerRestart, OtherNote, StartSync, Receive,
  ReceiveFails, Lose, Send, SendBroken, StartPull, FinishSync, FailPull, Finish

\* Rows and items change by three, and the statuses of answers by Receive alone.
LEMMA ItemSteps ==
  ASSUME [Next]_vars
  PROVE  \/ rows' = rows /\ outbox' = outbox
         \/ \E n \in Notes : Submit(n)
         \/ \E s \in Syncs : Receive(s) \/ PullNote(s)
BY Steps DEF vars, database, Launch, Crash, Tick, Rotate, ServerRestart, HomeAck, CalendarAck, OtherNote,
  StartSync, ReceiveFails, Lose, Send, SendBroken, StartPull, FinishSync, FailPull, Finish

\* What a Sync has yet to send and what it was answered.
LEMMA QueueSteps ==
  ASSUME [Next]_vars
  PROVE  \/ todo' = todo /\ answer' = answer /\ pc' = pc
         \/ Crash
         \/ \E s \in Syncs : \/ StartSync(s) \/ Receive(s) \/ ReceiveFails(s) \/ Lose(s)
                            \/ Send(s) \/ SendBroken(s)
                            \/ StartPull(s) \/ FinishSync(s) \/ FailPull(s)
BY Steps DEF vars, syncs, Launch, Tick, Rotate, ServerRestart, Submit, HomeAck, CalendarAck, OtherNote,
  PullNote

\* The chain of the server grows by one block at a time, or loses its last blocks.
LEMMA ChainSteps ==
  ASSUME [Next]_vars
  PROVE  \/ chain' = chain
         \/ \E s \in Syncs : Send(s) \/ SendBroken(s)
         \/ Rotate \/ ServerRestart \/ \E n \in Notes : OtherNote(n)
BY Steps DEF vars, server, Launch, Crash, Tick, Submit, HomeAck, CalendarAck, StartSync,
  Receive, ReceiveFails, Lose, StartPull, PullNote, FinishSync, FailPull, Finish

LEMMA ChainGrows ==
  ASSUME TypeOK, [Next]_vars, ~ ServerRestart
  PROVE  /\ chain' \in Seq(Notes \cup {Rotation})
         /\ Len(chain) <= Len(chain')
         /\ \A n : OnChain(n) => OnChain(n)'
<1>1. \/ chain' = chain
      \/ \E x \in Notes \cup {Rotation} : chain' = Append(chain, x)
  <2>1. CASE chain' = chain
    BY <2>1
  <2>2. CASE \E s \in Syncs : Send(s) \/ SendBroken(s)
    BY <2>2 DEF Send, SendBroken
  <2>3. CASE Rotate
    BY <2>3 DEF Rotate
  <2>4. CASE \E n \in Notes : OtherNote(n)
    BY <2>4 DEF OtherNote
  <2> QED BY <2>1, <2>2, <2>3, <2>4, ChainSteps
<1>2. chain \in Seq(Notes \cup {Rotation})
  BY DEF TypeOK
<1>3. CASE chain' = chain
  BY <1>2, <1>3 DEF OnChain
<1>4. ASSUME NEW x \in Notes \cup {Rotation}, chain' = Append(chain, x)
      PROVE  /\ chain' \in Seq(Notes \cup {Rotation})
             /\ Len(chain) <= Len(chain')
             /\ \A n : OnChain(n) => OnChain(n)'
  <2>1. /\ chain' \in Seq(Notes \cup {Rotation}) /\ Len(chain') = Len(chain) + 1
        /\ Len(chain) \in Nat
        /\ \A i \in 1..Len(chain) : chain'[i] = chain[i]
    BY <1>2, <1>4
  <2>2. \A n : OnChain(n) => OnChain(n)'
    BY <2>1 DEF OnChain
  <2> QED BY <2>1, <2>2
<1> QED BY <1>1, <1>3, <1>4

\* What a server loses when it starts again are blocks whose write failed; the
\* Syncs read what is left.
LEMMA RestartEffect ==
  ASSUME TypeOK, ServerRestart
  PROVE  /\ chain' \in Seq(Notes \cup {Rotation})
         /\ \A n : OnChain(n) => OnChain(n)' \/ n \in broken
         /\ \A n : OnChain(n)' => OnChain(n)
         /\ broken' = broken /\ standing' = standing
         /\ \A s \in Syncs : tip[s] \in Nat => tip'[s] \in Nat /\ tip'[s] <= Len(chain')
<1>1. PICK k \in 0..Len(chain) :
        /\ \A i \in 1..Len(chain) : chain[i] \in volatile <=> i > k
        /\ chain' = SubSeq(chain, 1, k)
        /\ tip' = [s \in Syncs |-> IF tip[s] > k THEN k ELSE tip[s]]
  BY DEF ServerRestart
<1>2. chain \in Seq(Notes \cup {Rotation}) /\ Len(chain) \in Nat /\ volatile \subseteq broken
  BY DEF TypeOK
<1>3. /\ chain' \in Seq(Notes \cup {Rotation}) /\ Len(chain') = k
      /\ \A i \in 1..k : chain'[i] = chain[i]
  BY <1>1, <1>2
<1>4. \A n : OnChain(n) => OnChain(n)' \/ n \in broken
  <2> SUFFICES ASSUME NEW n, OnChain(n), n \notin broken PROVE OnChain(n)'
    OBVIOUS
  <2>1. PICK i \in 1..Len(chain) : chain[i] = n
    BY DEF OnChain
  <2>2. ~ (i > k)
    BY <1>1, <1>2, <2>1
  <2> QED BY <1>1, <1>2, <1>3, <2>1, <2>2 DEF OnChain
<1>5. \A n : OnChain(n)' => OnChain(n)
  BY <1>1, <1>2, <1>3 DEF OnChain
<1>6. \A s \in Syncs : tip[s] \in Nat => tip'[s] \in Nat /\ tip'[s] <= Len(chain')
  BY <1>1, <1>2, <1>3
<1> QED BY <1>3, <1>4, <1>5, <1>6 DEF ServerRestart

\* A write that failed stays one.
LEMMA BrokenSteps ==
  ASSUME [Next]_vars
  PROVE  broken' = broken \/ \E s \in Syncs : SendBroken(s)
BY Steps DEF vars, server, Launch, Crash, Tick, Rotate, ServerRestart, Submit, HomeAck,
  CalendarAck, OtherNote, StartSync, Receive, ReceiveFails, Lose, Send, StartPull, PullNote,
  FinishSync, FailPull, Finish

\* What was on the chain once was on it ever after.
LEMMA WasStays ==
  ASSUME TypeOK, [Next]_vars
  PROVE  /\ chain' \in Seq(Notes \cup {Rotation})
         /\ broken \subseteq broken'
         /\ \A n : WasOnChain(n) => WasOnChain(n)'
<1>1. broken \subseteq broken'
  BY BrokenSteps DEF SendBroken
<1>2. CASE ServerRestart
  BY <1>1, <1>2, RestartEffect DEF WasOnChain
<1>3. CASE ~ ServerRestart
  BY <1>1, <1>3, ChainGrows DEF WasOnChain
<1> QED BY <1>1, <1>2, <1>3

\* The block that a Send adds is the note it sends, and then on the chain.
LEMMA AcceptedOnChain ==
  ASSUME TypeOK, NEW n \in Notes, chain' = Append(chain, n)
  PROVE  OnChain(n)' /\ \A m : OnChain(m)' => OnChain(m) \/ m = n
<1>1. /\ Len(chain') = Len(chain) + 1 /\ Len(chain) \in Nat
      /\ \A i \in 1..Len(chain) : chain'[i] = chain[i]
      /\ chain'[Len(chain) + 1] = n
  BY DEF TypeOK
<1> QED BY <1>1 DEF OnChain

-----------------------------------------------------------------------------
(***************************************************************************)
(* The inductive invariant: the properties, and what connects the Syncs to *)
(* the database and to the chain.                                          *)
(***************************************************************************)

\* A Sync reads blocks that were there when it asked for the tip.
TipsOnChain == \A s \in Syncs : tip[s] <= Len(chain)

\* An answer belongs to an item that is still to be sent.
Asked == \A s \in Syncs : answer[s] # "" => pc[s] = "submit" /\ todo[s] # {}

\* An answer that waits to be read was true when it was given and still is.
AnswersTrue ==
  \A s \in Syncs : \A n \in Notes : First(n, todo[s]) =>
    /\ answer[s] = "OK" => WasOnChain(n)
    /\ answer[s] \in {"UNAUTHORIZED_KEY", "INVALID_TRANSACTION"} => standing # "current"
    /\ answer[s] = "INTERNAL_ERROR" => n \in broken

\* A note of this device has an item from its first moment on, before and after
\* it is on the chain; any other note in the database came from the chain.
ItemsOfNotes ==
  \A n \in Notes :
    /\ n \in rows => WasOnChain(n) \/ (n \in Own /\ outbox[n] # "none")
    /\ n \in Own /\ WasOnChain(n) => outbox[n] # "none"
    /\ outbox[n] = "synced" => WasOnChain(n)

\* A reminder belongs to a note of the database.
NoRowNoReminder == \A n \in Notes \ rows : reminders[n] = NoReminder

Inductive ==
  /\ TypeOK /\ TipsOnChain /\ Asked /\ AnswersTrue /\ ItemsOfNotes /\ NoRowNoReminder
  /\ FailedOnlyIfRefused /\ PendingNeverHidden /\ CacheCoherent /\ AcknowledgedOrReset

\* Faults are counted.
LEMMA FaultsCounted ==
  ASSUME TypeOK, NEW s,
         Crash \/ SendBroken(s) \/ Lose(s) \/ ReceiveFails(s)
  PROVE  faults' \in Nat
<1>1. faults' = faults + 1
  BY DEF Crash, SendBroken, Lose, ReceiveFails
<1> QED BY <1>1 DEF TypeOK

\* The count of the items and the faults after it.
LEMMA CountRead ==
  ASSUME NEW items, IsFiniteSet(items), NEW spent \in Nat, RefreshPending(items, spent)
  PROVE  pending' \in Nat /\ misread' \in BOOLEAN /\ faults' \in Nat
<1>1. Cardinality(items) \in Nat
  BY FS_CardinalityType
<1>2. pending' \in {Cardinality(items), 0} /\ faults' \in {spent, spent + 1}
  BY DEF RefreshPending
<1>3. misread' \in BOOLEAN
  BY Zenon DEF RefreshPending
<1> QED BY <1>1, <1>2, <1>3

\* TypeOK is preserved. A block that a Sync reads is a note unless it is a
\* rotation, after which nothing opens.
LEMMA TypeStep ==
  ASSUME TypeOK, TipsOnChain, [Next]_vars
  PROVE  TypeOK'
<1>d. answer \in [Syncs -> Codes]
  BY DEF TypeOK
<1>1. chain' \in Seq(Notes \cup {Rotation})
  BY WasStays
<1>2. \A S : S \subseteq Own => IsFiniteSet(S)
  <2> SUFFICES ASSUME NEW S \in SUBSET Own PROVE IsFiniteSet(S)
    OBVIOUS
  <2>1. IsFiniteSet(Notes) /\ S \in SUBSET Notes
    BY DeviceAssumption DEF DeviceAssumption, TypeOK
  <2> QED BY <2>1, FS_Subset
<1>3. \A n \in Notes : NewSchedule(n) \in Reminder /\ InsertReminder(n) \in Reminder
  BY NoteFields, InsertReminderResult DEF TypeOK
<1>4. \A n \in Notes, r \in Reminder : Acknowledge(n, r, now) \in Reminder
  BY AcknowledgeResult DEF TypeOK
<1>5. NoReminder \in Reminder
  BY DEF NoReminder, Reminder, NoTime
<1>6. Pending \subseteq Own /\ \A n \in Own : Pending \cup {n} \subseteq Own
  BY DEF Pending
<1>7. \A n \in Pending : outbox[n] # "none"
  BY DEF Pending
<1>a. "" \in Codes
  BY DEF Codes
<1>b. "LOST" \in Codes
  BY DEF Codes
<1>c. "INTERNAL_ERROR" \in Codes
  BY DEF Codes
<1>8. CASE UNCHANGED vars
  BY <1>8 DEF vars, database, memory, syncs, server, TypeOK
<1>9. CASE Launch
  <2>1. pending' \in Nat /\ misread' \in BOOLEAN /\ faults' \in Nat
    BY <1>9, <1>2, <1>6, CountRead DEF Launch, TypeOK
  <2> QED BY <1>9, <2>1 DEF Launch, database, syncs, server, TypeOK
<1>10. CASE Crash
  <2>1. faults' \in Nat
    BY <1>10, FaultsCounted
  <2>2. /\ up' \in BOOLEAN /\ shown' \subseteq rows /\ pending' \in Nat /\ misread' \in BOOLEAN
        /\ cached' \in [Notes -> Reminder] /\ pc' \in [Syncs -> {"idle", "submit", "pull"}]
        /\ todo' \in [Syncs -> SUBSET {n \in Own : outbox[n] # "none"}]
    BY <1>10, <1>5 DEF Crash, TypeOK
  <2>3. answer' \in [Syncs -> Codes]
    BY <1>10, <1>a DEF Crash
  <2>4. next' \in [Syncs -> Nat \ {0}] /\ tip' \in [Syncs -> Nat]
    <3>1. next' = [r \in Syncs |-> 1] /\ tip' = [r \in Syncs |-> 0]
      BY <1>10 DEF Crash
    <3> QED BY <3>1
  <2> QED BY <1>10, <2>1, <2>2, <2>3, <2>4 DEF Crash, database, server, TypeOK
<1>11. CASE Tick \/ Rotate \/ \E n \in Notes : OtherNote(n)
  BY <1>11, <1>1 DEF Tick, Rotate, OtherNote, database, memory, syncs, server, Standings, TypeOK
<1>12. ASSUME NEW n \in Notes, Submit(n) PROVE TypeOK'
  <2>1. pending' \in Nat /\ misread' \in BOOLEAN /\ faults' \in Nat
    <3>1. IsFiniteSet(Pending \cup {n}) /\ RefreshPending(Pending \cup {n}, faults)
      BY <1>12, <1>2, <1>6 DEF Submit
    <3> QED BY <3>1, CountRead DEF TypeOK
  <2>2. outbox' = [outbox EXCEPT ![n] = "pending"] /\ outbox' \in [Notes -> Statuses]
    BY <1>12 DEF Submit, Statuses, TypeOK
  <2>3. \A m \in Own : outbox[m] # "none" => outbox'[m] # "none"
    BY <2>2, DeviceAssumption DEF DeviceAssumption, TypeOK
  <2>4. todo' \in [Syncs -> SUBSET {m \in Own : outbox'[m] # "none"}]
    BY <1>12, <2>3 DEF Submit, syncs, TypeOK
  <2> QED BY <1>12, <1>3, <2>1, <2>2, <2>4 DEF Submit, syncs, server, TypeOK
<1>13. ASSUME NEW n \in Notes, HomeAck(n) PROVE TypeOK'
  BY <1>13, <1>4 DEF HomeAck, syncs, server, TypeOK
<1>14. ASSUME NEW n \in Notes, CalendarAck(n) PROVE TypeOK'
  BY <1>14, <1>4, <1>5 DEF CalendarAck, syncs, server, TypeOK
<1>15. ASSUME NEW s \in Syncs, StartSync(s) PROVE TypeOK'
  <2>1. Pending \subseteq {n \in Own : outbox[n] # "none"}
    BY <1>6, <1>7
  <2> QED BY <1>15, <2>1 DEF StartSync, database, memory, server, TypeOK
<1>16. ASSUME NEW s \in Syncs, Send(s) \/ SendBroken(s) \/ Lose(s) PROVE TypeOK'
  <2>1. \A n : Verdict(n) \in Codes
    BY VerdictResult DEF Codes, TypeOK
  <2>2. CASE Send(s)
    <3>1. answer' \in [Syncs -> Codes]
      BY <1>d, <2>1, <2>2 DEF Send
    <3> QED BY <1>1, <2>2, <3>1 DEF Send, database, memory, TypeOK
  <2>3. CASE SendBroken(s)
    <3>1. answer' \in [Syncs -> Codes]
      BY <1>c, <1>d, <2>3 DEF SendBroken
    <3>2. faults' \in Nat
      BY <2>3, FaultsCounted
    <3>3. volatile' \subseteq broken' /\ broken' \subseteq Notes
      BY <2>3 DEF SendBroken, TypeOK
    <3> QED BY <1>1, <2>3, <3>1, <3>2, <3>3 DEF SendBroken, database, memory, TypeOK
  <2>4. CASE Lose(s)
    BY <1>b, <2>4 DEF Lose, database, memory, server, TypeOK
  <2> QED BY <1>16, <2>2, <2>3, <2>4
<1>17. ASSUME NEW s \in Syncs, Receive(s) PROVE TypeOK'
  <2>1. PICK n \in Notes : /\ First(n, todo[s])
                           /\ outbox' = [outbox EXCEPT ![n] = Mark(answer[s], outbox[n])]
                           /\ todo' = [todo EXCEPT ![s] = @ \ {n}]
    BY <1>17 DEF Receive, TypeOK
  <2>2. outbox' \in [Notes -> Statuses] /\ \A m \in Notes : outbox[m] # "none" => outbox'[m] # "none"
    BY <2>1, MarkResult DEF TypeOK
  <2>3. \A r \in Syncs : todo'[r] \subseteq todo[r]
    BY <2>1
  <2>4. todo' \in [Syncs -> SUBSET {m \in Own : outbox'[m] # "none"}]
    <3>1. \A r \in Syncs : \A m \in todo'[r] : m \in Own /\ m \in Notes /\ outbox[m] # "none"
      BY <2>3, DeviceAssumption DEF DeviceAssumption, TypeOK
    <3>2. todo' = [r \in Syncs |-> todo'[r]]
      BY <2>1 DEF TypeOK
    <3> QED BY <3>1, <3>2, <2>2 DEF TypeOK
  <2>5. answer' \in [Syncs -> Codes]
    BY <1>a, <1>d, <1>17 DEF Receive
  <2> QED BY <1>17, <2>2, <2>4, <2>5 DEF Receive, memory, server, TypeOK
<1>18. ASSUME NEW s \in Syncs, ReceiveFails(s) PROVE TypeOK'
  <2>1. answer' \in [Syncs -> Codes]
    BY <1>a, <1>d, <1>18 DEF ReceiveFails
  <2>2. faults' \in Nat
    BY <1>18, FaultsCounted
  <2>3. todo' \in [Syncs -> SUBSET {n \in Own : outbox[n] # "none"}]
    BY <1>18 DEF ReceiveFails, TypeOK
  <2> QED BY <1>18, <2>1, <2>2, <2>3 DEF ReceiveFails, database, memory, server, TypeOK
<1>19. ASSUME NEW s \in Syncs, StartPull(s) PROVE TypeOK'
  BY <1>19 DEF StartPull, database, memory, server, TypeOK
<1>20. ASSUME NEW s \in Syncs, PullNote(s) PROVE TypeOK'
  <2>1. next[s] \in 1..Len(chain) /\ next' \in [Syncs -> Nat \ {0}]
    BY <1>20 DEF PullNote, TipsOnChain, TypeOK
  <2>2. rows \subseteq rows' /\ rows' \subseteq Notes /\ reminders' \in [Notes -> Reminder]
    <3>1. CASE ReadableAt(next[s])
      <4>1. chain[next[s]] # Rotation /\ chain[next[s]] \in Notes \cup {Rotation}
        BY <3>1, <2>1 DEF ReadableAt, TypeOK
      <4> QED BY <1>20, <3>1, <4>1, <1>3 DEF PullNote, TypeOK
    <3>2. CASE ~ ReadableAt(next[s])
      BY <1>20, <3>2 DEF PullNote, TypeOK
    <3> QED BY <3>1, <3>2 DEF TypeOK
  <2> QED BY <1>20, <2>1, <2>2 DEF PullNote, memory, server, TypeOK
<1>21. ASSUME NEW s \in Syncs, FinishSync(s) \/ FailPull(s) PROVE TypeOK'
  <2>1. PICK spent \in Nat : Finish(s, spent)
    <3>1. faults \in Nat /\ faults + 1 \in Nat
      BY DEF TypeOK
    <3> QED BY <1>21, <3>1 DEF FinishSync, FailPull
  <2>2. /\ pending' \in Nat /\ misread' \in BOOLEAN /\ faults' \in Nat
        /\ pc' \in [Syncs -> {"idle", "submit", "pull"}]
    <3>1. pending' \in Nat /\ misread' \in BOOLEAN /\ faults' \in Nat
      BY <2>1, <1>2, <1>6, CountRead DEF Finish
    <3> QED BY <2>1, <3>1 DEF Finish, TypeOK
  <2>3. next' \in [Syncs -> Nat \ {0}] /\ tip' \in [Syncs -> Nat]
    BY <2>1 DEF Finish, TypeOK
  <2> QED BY <2>1, <2>2, <2>3 DEF Finish, database, server, TypeOK
<1>22. CASE ServerRestart
  <2>1. tip' \in [Syncs -> Nat]
    <3>1. \A s \in Syncs : tip'[s] \in Nat
      BY <1>22, RestartEffect DEF TypeOK
    <3>2. tip' = [s \in Syncs |-> tip'[s]]
      BY <1>22 DEF ServerRestart
    <3> QED BY <3>1, <3>2
  <2> QED BY <1>1, <1>22, <2>1 DEF ServerRestart, database, memory, TypeOK
<1> QED
  BY <1>8, <1>9, <1>10, <1>11, <1>12, <1>13, <1>14, <1>15, <1>16, <1>17, <1>18, <1>19,
     <1>20, <1>21, <1>22, Steps

\* A Sync takes the tip from the chain, which grows, or takes what a server that
\* starts again has left.
LEMMA TipsStep ==
  ASSUME TypeOK, TipsOnChain, [Next]_vars
  PROVE  TipsOnChain'
<1> SUFFICES ASSUME ~ ServerRestart PROVE TipsOnChain'
  <2>1. CASE ServerRestart
    BY <2>1, RestartEffect DEF TipsOnChain, TypeOK
  <2> QED BY <2>1
<1>1. /\ Len(chain) \in Nat /\ Len(chain') \in Nat /\ Len(chain) <= Len(chain')
      /\ \A s \in Syncs : tip[s] \in Nat /\ tip[s] <= Len(chain)
  BY ChainGrows DEF TypeOK, TipsOnChain
<1>2. \A s \in Syncs : tip'[s] \in {tip[s], 0, Len(chain)}
  <2>1. \/ tip' = tip \/ tip' = [s \in Syncs |-> 0]
        \/ \E s \in Syncs : tip' = [tip EXCEPT ![s] = 0] \/ tip' = [tip EXCEPT ![s] = Len(chain)]
    BY Steps DEF vars, syncs, Launch, Crash, Tick, Rotate, Submit, HomeAck, CalendarAck,
      OtherNote, StartSync, Receive, ReceiveFails, Lose, Send, SendBroken, StartPull, PullNote,
      FinishSync, FailPull, Finish
  <2> QED BY <2>1 DEF TypeOK
<1> QED BY <1>1, <1>2 DEF TipsOnChain

\* An answer comes with an item to send and goes with it.
LEMMA AskedStep ==
  ASSUME TypeOK, Asked, [Next]_vars
  PROVE  Asked'
<1>1. CASE todo' = todo /\ answer' = answer /\ pc' = pc
  BY <1>1 DEF Asked
<1>2. CASE Crash
  BY <1>2 DEF Crash, Asked
<1>3. ASSUME NEW s \in Syncs, StartSync(s) PROVE Asked'
  BY <1>3 DEF StartSync, Asked, TypeOK
<1>4. ASSUME NEW s \in Syncs, Receive(s) PROVE Asked'
  BY <1>4 DEF Receive, Asked, TypeOK
<1>5. ASSUME NEW s \in Syncs, ReceiveFails(s) PROVE Asked'
  BY <1>5 DEF ReceiveFails, Asked, TypeOK
<1>6. ASSUME NEW s \in Syncs, Lose(s) PROVE Asked'
  BY <1>6 DEF Lose, Asked, TypeOK
<1>7. ASSUME NEW s \in Syncs, Send(s) PROVE Asked'
  BY <1>7 DEF Send, Asked, TypeOK, First
<1>8. ASSUME NEW s \in Syncs, SendBroken(s) PROVE Asked'
  BY <1>8 DEF SendBroken, Asked, TypeOK, First
<1>9. ASSUME NEW s \in Syncs, StartPull(s) PROVE Asked'
  BY <1>9 DEF StartPull, Asked, TypeOK
<1>10. ASSUME NEW s \in Syncs, FinishSync(s) \/ FailPull(s) PROVE Asked'
  BY <1>10 DEF FinishSync, FailPull, Finish, Asked, TypeOK
<1> QED
  BY <1>1, <1>2, <1>3, <1>4, <1>5, <1>6, <1>7, <1>8, <1>9, <1>10, QueueSteps

\* What made an answer true stays so, and a device that is no longer current never
\* is again.
LEMMA ServerMonotone ==
  ASSUME TypeOK, [Next]_vars
  PROVE  /\ \A n : WasOnChain(n) => WasOnChain(n)'
         /\ broken \subseteq broken'
         /\ standing # "current" => standing' # "current"
<1>1. standing' = standing \/ Rotate
  BY Steps DEF vars, server, Launch, Crash, Tick, ServerRestart, Submit, HomeAck, CalendarAck,
    OtherNote, StartSync, Receive, ReceiveFails, Lose, Send, SendBroken, StartPull, PullNote,
    FinishSync, FailPull, Finish
<1> QED BY <1>1, WasStays DEF Rotate

\* The items of a Sync have one first.
LEMMA FirstUnique ==
  ASSUME NEW S \in SUBSET Notes, NEW n \in Notes, NEW m \in Notes, First(n, S), First(m, S)
  PROVE  n = m
<1> SUFFICES ASSUME n # m PROVE FALSE
  OBVIOUS
<1>1. Newer(m, n) /\ Newer(n, m)
  BY DEF First
<1>2. n \in Nat /\ m \in Nat /\ Created[n] \in Nat /\ Created[m] \in Nat
  BY NoteFields
<1> QED BY <1>1, <1>2 DEF Newer

\* The answer a Sync reads is about the item it sent, and still true.
LEMMA AnswersStep ==
  ASSUME TypeOK, Asked, AnswersTrue, [Next]_vars
  PROVE  AnswersTrue'
<1> SUFFICES ASSUME NEW s \in Syncs, NEW n \in Notes, First(n, todo'[s])
             PROVE  /\ answer'[s] = "OK" => WasOnChain(n)'
                    /\ answer'[s] \in {"UNAUTHORIZED_KEY", "INVALID_TRANSACTION"}
                         => standing' # "current"
                    /\ answer'[s] = "INTERNAL_ERROR" => n \in broken'
  BY DEF AnswersTrue, First
<1>1. CASE todo'[s] = todo[s] /\ answer'[s] = answer[s]
  BY <1>1, ServerMonotone DEF AnswersTrue
<1>2. CASE answer'[s] \in {"", "LOST"}
  BY <1>2
<1>3. CASE Send(s)
  <2>1. PICK m \in Notes : /\ First(m, todo[s]) /\ answer' = [answer EXCEPT ![s] = Verdict(m)]
                           /\ chain' = IF Accepted(m) THEN Append(chain, m) ELSE chain
    BY <1>3 DEF Send
  <2>2. todo' = todo /\ standing' = standing /\ todo[s] \in SUBSET Notes
    BY <1>3, DeviceAssumption DEF Send, TypeOK, DeviceAssumption
  <2>3. n = m
    BY <2>1, <2>2, FirstUnique
  <2>4. answer'[s] = Verdict(n)
    BY <2>1, <2>3 DEF TypeOK
  <2>5. /\ Verdict(n) \in {"OK", "STALE_POW_EPOCH", "UNAUTHORIZED_KEY", "INVALID_TRANSACTION"}
        /\ Verdict(n) = "OK" => OnChain(n) \/ Accepted(n)
        /\ Verdict(n) \in {"UNAUTHORIZED_KEY", "INVALID_TRANSACTION"} => standing # "current"
    BY VerdictResult DEF TypeOK
  <2>6. Verdict(n) = "OK" => WasOnChain(n)'
    BY <2>1, <2>3, <2>5, AcceptedOnChain, WasStays DEF WasOnChain
  <2> QED BY <2>2, <2>4, <2>5, <2>6
<1>4. CASE SendBroken(s)
  <2>1. PICK m \in Notes : /\ First(m, todo[s]) /\ broken' = broken \cup {m}
                           /\ answer' = [answer EXCEPT ![s] = "INTERNAL_ERROR"]
    BY <1>4 DEF SendBroken
  <2>2. todo' = todo /\ todo[s] \in SUBSET Notes
    BY <1>4, DeviceAssumption DEF SendBroken, TypeOK, DeviceAssumption
  <2>3. n = m
    BY <2>1, <2>2, FirstUnique
  <2>4. answer'[s] = "INTERNAL_ERROR"
    BY <2>1 DEF TypeOK
  <2> QED BY <2>1, <2>3, <2>4
<1>5. CASE Crash
  <2>1. todo'[s] = {}
    BY <1>5 DEF Crash
  <2> QED BY <2>1 DEF First
<1>6. CASE StartSync(s)
  <2>1. answer[s] = ""
    BY <1>6 DEF StartSync, Asked, TypeOK
  <2> QED BY <2>1, <1>2, <1>6 DEF StartSync
<1>7. CASE Receive(s) \/ ReceiveFails(s) \/ Lose(s)
  <2>1. answer' = [answer EXCEPT ![s] = ""] \/ answer' = [answer EXCEPT ![s] = "LOST"]
    BY <1>7 DEF Receive, ReceiveFails, Lose
  <2> QED BY <2>1, <1>2 DEF TypeOK
<1>8. ASSUME NEW r \in Syncs, r # s,
             \/ StartSync(r) \/ Receive(r) \/ ReceiveFails(r) \/ Lose(r) \/ Send(r)
             \/ SendBroken(r)
      PROVE  todo'[s] = todo[s] /\ answer'[s] = answer[s]
  <2>1. CASE StartSync(r)
    BY <1>8, <2>1 DEF StartSync, TypeOK
  <2>2. CASE Receive(r)
    BY <1>8, <2>2 DEF Receive, TypeOK
  <2>3. CASE ReceiveFails(r) \/ Lose(r)
    BY <1>8, <2>3 DEF ReceiveFails, Lose, TypeOK
  <2>4. CASE Send(r) \/ SendBroken(r)
    BY <1>8, <2>4 DEF Send, SendBroken, TypeOK
  <2> QED BY <1>8, <2>1, <2>2, <2>3, <2>4
<1>9. ASSUME NEW r \in Syncs, StartPull(r) \/ FinishSync(r) \/ FailPull(r)
      PROVE  todo'[s] = todo[s] /\ answer'[s] = answer[s]
  BY <1>9 DEF StartPull, FinishSync, FailPull, Finish
<1> QED
  BY <1>1, <1>3, <1>4, <1>5, <1>6, <1>7, <1>8, <1>9, QueueSteps

\* Notes, their items and the chain.
LEMMA ItemsStep ==
  ASSUME TypeOK, TipsOnChain, Asked, AnswersTrue, ItemsOfNotes, [Next]_vars
  PROVE  ItemsOfNotes'
<1>1. /\ \A n : WasOnChain(n) => WasOnChain(n)'
      /\ \A n \in Own : n \in Notes
  BY WasStays, DeviceAssumption DEF DeviceAssumption
<1>a. \A n \in Own : OnChain(n)' => OnChain(n) \/ outbox[n] # "none"
  <2>1. CASE chain' = chain
    BY <2>1 DEF OnChain
  <2>2. ASSUME NEW s \in Syncs, Send(s) \/ SendBroken(s)
        PROVE  \A n \in Own : OnChain(n)' => OnChain(n) \/ outbox[n] # "none"
    <3>1. PICK m \in Notes : First(m, todo[s]) /\ (chain' = chain \/ chain' = Append(chain, m))
      BY <2>2 DEF Send, SendBroken
    <3>2. outbox[m] # "none"
      BY <3>1 DEF First, TypeOK
    <3> QED BY <2>1, <3>1, <3>2, AcceptedOnChain
  <2>3. CASE Rotate
    <3>1. chain' = Append(chain, Rotation)
      BY <2>3 DEF Rotate
    <3>2. /\ Len(chain') = Len(chain) + 1 /\ Len(chain) \in Nat
          /\ \A i \in 1..Len(chain) : chain'[i] = chain[i]
          /\ chain'[Len(chain) + 1] = Rotation
      BY <3>1 DEF TypeOK
    <3> QED BY <1>1, <3>2, NoteFields DEF OnChain
  <2>4. ASSUME NEW m \in Notes, OtherNote(m)
        PROVE  \A n \in Own : OnChain(n)' => OnChain(n) \/ outbox[n] # "none"
    <3>1. chain' = Append(chain, m) /\ m \notin Own
      BY <2>4 DEF OtherNote
    <3> QED BY <3>1, AcceptedOnChain
  <2>5. CASE ServerRestart
    BY <2>5, RestartEffect
  <2> QED BY <2>1, <2>2, <2>3, <2>4, <2>5, ChainSteps
<1>b. \A n \in Own : n \in broken' => n \in broken \/ outbox[n] # "none"
  <2>1. ASSUME NEW s \in Syncs, SendBroken(s)
        PROVE  \A n \in Own : n \in broken' => n \in broken \/ outbox[n] # "none"
    <3>1. PICK m \in Notes : First(m, todo[s]) /\ broken' = broken \cup {m}
      BY <2>1 DEF SendBroken
    <3>2. outbox[m] # "none"
      BY <3>1 DEF First, TypeOK
    <3> QED BY <3>1, <3>2
  <2> QED BY <2>1, BrokenSteps
<1>2. \A n \in Own : WasOnChain(n)' => WasOnChain(n) \/ outbox[n] # "none"
  BY <1>a, <1>b DEF WasOnChain
<1>3. CASE rows' = rows /\ outbox' = outbox
  BY <1>1, <1>2, <1>3 DEF ItemsOfNotes
<1>4. ASSUME NEW m \in Notes, Submit(m) PROVE ItemsOfNotes'
  <2>1. /\ m \in Own /\ rows' = rows \cup {m} /\ outbox' \in [Notes -> Statuses]
        /\ outbox'[m] = "pending" /\ \A n \in Notes \ {m} : outbox'[n] = outbox[n]
    BY <1>4 DEF Submit, TypeOK, Statuses
  <2> QED BY <1>1, <1>2, <2>1 DEF ItemsOfNotes
<1>5. ASSUME NEW s \in Syncs, Receive(s) PROVE ItemsOfNotes'
  <2>1. PICK m \in Notes : /\ First(m, todo[s]) /\ answer[s] # ""
                           /\ outbox' = [outbox EXCEPT ![m] = Mark(answer[s], outbox[m])]
    BY <1>5 DEF Receive
  <2>2. /\ outbox'[m] = Mark(answer[s], outbox[m])
        /\ \A n \in Notes \ {m} : outbox'[n] = outbox[n]
        /\ rows' = rows
    BY <1>5, <2>1 DEF TypeOK, Receive
  <2>3. /\ outbox[m] # "none" => outbox'[m] # "none"
        /\ outbox'[m] = "synced" => outbox[m] = "synced" \/ answer[s] = "OK"
    BY <2>2, MarkResult DEF TypeOK
  <2>4. answer[s] = "OK" => WasOnChain(m)
    BY <2>1 DEF AnswersTrue
  <2> QED BY <1>1, <1>2, <2>2, <2>3, <2>4 DEF ItemsOfNotes
<1>6. ASSUME NEW s \in Syncs, PullNote(s) PROVE ItemsOfNotes'
  <2>1. OnChain(chain[next[s]]) /\ outbox' = outbox /\ rows' \subseteq rows \cup {chain[next[s]]}
    <3>1. next[s] \in 1..Len(chain)
      BY <1>6 DEF PullNote, TipsOnChain, TypeOK
    <3>2. outbox' = outbox /\ rows' \subseteq rows \cup {chain[next[s]]}
      BY <1>6 DEF PullNote
    <3> QED BY <3>1, <3>2 DEF OnChain
  <2>2. WasOnChain(chain[next[s]])
    BY <2>1 DEF WasOnChain
  <2> QED BY <1>1, <1>2, <2>1, <2>2 DEF ItemsOfNotes
<1> QED BY <1>3, <1>4, <1>5, <1>6, ItemSteps

\* What the actions on reminders do to the one they are about. A block that opens
\* is a note.
LEMMA ReminderEffects ==
  ASSUME TypeOK, TipsOnChain, [Next]_vars
  PROVE  \/ reminders' = reminders
         \/ \E n \in Notes :
              \/ Submit(n) /\ reminders' = [reminders EXCEPT ![n] = InsertReminder(n)]
              \/ /\ HomeAck(n) /\ n \in shown
                 /\ reminders' = [reminders EXCEPT ![n] = Acknowledge(n, cached[n], now)]
              \/ /\ CalendarAck(n) /\ n \in rows
                 /\ reminders' = [reminders EXCEPT ![n] = Acknowledge(n, reminders[n], now)]
              \/ /\ \E s \in Syncs : PullNote(s)
                 /\ OnChain(n) /\ n \in rows'
                 /\ reminders' = [reminders EXCEPT ![n] = InsertReminder(n)]
<1>1. ASSUME NEW s \in Syncs, PullNote(s), reminders' # reminders
      PROVE  \E n \in Notes : /\ OnChain(n) /\ n \in rows'
                              /\ reminders' = [reminders EXCEPT ![n] = InsertReminder(n)]
  <2>1. next[s] \in 1..Len(chain)
    BY <1>1 DEF PullNote, TypeOK, TipsOnChain
  <2>2. ReadableAt(next[s])
    BY <1>1 DEF PullNote
  <2>3. chain[next[s]] # Rotation
    BY <2>1, <2>2 DEF ReadableAt
  <2>4. chain[next[s]] \in Notes /\ OnChain(chain[next[s]])
    BY <2>1, <2>3 DEF TypeOK, OnChain
  <2> QED BY <1>1, <2>2, <2>4 DEF PullNote
<1>2. \A n \in Notes : Submit(n) => reminders' = [reminders EXCEPT ![n] = InsertReminder(n)]
  BY DEF Submit
<1>3. \A n \in Notes : HomeAck(n) =>
        n \in shown /\ reminders' = [reminders EXCEPT ![n] = Acknowledge(n, cached[n], now)]
  BY DEF HomeAck
<1>4. \A n \in Notes : CalendarAck(n) =>
        n \in rows /\ reminders' = [reminders EXCEPT ![n] = Acknowledge(n, reminders[n], now)]
  BY DEF CalendarAck, DueFirst
<1> QED BY <1>1, <1>2, <1>3, <1>4, ReminderSteps

\* No note leaves the database.
LEMMA RowsGrow ==
  ASSUME [Next]_vars
  PROVE  rows \subseteq rows'
BY ItemSteps DEF Submit, Receive, PullNote

LEMMA NoRowStep ==
  ASSUME TypeOK, TipsOnChain, NoRowNoReminder, [Next]_vars
  PROVE  NoRowNoReminder'
<1> SUFFICES ASSUME NEW m \in Notes \ rows' PROVE reminders'[m] = NoReminder
  BY DEF NoRowNoReminder
<1>1. m \in Notes \ rows /\ reminders[m] = NoReminder
  BY RowsGrow DEF NoRowNoReminder
<1>2. \A n \in Notes : Submit(n) => n \in rows'
  BY DEF Submit
<1>3. \/ reminders' = reminders
      \/ \E n \in Notes : \E r : n \in rows' /\ reminders' = [reminders EXCEPT ![n] = r]
  BY <1>2, ReminderEffects, RowsGrow DEF TypeOK
<1> QED BY <1>1, <1>3 DEF TypeOK

\* An item fails by an answer that was true.
LEMMA FailedStep ==
  ASSUME TypeOK, AnswersTrue, FailedOnlyIfRefused, [Next]_vars
  PROVE  FailedOnlyIfRefused'
<1>1. broken \subseteq broken' /\ (standing # "current" => standing' # "current")
  BY ServerMonotone
<1>2. \A n \in Own : n \in Notes
  BY DeviceAssumption DEF DeviceAssumption
<1>3. CASE outbox' = outbox
  BY <1>1, <1>3 DEF FailedOnlyIfRefused
<1>4. ASSUME NEW m \in Notes, Submit(m) PROVE FailedOnlyIfRefused'
  <2>1. outbox'[m] = "pending" /\ \A n \in Notes \ {m} : outbox'[n] = outbox[n]
    BY <1>4 DEF Submit, TypeOK
  <2> QED BY <1>1, <1>2, <2>1 DEF FailedOnlyIfRefused
<1>5. ASSUME NEW s \in Syncs, Receive(s) PROVE FailedOnlyIfRefused'
  <2>1. PICK m \in Notes : /\ First(m, todo[s]) /\ answer[s] # ""
                           /\ outbox' = [outbox EXCEPT ![m] = Mark(answer[s], outbox[m])]
    BY <1>5 DEF Receive
  <2>2. /\ outbox'[m] = Mark(answer[s], outbox[m])
        /\ \A n \in Notes \ {m} : outbox'[n] = outbox[n]
    BY <2>1 DEF TypeOK
  <2>3. outbox'[m] = "failed" =>
          \/ outbox[m] = "failed"
          \/ answer[s] \in {"UNAUTHORIZED_KEY", "INVALID_TRANSACTION"}
          \/ answer[s] = "INTERNAL_ERROR"
    BY <2>1, <2>2, MarkResult DEF TypeOK
  <2>4. /\ answer[s] \in {"UNAUTHORIZED_KEY", "INVALID_TRANSACTION"} => standing # "current"
        /\ answer[s] = "INTERNAL_ERROR" => m \in broken
    BY <2>1 DEF AnswersTrue
  <2> QED BY <1>1, <1>2, <2>2, <2>3, <2>4 DEF FailedOnlyIfRefused
<1> QED BY <1>3, <1>4, <1>5, ItemSteps DEF PullNote

\* The count is late only downwards: a write adds to it at once, an answer only
\* takes from what it counted.
LEMMA PendingStep ==
  ASSUME TypeOK, PendingNeverHidden, [Next]_vars
  PROVE  PendingNeverHidden'
<1> SUFFICES ASSUME up', ~ misread' PROVE Cardinality(Pending') <= pending'
  BY DEF PendingNeverHidden
<1>1. IsFiniteSet(Pending) /\ Cardinality(Pending) \in Nat
  <2>1. IsFiniteSet(Notes) /\ Pending \in SUBSET Notes
    BY DeviceAssumption DEF DeviceAssumption, Pending
  <2> QED BY <2>1, FS_Subset, FS_CardinalityType
<1>2. outbox' = outbox => Pending' = Pending
  BY DEF Pending
<1>3. CASE UNCHANGED <<outbox, up, pending, misread>>
  BY <1>2, <1>3 DEF PendingNeverHidden
<1>4. CASE outbox' = outbox /\ pending' = Cardinality(Pending)
  BY <1>1, <1>2, <1>4
<1>5. ASSUME NEW n \in Notes, Submit(n) PROVE Cardinality(Pending') <= pending'
  <2>1. n \in Own /\ outbox' = [outbox EXCEPT ![n] = "pending"]
        /\ pending' = Cardinality(Pending \cup {n})
    BY <1>5 DEF Submit, RefreshPending
  <2>2. Pending' = Pending \cup {n}
    BY <2>1, DeviceAssumption DEF Pending, TypeOK, DeviceAssumption
  <2>3. Cardinality(Pending \cup {n}) \in Nat
    BY <1>1, FS_AddElement, FS_CardinalityType
  <2> QED BY <2>1, <2>2, <2>3
<1>6. ASSUME NEW s \in Syncs, Receive(s) PROVE Cardinality(Pending') <= pending'
  <2>1. PICK n \in Notes : outbox' = [outbox EXCEPT ![n] = Mark(answer[s], outbox[n])]
    BY <1>6 DEF Receive
  <2>2. Mark(answer[s], outbox[n]) = "pending" => outbox[n] = "pending"
    BY MarkResult DEF TypeOK
  <2>3. Pending' \subseteq Pending
    BY <2>1, <2>2, DeviceAssumption DEF Pending, TypeOK, DeviceAssumption
  <2>4. Cardinality(Pending') <= Cardinality(Pending) /\ Cardinality(Pending') \in Nat
    BY <1>1, <2>3, FS_Subset, FS_CardinalityType
  <2>5. up' = up /\ misread' = misread /\ pending' = pending
    BY <1>6 DEF Receive, memory
  <2>6. Cardinality(Pending) <= pending
    BY <2>5, Zenon DEF PendingNeverHidden
  <2>7. pending \in Nat
    BY DEF TypeOK
  <2> QED BY <1>1, <2>4, <2>5, <2>6, <2>7
<1>7. CASE Launch \/ \E s \in Syncs : FinishSync(s) \/ FailPull(s)
  BY <1>4, <1>7 DEF Launch, FinishSync, FailPull, Finish, RefreshPending, database
<1>8. CASE \/ Tick \/ Rotate \/ ServerRestart
           \/ \E n \in Notes : HomeAck(n) \/ CalendarAck(n) \/ OtherNote(n)
  BY <1>3, <1>8 DEF Tick, Rotate, ServerRestart, HomeAck, CalendarAck, OtherNote, database, memory
<1>9. CASE \E s \in Syncs : \/ StartSync(s) \/ ReceiveFails(s) \/ Lose(s) \/ Send(s)
                          \/ SendBroken(s) \/ StartPull(s) \/ PullNote(s)
  BY <1>3, <1>9 DEF StartSync, ReceiveFails, Lose, Send, SendBroken, StartPull, PullNote,
    database, memory
<1>10. ~ Crash
  BY DEF Crash
<1>11. CASE UNCHANGED vars
  BY <1>3, <1>11 DEF vars, database, memory
<1> QED BY <1>5, <1>6, <1>7, <1>8, <1>9, <1>10, <1>11, Steps

\* The terminal's copies are written together with the stored schedules, except
\* when a block brings the note back.
LEMMA CacheStep ==
  ASSUME TypeOK, TipsOnChain, NoRowNoReminder, CacheCoherent, [Next]_vars
  PROVE  CacheCoherent'
<1> SUFFICES ASSUME up', NEW m \in shown', ~ WasOnChain(m)' PROVE cached'[m] = reminders'[m]
  BY DEF CacheCoherent, WasOnChain, OnChain
<1>1. ~ WasOnChain(m)
  BY WasStays
<1>2. CASE UNCHANGED <<up, shown, cached, reminders>>
  BY <1>1, <1>2 DEF CacheCoherent
<1>3. CASE Launch
  BY <1>3 DEF Launch, database
<1>4. ~ Crash
  BY DEF Crash
<1>5. ASSUME NEW n \in Notes, Submit(n) PROVE cached'[m] = reminders'[m]
  <2>1. /\ up /\ n \notin rows /\ shown' = shown \cup {n}
        /\ cached' = [cached EXCEPT ![n] = NewSchedule(n)]
        /\ reminders' = [reminders EXCEPT ![n] = InsertReminder(n)]
    BY <1>5 DEF Submit
  <2>2. InsertReminder(n) = NewSchedule(n)
    BY <2>1, InsertReminderResult DEF NoRowNoReminder, TypeOK
  <2> QED BY <1>1, <2>1, <2>2 DEF CacheCoherent, TypeOK
<1>6. ASSUME NEW n \in Notes, HomeAck(n) PROVE cached'[m] = reminders'[m]
  BY <1>1, <1>6 DEF HomeAck, CacheCoherent, TypeOK
<1>7. ASSUME NEW n \in Notes, CalendarAck(n) PROVE cached'[m] = reminders'[m]
  <2>1. /\ up' = up /\ shown' = shown /\ reminders[n] # NoReminder
        /\ cached' = [cached EXCEPT ![n] =
             IF cached[n] = NoReminder THEN NoReminder ELSE Acknowledge(n, reminders[n], now)]
        /\ reminders' = [reminders EXCEPT ![n] = Acknowledge(n, reminders[n], now)]
    BY <1>7 DEF CalendarAck, DueFirst, Actionable
  <2>2. cached[m] = reminders[m]
    BY <1>1, <2>1 DEF CacheCoherent
  <2> QED BY <2>1, <2>2 DEF TypeOK
<1>8. ASSUME NEW s \in Syncs, PullNote(s) PROVE cached'[m] = reminders'[m]
  <2>1. up' = up /\ shown' = shown /\ cached' = cached
    BY <1>8 DEF PullNote, memory
  <2>2. reminders'[m] = reminders[m]
    <3>1. next[s] \in 1..Len(chain)
      BY <1>8 DEF PullNote, TypeOK, TipsOnChain
    <3>2. chain[next[s]] # m
      BY <1>1, <3>1 DEF WasOnChain, OnChain
    <3>3. \/ reminders' = reminders
          \/ reminders' = [reminders EXCEPT ![chain[next[s]]] = InsertReminder(chain[next[s]])]
      BY <1>8 DEF PullNote
    <3>4. m \in Notes
      BY <2>1 DEF TypeOK
    <3> QED BY <3>2, <3>3, <3>4 DEF TypeOK
  <2> QED BY <1>1, <2>1, <2>2 DEF CacheCoherent
<1>9. CASE Tick \/ Rotate \/ ServerRestart \/ \E n \in Notes : OtherNote(n)
  BY <1>2, <1>9 DEF Tick, Rotate, ServerRestart, OtherNote, database, memory
<1>10. CASE \E s \in Syncs : \/ StartSync(s) \/ ReceiveFails(s) \/ Lose(s) \/ Send(s)
                           \/ SendBroken(s) \/ StartPull(s) \/ Receive(s)
                           \/ FinishSync(s) \/ FailPull(s)
  BY <1>2, <1>10 DEF StartSync, ReceiveFails, Lose, Send, SendBroken, StartPull, Receive,
    FinishSync, FailPull, Finish, database, memory
<1>11. CASE UNCHANGED vars
  BY <1>2, <1>11 DEF vars, database, memory
<1> QED
  BY <1>3, <1>4, <1>5, <1>6, <1>7, <1>8, <1>9, <1>10, <1>11, Steps

\* What an acknowledgement leaves, and what the note's return from the chain does
\* to it.
LEMMA AcknowledgedStep ==
  ASSUME TypeOK, TipsOnChain, NoRowNoReminder, AcknowledgedOrReset, [Next]_vars
  PROVE  AcknowledgedOrReset'
<1> SUFFICES ASSUME NEW m \in Notes, reminders'[m].acked # NoTime,
                    ~ reminders'[m].dismissed, ~ (reminders'[m].fire > reminders'[m].acked)
             PROVE  WasOnChain(m)' /\ reminders'[m].fire = Fire[m]
  BY DEF AcknowledgedOrReset
<1>1. CASE reminders'[m] = reminders[m]
  BY <1>1, WasStays DEF AcknowledgedOrReset
<1>2. ASSUME Submit(m), reminders'[m] = InsertReminder(m) PROVE FALSE
  <2>1. reminders[m].acked = NoTime
    BY <1>2 DEF Submit, NoRowNoReminder, NoReminder
  <2> QED BY <1>2, <2>1, InsertReminderResult DEF TypeOK
<1>3. ASSUME NEW r \in Reminder, reminders'[m] = Acknowledge(m, r, now) PROVE FALSE
  BY <1>3, AcknowledgeResult DEF TypeOK
<1>4. CASE OnChain(m) /\ reminders'[m] = InsertReminder(m)
  <2>1. reminders'[m] = reminders[m] \/ reminders'[m].fire = Fire[m]
    BY <1>4, InsertReminderResult DEF TypeOK
  <2> QED BY <1>1, <1>4, <2>1, WasStays DEF WasOnChain
<1>5. \/ reminders'[m] = reminders[m]
      \/ Submit(m) /\ reminders'[m] = InsertReminder(m)
      \/ \E r \in Reminder : reminders'[m] = Acknowledge(m, r, now)
      \/ OnChain(m) /\ reminders'[m] = InsertReminder(m)
  <2>1. /\ \A n \in Notes : cached[n] \in Reminder /\ reminders[n] \in Reminder
        /\ reminders \in [Notes -> Reminder]
    BY DEF TypeOK
  <2>2. \/ reminders' = reminders
        \/ \E n \in Notes :
             \/ Submit(n) /\ reminders' = [reminders EXCEPT ![n] = InsertReminder(n)]
             \/ \E r \in Reminder : reminders' = [reminders EXCEPT ![n] = Acknowledge(n, r, now)]
             \/ OnChain(n) /\ reminders' = [reminders EXCEPT ![n] = InsertReminder(n)]
    BY <2>1, ReminderEffects
  <2> QED BY <2>1, <2>2
<1> QED BY <1>1, <1>2, <1>3, <1>4, <1>5

-----------------------------------------------------------------------------
(***************************************************************************)
(* Occurrences. A schedule stays on the multiples of its interval.         *)
(***************************************************************************)

\* A multiple of e and k more intervals are a multiple of e.
LEMMA MultipleShift ==
  ASSUME NEW e \in Nat \ {0}, NEW a \in Nat, NEW k \in Nat, a % e = 0
  PROVE  (a + k * e) % e = 0
<1> DEFINE d == a \div e
<1>1. d \in Nat /\ a = d * e + (a % e)
  OBVIOUS
<1>2. a + k * e = (d + k) * e /\ d + k \in Nat
  BY <1>1
<1>3. \A j \in Nat : (j * e) % e = 0
  OBVIOUS
<1> QED BY <1>2, <1>3

\* A schedule of n lies on its occurrences, and the one before it was acknowledged
\* or precedes the first; nothing was acknowledged after time t.
OnOccurrence(n, r, t) ==
  /\ r.acked <= t
  /\ Fire[n] # NoTime /\ Every[n] > 0 /\ r # NoReminder =>
       /\ r.fire >= Fire[n]
       /\ (r.fire - Fire[n]) % Every[n] = 0
       /\ r.fire > Fire[n] => r.fire - Every[n] <= r.acked

AllOnOccurrence ==
  \A n \in Notes : OnOccurrence(n, reminders[n], now) /\ OnOccurrence(n, cached[n], now)

\* An acknowledgement leads to the next occurrence after it.
LEMMA AcknowledgeOnOccurrence ==
  ASSUME NEW n \in Notes, NEW r \in Reminder, NEW t \in Nat, OnOccurrence(n, r, t), r # NoReminder
  PROVE  OnOccurrence(n, Acknowledge(n, r, t), t)
<1> DEFINE s == Acknowledge(n, r, t)
           every == Every[n]
<1>1. s.acked = t
  BY AcknowledgeResult
<1>2. ASSUME Fire[n] # NoTime, every > 0
      PROVE  /\ s.fire >= Fire[n] /\ (s.fire - Fire[n]) % every = 0
             /\ s.fire > Fire[n] => s.fire - every <= t
  <2>1. /\ Fire[n] \in Nat /\ every \in Nat \ {0} /\ r.fire \in Nat \cup {NoTime}
        /\ r.acked \in Nat \cup {NoTime}
    BY <1>2, NoteFields DEF Reminder
  <2>2. /\ r.fire >= Fire[n] /\ (r.fire - Fire[n]) % every = 0
        /\ r.fire > Fire[n] => r.fire - every <= r.acked
        /\ r.acked <= t
    BY <1>2 DEF OnOccurrence
  <2>3. s = [r EXCEPT !.acked = t, !.fire = NextFire(r.fire, every, t)]
    BY <2>1 DEF Acknowledge
  <2>4. s.fire = NextFire(r.fire, every, t)
    BY <2>3 DEF Reminder
  <2>5. CASE r.fire > t
    <3>1. s.fire = r.fire
      BY <2>4, <2>5 DEF NextFire
    <3>2. r.fire - every <= r.acked => r.fire - every <= t
      BY <2>1, <2>2 DEF NoTime
    <3> QED BY <2>2, <3>1, <3>2
  <2>6. CASE ~ (r.fire > t)
    <3> DEFINE q == (t - r.fire) \div every
               a == r.fire - Fire[n]
    <3>1. r.fire \in Nat /\ t - r.fire \in Nat /\ a \in Nat /\ a % every = 0
      BY <2>1, <2>2, <2>6 DEF NoTime
    <3>2. q \in Nat /\ q * every <= t - r.fire /\ q * every \in Nat
      BY <2>1, <3>1
    <3>3. (q + 1) * every = q * every + every /\ (q + 1) * every \in Nat
      <4>1. \A i, j \in Nat : (i + 1) * j = i * j + j
        OBVIOUS
      <4>2. \A k \in Nat : k * every \in Nat =>
              (k + 1) * every = k * every + every /\ (k + 1) * every \in Nat
        BY <2>1, <4>1
      <4> QED BY <3>2, <4>2
    <3>4. s.fire = r.fire + (q + 1) * every
      BY <2>4, <2>6 DEF NextFire
    <3>5. (a + (q + 1) * every) % every = 0
      BY <2>1, <3>1, <3>2, MultipleShift
    <3>6. s.fire - Fire[n] = a + (q + 1) * every
      BY <2>1, <3>1, <3>3, <3>4
    <3>7. s.fire - every <= t
      BY <2>1, <3>1, <3>2, <3>3, <3>4
    <3>8. s.fire >= Fire[n]
      BY <2>1, <2>2, <3>1, <3>3, <3>4
    <3> QED BY <3>5, <3>6, <3>7, <3>8
  <2> QED BY <2>5, <2>6
<1>3. t <= t
  OBVIOUS
<1> QED BY <1>1, <1>2, <1>3 DEF OnOccurrence

\* The time in the text of a note is its first occurrence.
LEMMA AtFirst ==
  ASSUME NEW n \in Notes, NEW r \in Reminder, NEW t \in Nat, r.acked <= t, r.fire = Fire[n]
  PROVE  OnOccurrence(n, r, t)
<1>1. Fire[n] \in Nat \cup {NoTime} /\ Every[n] \in Nat
  BY NoteFields
<1>2. \A e \in Nat \ {0} : 0 % e = 0
  OBVIOUS
<1>3. Fire[n] \in Nat /\ Every[n] > 0 => (r.fire - Fire[n]) % Every[n] = 0
  BY <1>1, <1>2
<1>4. Fire[n] \in Nat => r.fire >= Fire[n] /\ ~ (r.fire > Fire[n])
  BY <1>1
<1> QED BY <1>1, <1>3, <1>4 DEF OnOccurrence

LEMMA FirstOccurrence ==
  ASSUME NEW n \in Notes, NEW t \in Nat, reminders \in [Notes -> Reminder],
         OnOccurrence(n, reminders[n], t)
  PROVE  OnOccurrence(n, InsertReminder(n), t) /\ OnOccurrence(n, NewSchedule(n), t)
<1>1. NewSchedule(n) \in Reminder /\ InsertReminder(n) \in Reminder
  BY NoteFields, InsertReminderResult
<1>2. NewSchedule(n).acked <= t /\ NewSchedule(n).fire = Fire[n]
  BY DEF NewSchedule, NoTime
<1>3. OnOccurrence(n, NewSchedule(n), t)
  BY <1>1, <1>2, AtFirst
<1>4. InsertReminder(n).acked <= t
  BY InsertReminderResult DEF OnOccurrence
<1>5. InsertReminder(n) = reminders[n] \/ InsertReminder(n).fire = Fire[n]
  BY InsertReminderResult
<1>6. OnOccurrence(n, InsertReminder(n), t)
  BY <1>1, <1>4, <1>5, AtFirst
<1> QED BY <1>3, <1>6

\* Time goes on without a schedule leaving its occurrences.
LEMMA LaterOnOccurrence ==
  ASSUME NEW n \in Notes, NEW r \in Reminder, NEW t \in Nat, NEW u \in Nat, t <= u,
         OnOccurrence(n, r, t)
  PROVE  OnOccurrence(n, r, u)
<1>1. r.acked \in Nat \cup {NoTime} /\ r.acked <= t
  BY DEF Reminder, OnOccurrence
<1>2. r.acked <= u
  BY <1>1 DEF NoTime
<1> QED BY <1>2 DEF OnOccurrence

\* What the terminal's copies are after a step.
LEMMA CacheEffects ==
  ASSUME [Next]_vars
  PROVE  \/ cached' = cached \/ cached' = reminders \/ cached' = [n \in Notes |-> NoReminder]
         \/ \E n \in Notes :
              \/ cached' = [cached EXCEPT ![n] = NewSchedule(n)]
              \/ /\ cached[n] # NoReminder
                 /\ cached' = [cached EXCEPT ![n] = Acknowledge(n, cached[n], now)]
              \/ /\ reminders[n] # NoReminder
                 /\ \/ cached' = [cached EXCEPT ![n] = Acknowledge(n, reminders[n], now)]
                    \/ cached' = [cached EXCEPT ![n] = NoReminder]
<1>1. \A n \in Notes :
        /\ Submit(n) => cached' = [cached EXCEPT ![n] = NewSchedule(n)]
        /\ HomeAck(n) => /\ cached[n] # NoReminder
                         /\ cached' = [cached EXCEPT ![n] = Acknowledge(n, cached[n], now)]
        /\ OtherNote(n) => cached' = cached
  BY DEF Submit, HomeAck, OtherNote, memory
<1>2. ASSUME NEW n \in Notes, CalendarAck(n)
      PROVE  /\ reminders[n] # NoReminder
             /\ \/ cached' = [cached EXCEPT ![n] = Acknowledge(n, reminders[n], now)]
                \/ cached' = [cached EXCEPT ![n] = NoReminder]
  <2>1. reminders[n] # NoReminder
    BY <1>2 DEF CalendarAck, DueFirst, Actionable
  <2>2. CASE cached[n] = NoReminder
    BY <1>2, <2>1, <2>2 DEF CalendarAck
  <2>3. CASE cached[n] # NoReminder
    BY <1>2, <2>1, <2>3 DEF CalendarAck
  <2> QED BY <2>2, <2>3
<1>3. CASE Tick \/ Rotate \/ ServerRestart \/ UNCHANGED vars
  BY <1>3 DEF Tick, Rotate, ServerRestart, vars, memory
<1>4. CASE Launch \/ Crash
  BY <1>4 DEF Launch, Crash
<1>5. CASE \E s \in Syncs : \/ StartSync(s) \/ ReceiveFails(s) \/ Lose(s) \/ Send(s)
                          \/ SendBroken(s) \/ StartPull(s) \/ PullNote(s) \/ Receive(s)
                          \/ FinishSync(s) \/ FailPull(s)
  BY <1>5 DEF StartSync, ReceiveFails, Lose, Send, SendBroken, StartPull, PullNote, Receive,
    FinishSync, FailPull, Finish, memory
<1> QED BY <1>1, <1>2, <1>3, <1>4, <1>5, Steps

\* Every action leaves both copies on the occurrences.
LEMMA OccurrenceStep ==
  ASSUME TypeOK, TipsOnChain, AllOnOccurrence, [Next]_vars
  PROVE  AllOnOccurrence'
<1>1. now \in Nat /\ now' \in Nat /\ now <= now'
  <2>1. now' = now \/ now' = now + 1
    BY Steps DEF vars, Launch, Crash, Tick, Rotate, ServerRestart, Submit, HomeAck, CalendarAck,
      OtherNote, StartSync, ReceiveFails, Lose, Send, SendBroken, StartPull, PullNote, Receive,
      FinishSync, FailPull, Finish
  <2> QED BY <2>1 DEF TypeOK
<1>2. \A n \in Notes : /\ reminders[n] \in Reminder /\ cached[n] \in Reminder
                       /\ OnOccurrence(n, reminders[n], now) /\ OnOccurrence(n, cached[n], now)
  BY DEF TypeOK, AllOnOccurrence
<1>3. \A n \in Notes :
        /\ OnOccurrence(n, InsertReminder(n), now) /\ OnOccurrence(n, NewSchedule(n), now)
        /\ reminders[n] # NoReminder => OnOccurrence(n, Acknowledge(n, reminders[n], now), now)
        /\ cached[n] # NoReminder => OnOccurrence(n, Acknowledge(n, cached[n], now), now)
        /\ OnOccurrence(n, NoReminder, now)
  <2>1. \A n \in Notes : OnOccurrence(n, NoReminder, now)
    BY <1>1 DEF OnOccurrence, NoReminder, NoTime
  <2> QED BY <1>1, <1>2, <2>1, AcknowledgeOnOccurrence, FirstOccurrence DEF TypeOK
<1>4. \A n \in Notes : OnOccurrence(n, reminders'[n], now)
  <2>1. \A n \in Notes : CalendarAck(n) => reminders[n] # NoReminder
    BY DEF CalendarAck, DueFirst, Actionable
  <2>2. \A n \in Notes : HomeAck(n) => cached[n] # NoReminder
    BY DEF HomeAck
  <2>3. \/ reminders' = reminders
        \/ \E n \in Notes : \E r : /\ OnOccurrence(n, r, now)
                                   /\ reminders' = [reminders EXCEPT ![n] = r]
    BY <1>3, <2>1, <2>2, ReminderEffects
  <2> QED BY <1>2, <2>3 DEF TypeOK
<1>5. \A n \in Notes : OnOccurrence(n, cached'[n], now)
  <2>1. \/ cached' = cached \/ cached' = reminders \/ cached' = [n \in Notes |-> NoReminder]
        \/ \E n \in Notes : \E r : /\ OnOccurrence(n, r, now)
                                   /\ cached' = [cached EXCEPT ![n] = r]
    BY <1>3, CacheEffects
  <2> QED BY <1>2, <1>3, <2>1 DEF TypeOK
<1>6. TypeOK'
  BY TypeStep
<1>7. \A n \in Notes : reminders'[n] \in Reminder /\ cached'[n] \in Reminder
  BY <1>6 DEF TypeOK
<1>8. \A n \in Notes : /\ OnOccurrence(n, reminders'[n], now')
                       /\ OnOccurrence(n, cached'[n], now')
  BY <1>1, <1>4, <1>5, <1>7, LaterOnOccurrence
<1> QED BY <1>8 DEF AllOnOccurrence, OnOccurrence

-----------------------------------------------------------------------------
(***************************************************************************)
(* The theorems.                                                           *)
(***************************************************************************)
LEMMA InductiveInit == Init => Inductive
<1> SUFFICES ASSUME Init PROVE Inductive
  OBVIOUS
<1>1. NoReminder \in Reminder /\ "" \in Codes /\ "none" \in Statuses
  BY DEF NoReminder, Reminder, NoTime, Codes, Statuses
<1>2. TypeOK
  <2>1. reminders \in [Notes -> Reminder] /\ cached \in [Notes -> Reminder]
    BY <1>1 DEF Init
  <2>2. outbox \in [Notes -> Statuses]
    BY <1>1 DEF Init
  <2>3. answer \in [Syncs -> Codes]
    BY <1>1 DEF Init
  <2>4. next = [s \in Syncs |-> 1] /\ tip = [s \in Syncs |-> 0]
        /\ pending = 0 /\ now = 0 /\ faults = 0 /\ chain = <<>>
    BY DEF Init
  <2>5. pc \in [Syncs -> {"idle", "submit", "pull"}] /\ standing \in Standings
    BY DEF Init, Standings
  <2>6. /\ chain \in Seq(Notes \cup {Rotation})
        /\ next \in [Syncs -> Nat \ {0}] /\ tip \in [Syncs -> Nat]
    BY <2>4
  <2>7. todo \in [Syncs -> SUBSET {n \in Own : outbox[n] # "none"}]
    BY DEF Init
  <2>8. rows \subseteq Notes /\ shown \subseteq rows /\ up \in BOOLEAN /\ misread \in BOOLEAN
        /\ volatile \subseteq broken /\ broken \subseteq Notes
    BY DEF Init
  <2> QED BY <2>1, <2>2, <2>3, <2>4, <2>5, <2>6, <2>7, <2>8 DEF TypeOK
<1>3. Len(chain) = 0 /\ \A s \in Syncs : tip[s] = 0
  BY DEF Init
<1>4. \A n \in Notes : outbox[n] = "none" /\ n \notin rows /\ reminders[n] = NoReminder
  BY DEF Init
<1>5. \A n : ~ WasOnChain(n)
  <2>1. broken = {}
    BY DEF Init
  <2>2. \A n : ~ OnChain(n)
    BY <1>3 DEF OnChain
  <2> QED BY <2>1, <2>2 DEF WasOnChain
<1>6. TipsOnChain
  BY <1>3 DEF TipsOnChain
<1>7. Asked /\ AnswersTrue
  BY DEF Init, Asked, AnswersTrue
<1>8. ItemsOfNotes /\ NoRowNoReminder
  BY <1>4, <1>5 DEF ItemsOfNotes, NoRowNoReminder
<1>9. FailedOnlyIfRefused
  BY <1>4, DeviceAssumption DEF FailedOnlyIfRefused, DeviceAssumption
<1>10. PendingNeverHidden /\ CacheCoherent
  BY DEF Init, PendingNeverHidden, CacheCoherent
<1>11. AcknowledgedOrReset
  BY <1>4 DEF AcknowledgedOrReset, NoReminder
<1> QED BY <1>2, <1>6, <1>7, <1>8, <1>9, <1>10, <1>11 DEF Inductive

LEMMA InductiveStep == Inductive /\ [Next]_vars => Inductive'
BY TypeStep, TipsStep, AskedStep, AnswersStep, ItemsStep, NoRowStep, FailedStep, PendingStep,
   CacheStep, AcknowledgedStep DEF Inductive

\* In every behaviour the database, the memory, the Syncs and the server hold what
\* they should, and the invariant that carries the other theorems holds.
THEOREM InductiveInvariant == Spec => []Inductive
BY InductiveInit, InductiveStep, PTL DEF Spec

\* The types, and: the terminal shows notes of the database and a Sync sends items.
THEOREM TypeCorrect == Spec => []TypeOK
<1>1. Inductive => TypeOK
  BY DEF Inductive
<1> QED BY <1>1, InductiveInvariant, PTL

\* Whatever is lost, repeated or started again, a note of this device waits, was
\* refused, or is delivered: on the chain, or in a block that the server lost after
\* it had answered its write by an error.
THEOREM NothingForgotten == Spec => []DeliveredOrKnown
<1>1. Inductive => DeliveredOrKnown
  BY DEF Inductive, TypeOK, ItemsOfNotes, DeliveredOrKnown, Statuses
<1> QED BY <1>1, InductiveInvariant, PTL

\* An item fails only when the server refuses the device or holds the note already.
THEOREM NothingGivenUp == Spec => []FailedOnlyIfRefused
<1>1. Inductive => FailedOnlyIfRefused
  BY DEF Inductive
<1> QED BY <1>1, InductiveInvariant, PTL

\* However Syncs overlap, the status line never counts fewer items than wait, as
\* long as the count could be read.
THEOREM CountNeverLow == Spec => []PendingNeverHidden
<1>1. Inductive => PendingNeverHidden
  BY DEF Inductive
<1> QED BY <1>1, InductiveInvariant, PTL

\* Until a block brings a note back, its schedule is the same in memory and on disk.
THEOREM CacheAgrees == Spec => []CacheCoherent
<1>1. Inductive => CacheCoherent
  BY DEF Inductive
<1> QED BY <1>1, InductiveInvariant, PTL

\* An acknowledgement is undone by the return of the note from the chain only.
THEOREM AcknowledgementLasts == Spec => []AcknowledgedOrReset
<1>1. Inductive => AcknowledgedOrReset
  BY DEF Inductive
<1> QED BY <1>1, InductiveInvariant, PTL

\* A repeated reminder fires at its own occurrences only and leaves none out.
THEOREM NoOccurrenceSkipped == Spec => []OnSchedule
<1>1. Init => AllOnOccurrence
  <2> SUFFICES ASSUME Init, NEW n \in Notes
               PROVE  OnOccurrence(n, reminders[n], now) /\ OnOccurrence(n, cached[n], now)
    BY DEF AllOnOccurrence
  <2>1. reminders[n] = NoReminder /\ cached[n] = NoReminder /\ now = 0
    BY DEF Init
  <2>2. NoReminder.acked <= 0
    BY DEF NoReminder, NoTime
  <2> QED BY <2>1, <2>2 DEF OnOccurrence
<1>2. Inductive /\ AllOnOccurrence /\ [Next]_vars => AllOnOccurrence'
  BY OccurrenceStep DEF Inductive
<1>3. AllOnOccurrence => OnSchedule
  BY DEF AllOnOccurrence, OnOccurrence, OnSchedule
<1> QED BY <1>1, <1>2, <1>3, InductiveInvariant, PTL DEF Spec

-----------------------------------------------------------------------------
(***************************************************************************)
(* The pages of a search.                                                  *)
(***************************************************************************)

\* The order of the rows is strict and total.
LEMMA NewerIsOrder ==
  /\ \A n \in Notes : ~ Newer(n, n)
  /\ \A n, m, k \in Notes : Newer(n, m) /\ Newer(m, k) => Newer(n, k)
  /\ \A n, m \in Notes : n # m => Newer(n, m) \/ Newer(m, n)
BY NoteFields DEF Newer

\* Every set of notes that is not empty has a newest and an oldest one.
LEMMA FirstAndLast ==
  ASSUME NEW S \in SUBSET Notes, S # {}
  PROVE  /\ \E n \in S : \A m \in S \ {n} : Newer(n, m)
         /\ \E n \in S : \A m \in S \ {n} : Newer(m, n)
<1>1. IsFiniteSet(S)
  BY DeviceAssumption, FS_Subset
<1> DEFINE R == {p \in S \X S : Newer(p[1], p[2])}
           Q == {p \in S \X S : Newer(p[2], p[1])}
<1>2. /\ \A n, m \in S : <<n, m>> \in R <=> Newer(n, m)
      /\ \A n, m \in S : <<n, m>> \in Q <=> Newer(m, n)
  OBVIOUS
<1> HIDE DEF R, Q
<1>3. PICK n \in S : \A m \in S : <<m, n>> \notin R
  <2>1. \A x \in S : <<x, x>> \notin R
    BY <1>2, NewerIsOrder
  <2>2. \A x, y, z \in S : <<x, y>> \in R /\ <<y, z>> \in R => <<x, z>> \in R
    BY <1>2, NewerIsOrder
  <2> QED BY <1>1, <2>1, <2>2, FiniteMinimal
<1>4. PICK k \in S : \A m \in S : <<m, k>> \notin Q
  <2>1. \A x \in S : <<x, x>> \notin Q
    BY <1>2, NewerIsOrder
  <2>2. \A x, y, z \in S : <<x, y>> \in Q /\ <<y, z>> \in Q => <<x, z>> \in Q
    BY <1>2, NewerIsOrder
  <2> QED BY <1>1, <2>1, <2>2, FiniteMinimal
<1> QED BY <1>2, <1>3, <1>4, NewerIsOrder

\* A page that is not the last one holds a note, and its cursor is its oldest.
LEMMA CursorIsOldest ==
  ASSUME NEW T \in SUBSET Notes, NextCursor(T, NoCursor) # NoCursor
  PROVE  LET c == NextCursor(T, NoCursor)
             page == SearchPage(T, NoCursor)
         IN  c \in page /\ \A m \in page \ {c} : Newer(m, c)
<1> DEFINE B == Behind(T, NoCursor)
           page == SearchPage(T, NoCursor)
           Before(n) == {m \in B : Newer(m, n)}
<1>1. B \in SUBSET Notes /\ page = {n \in B : Cardinality(Before(n)) < PageLimit}
  BY DEF Behind, SearchPage
<1>2. B # page
  BY DEF NextCursor
<1>3. PICK n \in B : \A m \in B \ {n} : Newer(n, m)
  BY <1>1, <1>2, FirstAndLast
<1>4. Before(n) = {}
  BY <1>1, <1>3, NewerIsOrder
<1>5. n \in page
  BY <1>1, <1>4, FS_EmptySet, DeviceAssumption
<1>6. \E c \in page : \A m \in page \ {c} : Newer(m, c)
  <2>1. page \in SUBSET Notes /\ page # {}
    BY <1>1, <1>5
  <2> HIDE DEF page
  <2> QED BY <2>1, FirstAndLast
<1> QED BY <1>2, <1>6 DEF NextCursor

\* For every database, whatever Syncs add to it between two pages, and for pages of
\* every size: no note is shown twice, and none that was there is passed over.
THEOREM PagesTheorem == Spec => []PagesAdjoin
<1>1. TypeOK => PagesAdjoin
  <2> SUFFICES ASSUME rows \in SUBSET Notes,
                      NEW T \in SUBSET rows,
                      NextCursor(T, NoCursor) # NoCursor
               PROVE  LET c == NextCursor(T, NoCursor) IN
                      /\ SearchPage(rows, c) \cap SearchPage(T, NoCursor) = {}
                      /\ T \cap Match \subseteq SearchPage(T, NoCursor) \cup Behind(rows, c)
    BY DEF TypeOK, PagesAdjoin
  <2> DEFINE c == NextCursor(T, NoCursor)
             B == Behind(T, NoCursor)
             page == SearchPage(T, NoCursor)
             Before(n) == {m \in B : Newer(m, n)}
  <2>1. c \in page /\ \A m \in page \ {c} : Newer(m, c)
    BY CursorIsOldest
  <2>2. /\ B = T \cap Match
        /\ B \in SUBSET Notes
        /\ page = {n \in B : Cardinality(Before(n)) < PageLimit}
    BY DEF Behind, SearchPage, AfterCursor
  <2> HIDE DEF c, page
  <2>3. c \in Notes /\ c # NoCursor /\ c \in B
    BY <2>1, <2>2, DeviceAssumption DEF NoCursor
  <2>4. \A n \in Notes : AfterCursor(n, c) <=> Newer(c, n)
    BY <2>3 DEF AfterCursor, Newer
  <2>5. SearchPage(rows, c) \cap page = {}
    <3> SUFFICES ASSUME NEW n \in SearchPage(rows, c), n \in page PROVE FALSE
      OBVIOUS
    <3>1. n \in Notes /\ Newer(c, n)
      BY <2>4 DEF SearchPage, Behind
    <3> QED BY <2>1, <2>3, <3>1, NewerIsOrder
  <2>6. ASSUME NEW n \in T \cap Match, n \notin page
        PROVE  n \in Behind(rows, c)
    <3>1. n \in B /\ n \in Notes /\ n # c
      BY <2>1, <2>2, <2>6
    <3>2. ~ Newer(n, c)
      <4> SUFFICES ASSUME Newer(n, c) PROVE n \in page
        BY <2>6
      <4>1. Before(n) \in SUBSET Before(c)
        BY <2>2, <2>3, <3>1, NewerIsOrder
      <4>2. IsFiniteSet(Before(c))
        <5>1. Before(c) \in SUBSET Notes
          BY <2>2
        <5> QED BY <5>1, DeviceAssumption, FS_Subset
      <4>3. /\ Cardinality(Before(n)) <= Cardinality(Before(c))
            /\ Cardinality(Before(n)) \in Nat /\ Cardinality(Before(c)) \in Nat
        BY <4>1, <4>2, FS_Subset, FS_CardinalityType
      <4>4. Cardinality(Before(c)) < PageLimit
        BY <2>1, <2>2
      <4> QED BY <2>2, <3>1, <4>3, <4>4, DeviceAssumption
    <3>3. AfterCursor(n, c)
      BY <2>3, <2>4, <3>1, <3>2, NewerIsOrder
    <3> QED BY <3>3 DEF Behind
  <2> QED BY <2>5, <2>6 DEF c, page
<1> QED BY <1>1, TypeCorrect, PTL
=============================================================================
