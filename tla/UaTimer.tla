------------------------------- MODULE UaTimer -------------------------------
(***************************************************************************)
(* UA_Timer: the repeated callbacks of the server, among them the          *)
(* publishing cycles and samplings of subscriptions and the clean-up of    *)
(* timed-out channels and sessions.                                        *)
(*                                                                         *)
(* The callbacks are a list sorted by the time they are due. Adding,       *)
(* changing and removing one only puts a change into a queue; the changes  *)
(* are carried out, one at a time, before UA_Timer_process runs what is    *)
(* due and again after it. The callbacks that run may ask for changes      *)
(* themselves, of callbacks that are still to run too. The build has one   *)
(* thread (UA_ENABLE_MULTITHREADING is not defined), for which the         *)
(* lock-free queue of the code is a first-in first-out queue.              *)
(*                                                                         *)
(* The clock is the tick count cut to 16 bits: after its last value it is  *)
(* 0 again. The times that callbacks are due are sums of it and intervals, *)
(* which nobody cuts.                                                      *)
(***************************************************************************)
EXTENDS Integers, Sequences, FiniteSets, SequencesExt

CONSTANTS
  MaxId,       \* bound: callbacks that are ever added
  MaxCalls,    \* bound: changes that are asked for
  ClockValues, \* values of the clock: 2^16
  Intervals,   \* the intervals asked for
  Second       \* UA_DATETIME_SEC in units of the clock

ASSUME TimerAssumption ==
  /\ MaxId \in Nat /\ MaxCalls \in Nat /\ ClockValues \in Nat \ {0}
  /\ Intervals \subseteq Nat \ {0}
  /\ Second \in Nat \ {0}

VARIABLES
  time,       \* UA_DateTime_nowMonotonic
  idCounter,
  calls,      \* how many changes were asked for
  changes,    \* the changes not yet carried out
  list,       \* repeatedCallbacks; while callbacks run, the newly sorted list
  running,    \* executedNowList
  last,       \* the place of last_dispatched in list, 0 for tmp_first
  phase,      \* idle; in UA_Timer_process: before, run, after
  proc,       \* the time the last UA_Timer_process was given
  gone,       \* history: the callbacks whose removal is to be carried out, or was
  late        \* history: those asked for since proc, when the clock had gone back

timerVars ==
  <<time, idCounter, calls, changes, list, running, last, phase, proc, gone, late>>

CallbackIds == 1..MaxId

(* wanted is the time agreed for the next run, due the time it is set to.  *)
Entry == [id: CallbackIds, due: Nat, wanted: Nat, interval: Intervals]

(* A removal has neither a time nor an interval.                           *)
Change == [kind: {"add", "change"}, id: CallbackIds, due: Nat, interval: Intervals]
          \cup [kind: {"remove"}, id: CallbackIds]

TimerInit ==
  /\ time = 0
  /\ idCounter = 0
  /\ calls = 0
  /\ changes = <<>>
  /\ list = <<>>
  /\ running = <<>>
  /\ last = 0
  /\ phase = "idle"
  /\ proc = 0
  /\ gone = {}
  /\ late = {}

-----------------------------------------------------------------------------
(* Every search is for the first entry behind a place that is due at t or  *)
(* later.                                                                  *)
Later(l, t, from) == {k \in DOMAIN l : k > from /\ l[k].due >= t}
Search(l, t, from) ==
  IF Later(l, t, from) = {} THEN Len(l) + 1 ELSE Min(Later(l, t, from))

(* addTimerCallbackEntry: after the entries that are due earlier. An entry *)
(* with the same interval that is due less than a second earlier draws     *)
(* the new one to its own time.                                            *)
Earlier(l, e) == 1 .. Search(l, e.due, 0) - 1

Insert_anyEarlier(l, e) ==
  LET block == {k \in Earlier(l, e) : l[k].interval = e.interval}
  IN IF block # {}
     THEN InsertAt(l, Min(block) + 1, [e EXCEPT !.due = l[Min(block)].due])
     ELSE InsertAt(l, Search(l, e.due, 0), e)

Block(l, e) ==
  {k \in Earlier(l, e) : l[k].interval = e.interval /\ l[k].due > e.due - Second}

Insert(l, e) ==
  IF Block(l, e) # {}
  THEN InsertAt(l, Min(Block(l, e)) + 1, [e EXCEPT !.due = l[Min(Block(l, e))].due])
  ELSE InsertAt(l, Search(l, e.due, 0), e)

Places(l, i) == {k \in DOMAIN l : l[k].id = i}
Without(l, i) == IF Places(l, i) = {} THEN l ELSE RemoveAt(l, Min(Places(l, i)))

NewEntry(c) == [id |-> c.id, due |-> c.due, wanted |-> c.due, interval |-> c.interval]

(* processChanges. changeTimerCallbackEntryInterval does nothing if the    *)
(* callback is not there.                                                  *)
Carry(l, c) ==
  CASE c.kind = "add"    -> Insert(l, NewEntry(c))
    [] c.kind = "change" -> IF Places(l, c.id) = {} THEN l
                            ELSE Insert(Without(l, c.id), NewEntry(c))
    [] c.kind = "remove" -> Without(l, c.id)

Asked == {changes[k].id : k \in {j \in DOMAIN changes : changes[j].kind = "remove"}}

-----------------------------------------------------------------------------
(* The interface: each enqueues a change. The server's other work asks     *)
(* between two processes, the callbacks ask while they run.                *)
Enqueue(c) ==
  /\ phase = "idle" \/ (phase = "run" /\ running # <<>>)
  /\ calls < MaxCalls
  /\ calls' = calls + 1
  /\ changes' = Append(changes, c)
  /\ late' = IF c.kind # "remove" /\ time < proc THEN late \cup {c.id} ELSE late
  /\ UNCHANGED <<time, list, running, last, phase, proc, gone>>

AddRepeatedCallback(interval) ==
  /\ idCounter < MaxId
  /\ idCounter' = idCounter + 1
  /\ Enqueue([kind |-> "add", id |-> idCounter + 1, due |-> time + interval,
              interval |-> interval])

ChangeRepeatedCallbackInterval(i, interval) ==
  /\ i \in 1..idCounter
  /\ Enqueue([kind |-> "change", id |-> i, due |-> time + interval,
              interval |-> interval])
  /\ UNCHANGED idCounter

(* A second removal of the same callback would do nothing.                 *)
RemoveRepeatedCallback(i) ==
  /\ i \in (1..idCounter) \ (gone \cup Asked)
  /\ Enqueue([kind |-> "remove", id |-> i])
  /\ UNCHANGED idCounter

-----------------------------------------------------------------------------
(* UA_Timer_process.                                                       *)
Process ==
  /\ phase = "idle"
  /\ phase' = "before"
  /\ proc' = time
  /\ gone' = gone \cup Asked
  /\ late' = {}
  /\ UNCHANGED <<time, idCounter, calls, changes, list, running, last>>

ProcessChange ==
  /\ phase \in {"before", "after"} /\ changes # <<>>
  /\ list' = Carry(list, Head(changes))
  /\ changes' = Tail(changes)
  /\ UNCHANGED <<time, idCounter, calls, running, last, phase, proc, gone, late>>

(* What is due is taken from the head of the list. If that is nothing, the *)
(* process is over.                                                        *)
TakeDue_beforeChanges ==
  LET firstAfter == Search(list, proc + 1, 0)
  IN /\ phase = "before"
     /\ running' = SubSeq(list, 1, firstAfter - 1)
     /\ list' = SubSeq(list, firstAfter, Len(list))
     /\ phase' = IF firstAfter = 1 THEN "idle" ELSE "run"
     /\ UNCHANGED <<time, idCounter, calls, changes, last, proc, gone, late>>

TakeDue ==
  LET firstAfter == Search(list, proc + 1, 0)
  IN /\ phase = "before" /\ changes = <<>>
     /\ running' = SubSeq(list, 1, firstAfter - 1)
     /\ list' = SubSeq(list, firstAfter, Len(list))
     /\ phase' = IF firstAfter = 1 THEN "idle" ELSE "run"
     /\ UNCHANGED <<time, idCounter, calls, changes, last, proc, gone, late>>

NextTime_unfloored(e) == e.due + e.interval
NextTime(e) == IF e.due + e.interval < proc THEN proc + 1 ELSE e.due + e.interval

(* The place for an entry due at t: behind last_dispatched if that is due  *)
(* at the same time, else by a search from last_dispatched or the head.    *)
Place_fromLast(t) ==
  IF last > 0 /\ list[last].due = t THEN last + 1 ELSE Search(list, t, last)

Place(t) ==
  IF last > 0 /\ list[last].due = t THEN last + 1
  ELSE Search(list, t, IF last > 0 /\ list[last].due < t THEN last ELSE 0)

(* The first of the due callbacks has run and gets its new place.          *)
Dispatch ==
  LET e == Head(running)
      t == NextTime(e)
  IN /\ phase = "run" /\ running # <<>>
     /\ running' = Tail(running)
     /\ list' = InsertAt(list, Place(t), [e EXCEPT !.due = t, !.wanted = t])
     /\ last' = IF last > 0 /\ list[last].due = t THEN last ELSE Place(t)
     /\ UNCHANGED <<time, idCounter, calls, changes, phase, proc, gone, late>>

(* All have run: the changes they asked for are carried out.               *)
AllRun ==
  /\ phase = "run" /\ running = <<>>
  /\ phase' = "after"
  /\ last' = 0
  /\ gone' = gone \cup Asked
  /\ UNCHANGED <<time, idCounter, calls, changes, list, running, proc, late>>

ProcessReturns ==
  /\ phase = "after" /\ changes = <<>>
  /\ phase' = "idle"
  /\ UNCHANGED <<time, idCounter, calls, changes, list, running, last, proc, gone, late>>

(* Time passes while callbacks run and between the processes; the timer's  *)
(* own steps do not read the clock.                                        *)
TimePasses ==
  /\ phase \in {"idle", "run"}
  /\ time' = (time + 1) % ClockValues
  /\ UNCHANGED <<idCounter, calls, changes, list, running, last, phase, proc, gone, late>>

TimerNext ==
  \/ \E interval \in Intervals : AddRepeatedCallback(interval)
  \/ \E i \in CallbackIds, interval \in Intervals :
       ChangeRepeatedCallbackInterval(i, interval)
  \/ \E i \in CallbackIds : RemoveRepeatedCallback(i)
  \/ Process
  \/ ProcessChange
  \/ TakeDue
  \/ Dispatch
  \/ AllRun
  \/ ProcessReturns
  \/ TimePasses

TimerSpec == TimerInit /\ [][TimerNext]_timerVars

-----------------------------------------------------------------------------
Elements(l) == {l[k] : k \in DOMAIN l}

TimerTypeOK ==
  /\ time \in 0 .. ClockValues - 1
  /\ idCounter \in 0..MaxId
  /\ calls \in 0..MaxCalls
  /\ changes \in Seq(Change) /\ Len(changes) <= calls
  /\ list \in Seq(Entry) /\ running \in Seq(Entry)
  /\ last \in 0..Len(list)
  /\ phase \in {"idle", "before", "run", "after"}
  /\ proc \in 0 .. ClockValues - 1
  /\ gone \subseteq 1..idCounter
  /\ late \subseteq 1..idCounter

(* The header: the first execution is at now + interval at the latest, and *)
(* later ones follow the interval. When a process is over, no callback is  *)
(* left whose time had come when it began, however entries were grouped    *)
(* and moved. That holds by the clock as it was then: only what is asked   *)
(* for after the clock has gone back, while the process runs or after it,  *)
(* can be due at an earlier reading.                                       *)
Punctual ==
  phase = "idle" => \A e \in Elements(list) : e.wanted >= proc \/ e.id \in late


(* The comment in addTimerCallbackEntry: grouping brings a first execution *)
(* forward by less than a second; later ones are not early at all.         *)
NotTooEarly == \A e \in Elements(running) : e.wanted < proc + Second

(* The server sleeps until the time that UA_Timer_process returns, that of *)
(* the head of the list: no callback is due before, those included that    *)
(* callbacks have added or changed.                                        *)
WakesInTime == phase = "idle" => \A e \in Elements(list) : Head(list).due <= e.due

(* What a callback works on is freed when the iteration of the server is   *)
(* over (delayed callbacks): a callback that was removed before a process  *)
(* begins never runs again, although changes for it may still come.        *)
RemovedIsGone ==
  phase \in {"idle", "run"} =>
    \A e \in Elements(list) \cup Elements(running) : e.id \notin gone
=============================================================================
