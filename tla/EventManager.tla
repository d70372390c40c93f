--------------------------- MODULE EventManager ----------------------------
(***************************************************************************)
(* The event manager library: two event queues, the table of listeners and *)
(* processEvent() and processAllEvents(), which take events from the       *)
(* queues and call the listeners.  Interrupts queue events between any two *)
(* steps that are not in one atomic block; listeners may call the library  *)
(* too.  A listener does not call processEvent() or processAllEvents().    *)
(***************************************************************************)
EXTENDS EventQueue, SequencesExt, FiniteSets

CONSTANTS Callbacks,     \* the functions an application may register
          Codes,         \* the event codes it registers them for
          Events,        \* the events that may be queued: records [code, param]
          kMaxListeners

ASSUME ManagerAssumption == /\ kMaxListeners \in Nat \ {0} /\ Codes \subseteq Int
                            /\ Events \subseteq [code : Int, param : Int]

NoCallback == "null"
Priorities == {"high", "low"}

VARIABLES queues,        \* mHighPriorityQueue and mLowPriorityQueue
          mListeners,    \* the first mNumListeners entries of the table
          mDefaultCallback, mDefaultCallbackEnabled,
          call,          \* progress of processEvent(), processAllEvents() and sendEvent()
          highDue,       \* history: high events waiting when the call began, not yet taken
          turn           \* history of the dispatch under way: see NoTurn

listVars == <<mListeners, mDefaultCallback, mDefaultCallbackEnabled>>
managerVars == <<queues, listVars, call, highDue, turn>>

InApp == [pc |-> "app", all |-> FALSE, pri |-> "high", at |-> 0, handled |-> FALSE,
          event |-> [code |-> kEventNone, param |-> 0]]

\* owed: callbacks that are due the event; told: those that got it; shifted: the entry of
\* a callback that is running, or an earlier one, was removed.
NoTurn == [owed |-> {}, told |-> {}, shifted |-> FALSE]

ListenerItem == [callback : Callbacks, eventCode : Int, enabled : BOOLEAN]

\* What setup() registered is in the table before the first event is processed.
EMInit(table) ==
  /\ queues = [p \in Priorities |-> EmptyQueue]
  /\ mListeners = table
  /\ mDefaultCallback = NoCallback /\ mDefaultCallbackEnabled \in BOOLEAN
  /\ call = InApp /\ turn = NoTurn /\ highDue = 0

----------------------------------------------------------------------------
(* The table of listeners.                                                  *)

searchListeners(code, cb) ==
  SelectInSeq(mListeners, LAMBDA l : l.eventCode = code /\ l.callback = cb)

EnabledFor(table, code) ==
  {table[k].callback : k \in {j \in DOMAIN table : table[j].eventCode = code /\ table[j].enabled}}

\* The application's code runs, in its loop or in a listener.
AppRuns == call.pc \in {"app", "callback"}

Dispatching == call.pc \in {"send", "callback"}

\* The table changes; who is no longer in it, or no longer enabled, is due nothing.
SetTable(table, shift) ==
  /\ mListeners' = table
  /\ turn' = IF Dispatching
             THEN [turn EXCEPT !.owed = @ \intersect EnabledFor(table, call.event.code),
                               !.shifted = @ \/ shift]
             ELSE turn

addListener(code, cb) ==
  /\ AppRuns /\ cb # NoCallback /\ Len(mListeners) < kMaxListeners
  /\ SetTable(Append(mListeners, [callback |-> cb, eventCode |-> code, enabled |-> TRUE]), FALSE)
  /\ UNCHANGED <<queues, mDefaultCallback, mDefaultCallbackEnabled, call, highDue>>

removeListener(code, cb) ==
  /\ AppRuns /\ searchListeners(code, cb) > 0
  /\ SetTable(RemoveAt(mListeners, searchListeners(code, cb)),
              searchListeners(code, cb) <= call.at)
  /\ UNCHANGED <<queues, mDefaultCallback, mDefaultCallbackEnabled, call, highDue>>

\* The entries of other functions, in their order.
Without(table, cb) ==
  LET keep == {k \in DOMAIN table : table[k].callback # cb}
  IN  [i \in 1 .. Cardinality(keep) |->
         table[CHOOSE k \in keep : Cardinality({j \in keep : j < k}) = i - 1]]

removeListenerEverywhere(cb) ==
  /\ AppRuns /\ \E k \in DOMAIN mListeners : mListeners[k].callback = cb
  /\ SetTable(Without(mListeners, cb),
              \E k \in DOMAIN mListeners : mListeners[k].callback = cb /\ k <= call.at)
  /\ UNCHANGED <<queues, mDefaultCallback, mDefaultCallbackEnabled, call, highDue>>

enableListener(code, cb, enable) ==
  /\ AppRuns /\ searchListeners(code, cb) > 0
  /\ SetTable([mListeners EXCEPT ![searchListeners(code, cb)].enabled = enable], FALSE)
  /\ UNCHANGED <<queues, mDefaultCallback, mDefaultCallbackEnabled, call, highDue>>

isListenerEnabled(code, cb) ==
  searchListeners(code, cb) > 0 /\ mListeners[searchListeners(code, cb)].enabled

SetDefault(cb, enable) ==
  /\ AppRuns /\ mDefaultCallback' = cb /\ mDefaultCallbackEnabled' = enable
  /\ UNCHANGED <<queues, mListeners, call, highDue, turn>>

setDefaultListener(cb)         == cb # NoCallback /\ SetDefault(cb, TRUE)
removeDefaultListener          == SetDefault(NoCallback, FALSE)
enableDefaultListener(enable)  == SetDefault(mDefaultCallback, enable)

----------------------------------------------------------------------------
(* Events, queued by normal code and by interrupts alike: atomic in both.   *)

QueueEvent(p, e) ==
  /\ queues' = [queues EXCEPT ![p] = queueEvent(@, e)]
  /\ UNCHANGED <<listVars, call, highDue, turn>>

\* processAllEvents() or processEvent() is called.
\* Defect: the low-priority events come first.
FaultyProcess(all) ==
  /\ call.pc = "app" /\ highDue' = queues["high"].num
  /\ call' = [InApp EXCEPT !.pc = "test", !.all = all, !.pri = "low"]
  /\ UNCHANGED <<queues, listVars, turn>>
Process(all) ==
  /\ call.pc = "app" /\ highDue' = queues["high"].num
  /\ call' = [InApp EXCEPT !.pc = "test", !.all = all]
  /\ UNCHANGED <<queues, listVars, turn>>

\* popEvent() looks for events while interrupts are on.
Test ==
  /\ call.pc = "test"
  /\ call' = IF ~isEmpty(queues[call.pri]) THEN [call EXCEPT !.pc = "pop"]
             ELSE IF call.pri = "high" THEN [call EXCEPT !.pri = "low"]
             ELSE InApp
  /\ UNCHANGED <<queues, listVars, highDue, turn>>

\* The rest of popEvent(), an atomic block.
Pop ==
  /\ call.pc = "pop"
  /\ LET p == call.pri
         e == front(queues[p])
     IN /\ queues' = [queues EXCEPT ![p] = popEvent(@)]
        /\ call'   = [call EXCEPT !.pc = "send", !.event = e, !.at = 0, !.handled = FALSE]
        /\ highDue' = IF p = "high" /\ highDue > 0 THEN highDue - 1 ELSE highDue
        /\ turn'   = [NoTurn EXCEPT !.owed = EnabledFor(mListeners, e.code)]
  /\ UNCHANGED listVars

Due(k) == /\ k > call.at /\ mListeners[k].eventCode = call.event.code
          /\ mListeners[k].enabled

\* sendEvent() calls the next listener; mNumListeners is read anew for each entry.
Invoke ==
  /\ call.pc = "send"
  /\ \E k \in DOMAIN mListeners :
       /\ Due(k) /\ \A j \in 1 .. k - 1 : ~Due(j)
       /\ call' = [call EXCEPT !.pc = "callback", !.at = k, !.handled = TRUE]
       /\ turn' = [turn EXCEPT !.told = @ \union {mListeners[k].callback}]
  /\ UNCHANGED <<queues, listVars, highDue>>

\* Defect: the loop ends with the first listener that takes the event.
FaultyAllCalled == call.handled \/ ~ \E k \in DOMAIN mListeners : Due(k)
AllCalled == ~ \E k \in DOMAIN mListeners : Due(k)

DefaultTakes == ~call.handled /\ mDefaultCallback # NoCallback /\ mDefaultCallbackEnabled

InvokeDefault ==
  /\ call.pc = "send" /\ AllCalled /\ DefaultTakes
  /\ call' = [call EXCEPT !.pc = "callback", !.at = kMaxListeners, !.handled = TRUE]
  /\ UNCHANGED <<queues, listVars, highDue, turn>>

Return ==
  /\ call.pc = "callback" /\ call' = [call EXCEPT !.pc = "send"]
  /\ UNCHANGED <<queues, listVars, highDue, turn>>

\* The event was offered to all; processEvent() takes a low-priority event when nobody
\* took the high-priority one.
Sent ==
  /\ call.pc = "send" /\ AllCalled /\ ~DefaultTakes
  /\ call' = IF call.all THEN [call EXCEPT !.pc = "test"]
             ELSE IF call.pri = "high" /\ ~call.handled
             THEN [call EXCEPT !.pc = "test", !.pri = "low"]
             ELSE InApp
  /\ turn' = NoTurn
  /\ UNCHANGED <<queues, listVars, highDue>>

Dispatch == Test \/ Pop \/ Invoke \/ InvokeDefault \/ Return \/ Sent

AppCalls ==
  \/ \E code \in Codes, cb \in Callbacks :
       \/ addListener(code, cb) \/ removeListener(code, cb)
       \/ \E enable \in BOOLEAN : enableListener(code, cb, enable)
  \/ \E cb \in Callbacks : removeListenerEverywhere(cb) \/ setDefaultListener(cb)
  \/ removeDefaultListener
  \/ \E enable \in BOOLEAN : enableDefaultListener(enable)

\* Interrupts queue events at any time.
EMNext == \/ Dispatch \/ AppCalls
          \/ \E all \in BOOLEAN : Process(all)
          \/ \E p \in Priorities, e \in Events : QueueEvent(p, e)

\* The event a queue handed out, while it is being sent.
Sending(p) == IF Dispatching /\ call.pri = p THEN <<call.event>> ELSE <<>>

High == INSTANCE EventFifo WITH
          Room <- kEventQueueSize, fifo <- Pending(queues["high"]), given <- Sending("high")
Low  == INSTANCE EventFifo WITH
          Room <- kEventQueueSize, fifo <- Pending(queues["low"]), given <- Sending("low")

----------------------------------------------------------------------------
\* EventManager.cpp:569 and :617: whatever interrupts queue between popEvent()'s test and
\* its atomic block, each queue hands out every accepted event once, in order of acceptance.
QueuesAreFifos == High!EFSpec /\ Low!EFSpec

\* EventManager.h:75, as far as the code keeps it: processAllEvents() gives no low-priority
\* event to a listener while a high-priority event waits that was there when it was called.
HighFirst == Dispatching /\ call.pri = "low" /\ call.all => highDue = 0

\* sendEvent() under calls its listeners make: a listener that stays registered and enabled
\* while an event is dispatched gets it, unless an entry at or before that of the listener
\* running was removed, which moves the next one out of the loop's way.
NobodySkipped == call.pc = "send" /\ AllCalled => turn.shifted \/ turn.owed \subseteq turn.told
=============================================================================
