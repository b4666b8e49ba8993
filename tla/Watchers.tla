------------------------------ MODULE Watchers ------------------------------
(***************************************************************************)
(* Views that follow something the worker changes: a file browser          *)
(* (dlc-platform/web/files.ts) that lists OPFS again after every flush, an *)
(* inspector (inspector.ts) that asks for the command surface again when   *)
(* the manifest moved.  Between them and the worker (worker.ts) stands the *)
(* page API (api.ts): one relay for each kind of signal, and a set of      *)
(* listeners it fans out to.  The kinds share nothing, so one is at work   *)
(* at a time.  Every re-read is asynchronous.                              *)
(***************************************************************************)
EXTENDS Naturals, Sequences, SequencesExt

CONSTANTS Views,     \* the views a page may mount
          MaxMoves,  \* bound: how often what they follow moves
          MaxReads   \* bound: the re-reads of a view under way

ASSUME WatchersAssumption == MaxMoves \in Nat /\ MaxReads \in Nat \ {0}

\* A flush takes time and may fail half-way; a manifest changes in one step.
Signals == {"flush", "environment"}

VARIABLES
    signal,     \* which kind of signal is at work
    fact,       \* what the views follow: odd while only half of a move is there
    whole,      \* fact after the last move that went through
    moving,     \* a flush is under way
    relay,      \* the relay: "none", "sent" to the worker, or "installed" there
    posted,     \* signals the worker posted and the page has not heard
    listeners,  \* the page's set of listeners, by view
    view,       \* view[v]: "absent", "subscribing", "mounted" or "destroyed"
    reads,      \* reads[v]: the re-reads under way, in the order asked
    shown       \* shown[v]: the fact v shows

\* Auxiliary: v has a known reason to be behind: a signal was not posted since the
\* relay was still on its way, an older answer came after a newer one, or a re-read
\* failed and no signal follows.  The next signal is to make up for it.  Upset: the
\* views that lost a re-read to the flush under way.
VARIABLES excused, upset

watchersVars == <<signal, fact, whole, moving, relay, posted, listeners,
                  view, reads, shown, excused, upset>>
workerVars == <<fact, whole, moving>>
viewVars == <<view, reads, shown>>

\* A re-read has found nothing yet (0) or fact f (f + 1).
Asked == [found |-> 0, overtaken |-> FALSE]
MayAsk(v) == Len(reads[v]) < MaxReads
\* The re-reads asked for before the i-th have been overtaken by it.
Overtaken(asked, i) ==
    [j \in DOMAIN asked |-> [asked[j] EXCEPT !.overtaken = asked[j].overtaken \/ j < i]]

-----------------------------------------------------------------------------
(* The views *)

\* mountFiles() with the page's first refresh(), mountInspector(): read once and
\* subscribe.  The first subscriber of the page sends the relay to the worker.
Mount(v) ==
    /\ view[v] = "absent"
    /\ view' = [view EXCEPT ![v] = "subscribing"]
    /\ listeners' = listeners \cup {v}
    /\ relay' = IF relay = "none" THEN "sent" ELSE relay
    /\ reads' = [reads EXCEPT ![v] = Append(reads[v], Asked)]
    /\ UNCHANGED <<signal, workerVars, posted, shown, excused, upset>>

\* The worker takes the relay for its one listener: onFlush(), subscribe().
Install ==
    /\ relay = "sent"
    /\ relay' = "installed"
    /\ UNCHANGED <<signal, workerVars, posted, listeners, viewVars, excused, upset>>

\* The subscription resolves and the view learns how to end it.
SubscribedAtOnce(v) ==
    /\ view[v] = "subscribing"
    /\ view' = [view EXCEPT ![v] = "mounted"]
    /\ UNCHANGED <<signal, workerVars, relay, posted, listeners, reads, shown, excused, upset>>
Subscribed(v) ==
    /\ view[v] = "subscribing" /\ relay = "installed"
    /\ view' = [view EXCEPT ![v] = "mounted"]
    /\ UNCHANGED <<signal, workerVars, relay, posted, listeners, reads, shown, excused, upset>>

\* destroy(): a view destroyed before it could subscribe stays a listener.  What it
\* still reads is shown nowhere, and left out.
Destroy(v) ==
    /\ view[v] \in {"subscribing", "mounted"}
    /\ view' = [view EXCEPT ![v] = "destroyed"]
    /\ listeners' = IF view[v] = "mounted" THEN listeners \ {v} ELSE listeners
    /\ reads' = [reads EXCEPT ![v] = <<>>]
    /\ shown' = [shown EXCEPT ![v] = 0]
    /\ excused' = [excused EXCEPT ![v] = FALSE]
    /\ upset' = upset \ {v}
    /\ UNCHANGED <<signal, workerVars, relay, posted>>

\* The relay's callback: every listener reads again.
Following(v) == view[v] \in {"subscribing", "mounted"}
HeardByOne == IF listeners = {} THEN {}
              ELSE {CHOOSE v \in listeners : TRUE} \cap {v \in Views : Following(v)}
HeardBy == {v \in listeners : Following(v)}
Hear ==
    /\ posted > 0
    /\ \A v \in HeardBy : MayAsk(v)
    /\ posted' = posted - 1
    /\ reads' = [v \in Views |-> IF v \in HeardBy THEN Append(reads[v], Asked) ELSE reads[v]]
    /\ excused' = [v \in Views |-> excused[v] /\ v \notin HeardBy]
    /\ UNCHANGED <<signal, workerVars, relay, listeners, view, shown, upset>>

\* listOPFSEntries() or the engine looks, sooner or later after it was asked,
Look(v, i) ==
    /\ i \in DOMAIN reads[v] /\ reads[v][i].found = 0
    /\ reads' = [reads EXCEPT ![v][i].found = fact + 1]
    /\ UNCHANGED <<signal, workerVars, relay, posted, listeners, view, shown, excused, upset>>

\* and the answer is shown.  Answers may come in any order.
Answer(v, i) ==
    /\ i \in DOMAIN reads[v] /\ reads[v][i].found > 0
    /\ shown' = [shown EXCEPT ![v] = reads[v][i].found - 1]
    /\ reads' = [reads EXCEPT ![v] = RemoveAt(Overtaken(reads[v], i), i)]
    /\ excused' = [excused EXCEPT ![v] = excused[v] \/ reads[v][i].overtaken]
    /\ UNCHANGED <<signal, workerVars, relay, posted, listeners, view, upset>>

\* A listing that meets a file the flush is pruning throws, and so may a command
\* that asks for the surface; nobody asks again.
Lose(v, i) ==
    /\ i \in DOMAIN reads[v] /\ reads[v][i].found = 0
    /\ moving \/ signal = "environment"
    /\ reads' = [reads EXCEPT ![v] = RemoveAt(reads[v], i)]
    /\ upset' = IF moving THEN upset \cup {v} ELSE upset
    /\ excused' = [excused EXCEPT ![v] = excused[v] \/ ~moving]
    /\ UNCHANGED <<signal, workerVars, relay, posted, listeners, view, shown>>

-----------------------------------------------------------------------------
(* The worker *)

\* Those who subscribed to a relay that is not there yet miss the signal.
Post ==
    IF relay = "installed"
    THEN posted' = posted + 1 /\ UNCHANGED excused
    ELSE /\ excused' = [v \in Views |-> excused[v] \/ Following(v)]
         /\ UNCHANGED posted

\* flush() has something to write, and half of it is there.
BeginFlush ==
    /\ signal = "flush" /\ ~moving
    /\ fact < 2 * MaxMoves
    /\ moving' = TRUE
    /\ fact' = 2 * (fact \div 2) + 1
    /\ UNCHANGED <<signal, whole, relay, posted, listeners, viewVars, excused, upset>>

\* The flush is done, and then signalled.
EndFlush ==
    /\ moving
    /\ moving' = FALSE
    /\ fact' = fact + 1
    /\ whole' = fact + 1
    /\ upset' = {}
    /\ Post
    /\ UNCHANGED <<signal, relay, listeners, viewVars>>

\* It fails half-way: execute() throws before it signals anything.
FailFlush ==
    /\ moving
    /\ moving' = FALSE
    /\ excused' = [v \in Views |-> excused[v] \/ v \in upset]
    /\ upset' = {}
    /\ UNCHANGED <<signal, fact, whole, relay, posted, listeners, viewVars>>

\* setEnvironment(): the engine announces the manifest once its surface is in line.
SetEnvironment ==
    /\ signal = "environment"
    /\ fact < 2 * MaxMoves
    /\ fact' = fact + 2
    /\ whole' = fact + 2
    /\ Post
    /\ UNCHANGED <<signal, moving, relay, listeners, viewVars, upset>>

WatchersInit ==
    /\ signal \in Signals
    /\ fact = 0 /\ whole = 0 /\ moving = FALSE
    /\ relay = "none" /\ posted = 0 /\ listeners = {}
    /\ view = [v \in Views |-> "absent"]
    /\ reads = [v \in Views |-> <<>>]
    /\ shown = [v \in Views |-> 0]
    /\ excused = [v \in Views |-> FALSE] /\ upset = {}

\* The page is left and opened again, with a worker of its own.
Leave ==
    /\ \E v \in Views : view[v] # "absent"
    /\ UNCHANGED signal
    /\ fact' = 0 /\ whole' = 0 /\ moving' = FALSE
    /\ relay' = "none" /\ posted' = 0 /\ listeners' = {}
    /\ view' = [v \in Views |-> "absent"]
    /\ reads' = [v \in Views |-> <<>>]
    /\ shown' = [v \in Views |-> 0]
    /\ excused' = [v \in Views |-> FALSE] /\ upset' = {}

WatchersNext ==
    \/ \E v \in Views : \/ Mount(v) \/ Subscribed(v) \/ Destroy(v)
                        \/ \E i \in 1..MaxReads : Look(v, i) \/ Answer(v, i) \/ Lose(v, i)
    \/ Install \/ Hear
    \/ BeginFlush \/ EndFlush \/ FailFlush \/ SetEnvironment
    \/ Leave

\* What the code has asked for comes about: the worker takes the messages it is
\* sent, the page those it is posted, and every operation on OPFS settles.
WatchersFairness ==
    /\ WF_watchersVars(Install) /\ WF_watchersVars(Hear)
    /\ WF_watchersVars(EndFlush \/ FailFlush)
    /\ \A v \in Views :
          /\ WF_watchersVars(\E i \in 1..MaxReads : Look(v, i) \/ Lose(v, i))
          /\ WF_watchersVars(\E i \in 1..MaxReads : Answer(v, i))
WatchersSpec == WatchersInit /\ [][WatchersNext]_watchersVars /\ WatchersFairness

-----------------------------------------------------------------------------
WatchersTypeOK ==
    /\ fact \in 0..(2 * MaxMoves) /\ whole \in {0} \cup {2 * n : n \in 1..MaxMoves}
    /\ posted \in 0..MaxMoves
    /\ \A v \in Views : /\ view[v] = "mounted" => v \in listeners /\ relay = "installed"
                        /\ Len(reads[v]) <= MaxReads
                        /\ shown[v] \in 0..fact

\* A view that is behind catches up, whatever other views came and went and however
\* its reads met the flushes, unless it is excused (api.ts: "a watcher told 'the
\* filesystem moved' must find it moved"; inspector.ts: "re-read when the facts
\* move").
ViewsCatchUp ==
    \A v \in Views : Following(v) /\ shown[v] < whole
                        ~> ~Following(v) \/ excused[v] \/ shown[v] >= whole
=============================================================================
