------------------------------ MODULE Generator ------------------------------
(***************************************************************************)
(* protoc-gen-dlc-registry and the two lock files it keeps beside the      *)
(* schema (dlc-platform/cmd/protoc-gen-dlc-registry: main.go, events.go),  *)
(* as `make gen` and `dlc gen` run it: one plugin among several, all of    *)
(* which buf cancels when one fails.  The .proto files are edited freely   *)
(* between runs, so a run starts from any schema.  A run either writes the *)
(* whole generated tree or none of it, but writes its locks on the way.    *)
(***************************************************************************)
EXTENDS Naturals

CONSTANTS Method,    \* the rpcs, by full name (package.Service.Method)
          MethodId,  \* the ids an rpc may carry and a service may hold back
          Event,     \* the messages that may declare a topic, by full name
          Topic,
          Missing,               \* there is no lock file
          Undeclared, HostLocal  \* what a schema may say of an rpc instead

Reserved(i) == <<"[reserved]", i>>   \* the lock's name for a held-back id

VARIABLES
    idLock,     \* rows of method-ids.lock, or Missing
    topicLock,  \* rows of method-ids-topics.lock, or Missing
    generated,  \* the rows the generated code speaks
    promised    \* auxiliary: the rows that were generated and not let go since

genVars == <<idLock, topicLock, generated, promised>>

IdRow == (Method \X MethodId) \cup {<<Reserved(i), i>> : i \in MethodId}
TopicRow == Event \X Topic

ASSUME GeneratorAssumption ==
    /\ \A i \in MethodId : Reserved(i) \notin Method
    /\ Undeclared \notin MethodId \cup Topic
    /\ HostLocal \notin MethodId
    /\ \A rows \in SUBSET IdRow : rows # Missing
    /\ \A rows \in SUBSET TopicRow : rows # Missing

Rows == [ids : SUBSET IdRow, topics : SUBSET TopicRow]

\* A schema gives an rpc an id or makes it a host-local verb, which no lock
\* mentions; a service holds ids back; a message may declare a topic.
Schema == [ids : [Method -> MethodId \cup {Undeclared, HostLocal}],
           reserved : SUBSET MethodId,
           topics : [Event -> Topic \cup {Undeclared}]]

RowsOfAll(s) == {<<m, s.ids[m]>> : m \in {n \in Method : s.ids[n] # HostLocal}}
IdRows(s) == {<<m, s.ids[m]>> : m \in {n \in Method : s.ids[n] \in MethodId}}
             \cup {<<Reserved(i), i>> : i \in s.reserved}
TopicRows(s) == {<<e, s.topics[e]>> : e \in {f \in Event : s.topics[f] \in Topic}}
SchemaRows(s) == [ids |-> IdRows(s), topics |-> TopicRows(s)]

\* What DLC_ID_LOCK_UPDATE says: the id lock asks for "1", the topic lock for
\* anything but the empty string.
Blessing == {"", "1", "other"}

-----------------------------------------------------------------------------
(* The two guards *)

\* eventsOf(): no two messages of a file on one topic.
WellFormed(s) == \A e, f \in Event :
                     s.topics[e] \in Topic /\ s.topics[e] = s.topics[f] => e = f

\* servicesOf() and the head of checkLock(): no id is claimed by two names, a
\* reservation being a name like any other.
DistinctAmongMethods(rows) ==
    \A p, q \in rows : p[2] = q[2] /\ {p[1], q[1]} \subseteq Method => p = q
DistinctIds(rows) == \A p, q \in rows : p[2] = q[2] => p = q

\* The rows of a lock file; a missing one holds none.
Held(lock) == IF lock = Missing THEN {} ELSE lock

\* No row of the file was changed or removed.
ComparesShared(lock, rows) ==
    \A p \in Held(lock), q \in rows : p[1] = q[1] => p = q
Keeps(lock, rows) == Held(lock) \subseteq rows

IdLockAccepts(s, blessing) ==
    /\ DistinctIds(IdRows(s))
    /\ Keeps(idLock, IdRows(s)) \/ blessing = "1"

TopicLockAccepts(s, blessing) ==
    Keeps(topicLock, TopicRows(s)) \/ blessing # ""

\* The topic lock as checkTopicLock() leaves it: no file for no topics.
WrittenOnce(rows) == IF topicLock = Missing THEN rows ELSE topicLock
TopicLockAfter(rows) ==
    IF topicLock = Missing /\ rows = {} THEN Missing ELSE rows

\* Blessing a lock lets go of every promised row the schema no longer has, and
\* so does losing the lock's contents.
StillPromised(s, blessing) ==
    [ids    |-> IF blessing = "1" THEN promised.ids \cap IdRows(s) ELSE promised.ids,
     topics |-> promised.topics]
BothPromised(s, blessing) ==
    [ids    |-> StillPromised(s, blessing).ids,
     topics |-> IF blessing # "" THEN promised.topics \cap TopicRows(s)
                                 ELSE promised.topics]

-----------------------------------------------------------------------------
(* How a run ends.  A run that a check refuses before the id lock is written *)
(* changes nothing and is not an action.                                     *)

\* checkTopicLock() refuses after checkLock() has accepted and written.
TopicLockRefuses(s, blessing) ==
    /\ WellFormed(s) /\ IdLockAccepts(s, blessing)
    /\ ~TopicLockAccepts(s, blessing)
    /\ idLock' = IdRows(s)
    /\ promised' = StillPromised(s, blessing)
    /\ UNCHANGED <<topicLock, generated>>

\* Both locks are written and another plugin fails, or this one is stopped
\* before its response is read: buf writes no file.
NothingGenerated(s, blessing) ==
    /\ WellFormed(s) /\ IdLockAccepts(s, blessing) /\ TopicLockAccepts(s, blessing)
    /\ idLock' = IdRows(s)
    /\ topicLock' = TopicLockAfter(TopicRows(s))
    /\ promised' = BothPromised(s, blessing)
    /\ UNCHANGED generated

Succeed(s, blessing) ==
    /\ WellFormed(s) /\ IdLockAccepts(s, blessing) /\ TopicLockAccepts(s, blessing)
    /\ idLock' = IdRows(s)
    /\ topicLock' = TopicLockAfter(TopicRows(s))
    /\ generated' = SchemaRows(s)
    /\ LET old == BothPromised(s, blessing)
       IN  promised' = [ids    |-> old.ids \cup IdRows(s),
                        topics |-> old.topics \cup TopicRows(s)]

\* os.WriteFile() truncates before it writes: a run killed in between leaves an
\* empty file, which the next run reads as a lock of no rows.
KilledInIdLock(s, blessing) ==
    /\ WellFormed(s) /\ IdLockAccepts(s, blessing)
    /\ idLock # IdRows(s)
    /\ idLock' = {}
    /\ promised' = [promised EXCEPT !.ids = {}]
    /\ UNCHANGED <<topicLock, generated>>

KilledInTopicLock(s, blessing) ==
    /\ WellFormed(s) /\ IdLockAccepts(s, blessing) /\ TopicLockAccepts(s, blessing)
    /\ TopicLockAfter(TopicRows(s)) # Missing
    /\ idLock' = IdRows(s)
    /\ topicLock' = {}
    /\ promised' = [StillPromised(s, blessing) EXCEPT !.topics = {}]
    /\ UNCHANGED generated

GenInit ==
    /\ idLock = Missing /\ topicLock = Missing
    /\ generated = [ids |-> {}, topics |-> {}]
    /\ promised = [ids |-> {}, topics |-> {}]

GenNext == \E s \in Schema, blessing \in Blessing :
    \/ TopicLockRefuses(s, blessing)
    \/ NothingGenerated(s, blessing)
    \/ Succeed(s, blessing)
    \/ KilledInIdLock(s, blessing)
    \/ KilledInTopicLock(s, blessing)

GenSpec == GenInit /\ [][GenNext]_genVars

-----------------------------------------------------------------------------
GenTypeOK ==
    /\ Held(idLock) \subseteq IdRow
    /\ Held(topicLock) \subseteq TopicRow
    /\ generated \in Rows
    /\ promised \in Rows

\* What a generation promised, the next ones keep: every id and topic that was
\* generated, for a method in use or held back, is still spoken under the same
\* name by the latest generated code, whatever runs failed or were killed in
\* between, unless the developer blessed a change of its lock or the lock's
\* contents were lost (checkLock(), checkTopicLock()).
PromisesKept ==
    /\ promised.ids \subseteq generated.ids
    /\ promised.topics \subseteq generated.topics

\* No promised id ever means something else as well: one name has one id and one
\* id has one name in what was promised and what is generated, put together.
PromisedIdsUnambiguous ==
    \A p, q \in promised.ids \cup generated.ids : (p[1] = q[1]) <=> (p[2] = q[2])

\* The guard outlives a failed run: after any sequence of refused, cancelled and
\* killed runs the locks still hold every promised row, so the next run is
\* refused if it drops one without a blessing.
LocksGuardPromises ==
    /\ promised.ids \subseteq Held(idLock)
    /\ promised.topics \subseteq Held(topicLock)
=============================================================================
