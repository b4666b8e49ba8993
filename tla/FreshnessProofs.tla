--------------------------- MODULE FreshnessProofs ---------------------------
(***************************************************************************)
(* Proofs that nothing old passes for new.  About Toolchain, for any       *)
(* projects, sections, tiers and flags, any number of callers and of       *)
(* edits: what is reported done is fresh.  About Watchers, for any number  *)
(* of views, of moves and of re-reads: no view that is behind is           *)
(* forgotten.                                                              *)
(***************************************************************************)
EXTENDS Toolchain, Watchers, SequenceTheorems, TLAPS

USE ToolchainAssumption

-----------------------------------------------------------------------------
(* The toolchain: the invariant *)

\* What a tool may read or leave behind.
Kinds == {"sources", "schema", "inherited", "dlc.toml"}
Value == SUBSET (((Kinds \X Projects) \X Nat) \cup Partial)

\* The places whose content is a file somebody edits, or the command has read.
Kept(place) == place[1] \in Kinds
CopyOf(r) == <<"platform_ts", r.project>>

StepsOf(r) ==
    { Step(Compiled(r), ComponentOf(r)), Step({}, AssetsOf(r)),
      Step({ComponentOf(r)}, AssetsOf(r)), Step({ComponentOf(r)}, CwasmOf(r)),
      Step(Compiled(r), BinaryOf(r)), Step({BinaryOf(r)}, ProgramOf(r)),
      Step({AssetsOf(r)}, ProgramOf(r)), Step({SchemaOf(r.project)}, GeneratedOf(r)),
      Step({InheritedOf(PlatformOf[r.project])}, CopyOf(r)),
      Step({SettingsOf(r.project)}, ConfigOf(r)) }
AllSteps == UNION {StepsOf(r) : r \in Requests}

Job == [request : Requests, todo : Seq(AllSteps), busy : BOOLEAN, read : Value,
        manifest : Value, since : [Projects -> Nat]]

\* What is at a place of d, a value of made.
At(d, place) == IF place \in DOMAIN d THEN d[place] ELSE Nothing

\* Of the request r, x is what its project (or the platform) was at some moment
\* since the command was given (since), up to now (e), with what gen has left in d.
FreshFor(r, place, since, e, d, x) ==
    LET o == Origin(r, place)
    IN  \E v \in since[o[2]]..e[o[2]] :
           x = {<<o, v>>} \cup UNION {At(d, q) : q \in Besides(r, place)}

\* Of job k: its plan, how much of it is done, and that the rest is before it.
PlanOf(k) == Plan(k.request)
DoneOf(k) == Len(PlanOf(k)) - Len(k.todo)
OnPlan(k) ==
    /\ Len(k.todo) \in 1..Len(PlanOf(k))
    /\ \A i \in 1..Len(k.todo) : k.todo[i] = PlanOf(k)[DoneOf(k) + i]

\* The number e of the edits only grows, and the manifest was read since.
GivenSince(k, e) ==
    /\ \A p \in Projects : k.since[p] <= e[p]
    /\ \E v \in k.since[k.request.project]..e[k.request.project] :
          k.manifest = {<<SettingsOf(k.request.project), v>>}

\* What the tools of k have done is fresh (d are the places), and so is what the
\* tool at work has read; clearing is not done yet.
FreshSoFar(k, d, e) ==
    /\ \A i \in 1..DoneOf(k) :
          PlanOf(k)[i].from # {} =>
              FreshFor(k.request, PlanOf(k)[i].to, k.since, e, d, At(d, PlanOf(k)[i].to))
    /\ k.busy /\ k.todo[1].from # {} =>
          FreshFor(k.request, k.todo[1].to, k.since, e, d, k.read)

\* No tool of l writes where k reads or writes.
Apart(k, l) == Outputs(l.request) \cap Uses(k.request) = {}

JobInv(c) ==
    Running(c) =>
        /\ job[c] \in Job /\ OnPlan(job[c]) /\ GivenSince(job[c], edits)
        /\ ~met[c] =>
              /\ FreshSoFar(job[c], made, edits)
              /\ \A d \in Callers : d # c /\ Running(d) => Apart(job[c], job[d])

TInv ==
    /\ edits \in [Projects -> Nat]
    /\ \A place \in DOMAIN made : made[place] \in Value
    /\ job \in [Callers -> Job \cup {Off}]
    /\ met \in [Callers -> BOOLEAN]
    /\ \A c \in Callers : JobInv(c)

-----------------------------------------------------------------------------
(* The toolchain: plans *)

\* Step s reads what is edited for the place it fills, and what gen has left for it.
FromOrigin(r, s) ==
    LET o == Origin(r, s.to)
    IN  /\ o[2] \in Projects
        /\ o[1] = "dlc.toml" => o = SettingsOf(r.project)
        /\ Kept(o) /\ o = <<o[1], o[2]>>
        /\ s.from = {o} \cup Besides(r, s.to)
\* It reads what step j, for an artefact of the same origin, has filled.
FromEarlier(r, P, i) ==
    \E j \in 1..(i - 1) :
        /\ ~Kept(P[j].to) /\ P[i].from = {P[j].to} /\ P[j].from # {}
        /\ Origin(r, P[j].to) = Origin(r, P[i].to) /\ Origin(r, P[i].to)[2] \in Projects
        /\ Besides(r, P[j].to) = Besides(r, P[i].to)
Clears(P, i) ==
    /\ P[i].from = {}
    /\ \A j \in 1..(i - 1) : P[j].to # P[i].to
    /\ \E j \in 1..Len(P) : P[j].to = P[i].to /\ P[j].from # {}

\* Every step of the plan P reads what is edited or what an earlier step has filled;
\* a place is cleared before it is filled, and not left so.  No step fills what goes
\* into another.
WellMade(r, P) ==
    /\ P \in Seq(AllSteps)
    /\ \A i \in 1..Len(P) : FromOrigin(r, P[i]) \/ FromEarlier(r, P, i) \/ Clears(P, i)
    /\ \A i, j \in 1..Len(P) : P[i].to \notin Besides(r, P[j].to)
    /\ \A i \in 1..Len(P) : \A q \in Besides(r, P[i].to) :
          ~Kept(q) /\ \E j \in 1..Len(P) : q \in P[j].from

LEMMA Joined ==
    ASSUME NEW S, NEW s \in Seq(S), NEW t \in Seq(S)
    PROVE  /\ s \o t \in Seq(S) /\ Len(s \o t) = Len(s) + Len(t)
           /\ \A i \in 1..Len(s) : (s \o t)[i] = s[i]
           /\ \A i \in 1..Len(t) : (s \o t)[Len(s) + i] = t[i]
  BY ConcatProperties

LEMMA Longer ==
    ASSUME NEW S, NEW s, NEW x, s \in Seq(S), x \in S
    PROVE  LET u == s \o <<x>>
           IN  /\ u \in Seq(S) /\ Len(u) = Len(s) + 1
               /\ \A i \in 1..Len(s) : u[i] = s[i]
               /\ u[Len(s) + 1] = x
  <1>1. s \o <<x>> = Append(s, x)
    OBVIOUS
  <1>. QED  BY <1>1

LEMMA One ==
    ASSUME NEW S, NEW x \in S
    PROVE  <<x>> \in Seq(S) /\ Len(<<x>>) = 1 /\ <<x>>[1] = x
  OBVIOUS

LEMMA Wider ==
    ASSUME NEW S, NEW T, S \subseteq T, NEW s \in Seq(S)
    PROVE  s \in Seq(T) /\ \A i \in 1..Len(s) : s[i] \in S
  OBVIOUS

\* The artefacts of builds and runs.
Artefacts(r) == {ComponentOf(r), AssetsOf(r), CwasmOf(r), BinaryOf(r), ProgramOf(r)}

LEMMA ProjectOf ==
    ASSUME NEW r \in Requests
    PROVE  r.project \in Projects
  BY DEF Requests

LEMMA ArtefactKinds ==
    ASSUME NEW r
    PROVE  /\ ComponentOf(r)[1] = "component" /\ AssetsOf(r)[1] = "assets"
           /\ CwasmOf(r)[1] = "cwasm" /\ BinaryOf(r)[1] = "binary" /\ ProgramOf(r)[1] = "program"
  BY DEF ComponentOf, AssetsOf, CwasmOf, BinaryOf, ProgramOf

\* An artefact is of the sources and of what gen has left, and is neither.
LEMMA OfArtefacts ==
    ASSUME NEW r \in Requests, NEW place \in Artefacts(r)
    PROVE  /\ Origin(r, place) = SourcesOf(r.project)
           /\ Besides(r, place) = {GeneratedOf(r), ConfigOf(r)}
           /\ ~Kept(place) /\ place \notin {GeneratedOf(r), ConfigOf(r)}
  <1>1. place[1] \in {"component", "assets", "cwasm", "binary", "program"}
    BY ArtefactKinds DEF Artefacts
  <1>2. place[1] \notin {"generated", "config", "platform_ts"} /\ place[1] \notin Kinds
    BY <1>1 DEF Kinds
  <1>3. GeneratedOf(r)[1] = "generated" /\ ConfigOf(r)[1] = "config"
    BY DEF GeneratedOf, ConfigOf
  <1>4. place \notin {GeneratedOf(r), ConfigOf(r)}
    BY <1>2, <1>3
  <1>5. Origin(r, place) = SourcesOf(r.project)
    <2> HIDE DEF SourcesOf, SchemaOf, SettingsOf, InheritedOf
    <2>. QED  BY <1>2 DEF Origin
  <1>6. Besides(r, place) = {GeneratedOf(r), ConfigOf(r)}
    BY <1>2 DEF Besides
  <1>. QED  BY <1>2, <1>4, <1>5, <1>6 DEF Kept

LEMMA OfGen ==
    ASSUME NEW r \in Requests
    PROVE  /\ Origin(r, GeneratedOf(r)) = SchemaOf(r.project) /\ Besides(r, GeneratedOf(r)) = {}
           /\ Origin(r, ConfigOf(r)) = SettingsOf(r.project) /\ Besides(r, ConfigOf(r)) = {}
           /\ Origin(r, CopyOf(r)) = InheritedOf(PlatformOf[r.project])
           /\ Besides(r, CopyOf(r)) = {}
           /\ ~Kept(GeneratedOf(r)) /\ ~Kept(ConfigOf(r))
  <1>1. /\ GeneratedOf(r)[1] = "generated" /\ ConfigOf(r)[1] = "config"
        /\ CopyOf(r)[1] = "platform_ts"
    BY DEF GeneratedOf, ConfigOf, CopyOf
  <1>2. Besides(r, GeneratedOf(r)) = {} /\ Besides(r, ConfigOf(r)) = {} /\ Besides(r, CopyOf(r)) = {}
    BY <1>1 DEF Besides
  <1>3. Origin(r, GeneratedOf(r)) = SchemaOf(r.project)
    BY <1>1 DEF Origin
  <1>4. Origin(r, ConfigOf(r)) = SettingsOf(r.project)
    BY <1>1 DEF Origin
  <1>5. Origin(r, CopyOf(r)) = InheritedOf(PlatformOf[r.project])
    BY <1>1 DEF Origin
  <1>6. ~Kept(GeneratedOf(r)) /\ ~Kept(ConfigOf(r))
    BY <1>1 DEF Kept, Kinds
  <1>. QED  BY <1>2, <1>3, <1>4, <1>5, <1>6

LEMMA KeptPlaces ==
    ASSUME NEW p \in Projects
    PROVE  \A o \in {SourcesOf(p), SchemaOf(p), SettingsOf(p), InheritedOf(p)} :
              /\ o[2] = p /\ o = <<o[1], o[2]>> /\ Kept(o)
              /\ o[1] = "dlc.toml" => o = SettingsOf(p)
  <1>1. /\ SourcesOf(p)[1] = "sources" /\ SchemaOf(p)[1] = "schema"
        /\ SettingsOf(p)[1] = "dlc.toml" /\ InheritedOf(p)[1] = "inherited"
    BY DEF SourcesOf, SchemaOf, SettingsOf, InheritedOf
  <1>2. \A o \in {SourcesOf(p), SchemaOf(p), SettingsOf(p), InheritedOf(p)} :
           o[2] = p /\ o = <<o[1], o[2]>>
    BY DEF SourcesOf, SchemaOf, SettingsOf, InheritedOf
  <1>3. \A o \in {SourcesOf(p), SchemaOf(p), SettingsOf(p), InheritedOf(p)} : o[1] \in Kinds
    BY <1>1 DEF Kinds
  <1>4. \A o \in {SourcesOf(p), SchemaOf(p), SettingsOf(p), InheritedOf(p)} :
           o[1] = "dlc.toml" => o = SettingsOf(p)
    BY <1>1
  <1>. QED  BY <1>2, <1>3, <1>4 DEF Kept

LEMMA StepFields ==
    ASSUME NEW from, NEW to
    PROVE  Step(from, to).from = from /\ Step(from, to).to = to
  BY DEF Step

LEMMA StepsAreSteps ==
    ASSUME NEW r \in Requests, NEW s \in StepsOf(r)
    PROVE  s \in AllSteps
  BY DEF AllSteps

LEMMA ComponentPlan ==
    ASSUME NEW r \in Requests
    PROVE  /\ BuildComponent(r) \in Seq(AllSteps) /\ Len(BuildComponent(r)) = 1
           /\ BuildComponent(r)[1] = Step(Compiled(r), ComponentOf(r))
  <1>1. Step(Compiled(r), ComponentOf(r)) \in AllSteps
    BY StepsAreSteps DEF StepsOf
  <1>. QED  BY <1>1 DEF BuildComponent

LEMMA WebPlan ==
    ASSUME NEW r \in Requests
    PROVE  /\ BuildWeb(r) \in Seq(AllSteps) /\ Len(BuildWeb(r)) = 3
           /\ BuildWeb(r)[1] = Step(Compiled(r), ComponentOf(r))
           /\ BuildWeb(r)[2] = Step({}, AssetsOf(r))
           /\ BuildWeb(r)[3] = Step({ComponentOf(r)}, AssetsOf(r))
  <1> DEFINE t == << Step({}, AssetsOf(r)), Step({ComponentOf(r)}, AssetsOf(r)) >>
  <1>1. Step({}, AssetsOf(r)) \in AllSteps /\ Step({ComponentOf(r)}, AssetsOf(r)) \in AllSteps
    BY StepsAreSteps DEF StepsOf
  <1>2. /\ t \in Seq(AllSteps) /\ Len(t) = 2
        /\ t[1] = Step({}, AssetsOf(r)) /\ t[2] = Step({ComponentOf(r)}, AssetsOf(r))
    BY <1>1
  <1>3. BuildWeb(r) = BuildComponent(r) \o t
    BY DEF BuildWeb
  <1> HIDE DEF t
  <1>4. 1 \in 1..1 /\ 1 \in 1..2 /\ 2 \in 1..2 /\ 1 + 1 = 2 /\ 1 + 2 = 3
    OBVIOUS
  <1>. QED  BY <1>2, <1>3, <1>4, ComponentPlan, Joined

LEMMA EmbeddedPlan ==
    ASSUME NEW r \in Requests
    PROVE  /\ BuildEmbedded(r) \in Seq(AllSteps) /\ Len(BuildEmbedded(r)) = 2
           /\ BuildEmbedded(r)[1] = Step(Compiled(r), ComponentOf(r))
           /\ BuildEmbedded(r)[2] = Step({ComponentOf(r)}, CwasmOf(r))
  <1> DEFINE t == << Step({ComponentOf(r)}, CwasmOf(r)) >>
  <1>1. Step({ComponentOf(r)}, CwasmOf(r)) \in AllSteps
    BY StepsAreSteps DEF StepsOf
  <1>2. t \in Seq(AllSteps) /\ Len(t) = 1 /\ t[1] = Step({ComponentOf(r)}, CwasmOf(r))
    BY <1>1
  <1>3. BuildEmbedded(r) = BuildComponent(r) \o t
    BY DEF BuildEmbedded
  <1> HIDE DEF t
  <1>4. 1 \in 1..1 /\ 1 + 1 = 2
    OBVIOUS
  <1>. QED  BY <1>2, <1>3, <1>4, ComponentPlan, Joined

LEMMA NativePlan ==
    ASSUME NEW r \in Requests
    PROVE  /\ RunNative(r) \in Seq(AllSteps) /\ Len(RunNative(r)) = 2
           /\ RunNative(r)[1] = Step(Compiled(r), BinaryOf(r))
           /\ RunNative(r)[2] = Step({BinaryOf(r)}, ProgramOf(r))
  <1>1. /\ Step(Compiled(r), BinaryOf(r)) \in AllSteps
        /\ Step({BinaryOf(r)}, ProgramOf(r)) \in AllSteps
    BY StepsAreSteps DEF StepsOf
  <1>. QED  BY <1>1 DEF RunNative

LEMMA RunWebPlan ==
    ASSUME NEW r \in Requests
    PROVE  /\ RunWeb(r) \in Seq(AllSteps) /\ Len(RunWeb(r)) = 4
           /\ \A i \in 1..3 : RunWeb(r)[i] = BuildWeb(r)[i]
           /\ RunWeb(r)[4] = Step({AssetsOf(r)}, ProgramOf(r))
  <1> DEFINE w == BuildWeb(r)
             x == Step({AssetsOf(r)}, ProgramOf(r))
             u == RunWeb(r)
  <1>1. x \in AllSteps
    BY StepsAreSteps DEF StepsOf
  <1>2. w \in Seq(AllSteps)
    BY WebPlan
  <1>3. u = w \o <<x>>
    BY DEF RunWeb
  <1> HIDE DEF w, x, u
  <1>4. /\ u \in Seq(AllSteps) /\ Len(u) = Len(w) + 1
        /\ \A i \in 1..Len(w) : u[i] = w[i]
        /\ u[Len(w) + 1] = x
    BY <1>1, <1>2, <1>3, Longer
  <1>5. Len(w) = 3
    BY WebPlan DEF w
  <1>. QED  BY <1>4, <1>5 DEF w, x, u

\* The steps of gen: each reads one thing that is edited.
GenSteps(r) ==
    { s \in AllSteps :
        \/ s = Step({SchemaOf(r.project)}, GeneratedOf(r))
        \/ /\ PlatformOf[r.project] \in InheritedTS
           /\ s = Step({InheritedOf(PlatformOf[r.project])}, CopyOf(r))
        \/ s = Step({SettingsOf(r.project)}, ConfigOf(r)) }

LEMMA GenPlan ==
    ASSUME NEW r \in Requests
    PROVE  Gen(r) \in Seq(AllSteps) /\ \A i \in 1..Len(Gen(r)) : Gen(r)[i] \in GenSteps(r)
  <1> DEFINE S == GenSteps(r)
             g == << Step({SchemaOf(r.project)}, GeneratedOf(r)) >>
             m == << Step({SettingsOf(r.project)}, ConfigOf(r)) >>
  <1>1. /\ Step({SchemaOf(r.project)}, GeneratedOf(r)) \in AllSteps
        /\ Step({InheritedOf(PlatformOf[r.project])}, CopyOf(r)) \in AllSteps
        /\ Step({SettingsOf(r.project)}, ConfigOf(r)) \in AllSteps
    BY StepsAreSteps DEF StepsOf
  <1>2. g \in Seq(S) /\ m \in Seq(S)
    <2>1. /\ Step({SchemaOf(r.project)}, GeneratedOf(r)) \in S
          /\ Step({SettingsOf(r.project)}, ConfigOf(r)) \in S
      BY <1>1 DEF GenSteps
    <2>. QED  BY <2>1, One
  <1>3. CopyPlatformTS(r) \in Seq(S)
    <2>1. CASE r.project \in DOMAIN PlatformOf /\ PlatformOf[r.project] \in InheritedTS
      <3>1. Step({InheritedOf(PlatformOf[r.project])}, CopyOf(r)) \in S
        BY <1>1, <2>1 DEF GenSteps
      <3>2. CopyPlatformTS(r) = << Step({InheritedOf(PlatformOf[r.project])}, CopyOf(r)) >>
        BY <2>1 DEF CopyPlatformTS, CopyOf
      <3>. QED  BY <3>1, <3>2, One
    <2>2. CASE ~(r.project \in DOMAIN PlatformOf /\ PlatformOf[r.project] \in InheritedTS)
      <3>1. CopyPlatformTS(r) = <<>>
        BY <2>2 DEF CopyPlatformTS
      <3>. QED  BY <3>1
    <2>. QED  BY <2>1, <2>2
  <1>4. Gen(r) \in Seq(S)
    <2>1. Gen(r) = (g \o CopyPlatformTS(r)) \o m
      BY DEF Gen
    <2> HIDE DEF S, g, m
    <2>. QED  BY <1>2, <1>3, <2>1, Joined
  <1>5. S \subseteq AllSteps
    BY DEF GenSteps
  <1> HIDE DEF S
  <1>6. Gen(r) \in Seq(AllSteps) /\ \A i \in 1..Len(Gen(r)) : Gen(r)[i] \in S
    BY <1>4, <1>5, Wider
  <1>. QED  BY <1>6 DEF S

LEMMA GenWellMade ==
    ASSUME NEW r \in Requests
    PROVE  WellMade(r, Gen(r))
  <1> DEFINE P == Gen(r)
  <1>1. P \in Seq(AllSteps) /\ \A i \in 1..Len(P) : P[i] \in GenSteps(r)
    BY GenPlan
  <1>2. ASSUME NEW s \in GenSteps(r)
        PROVE  FromOrigin(r, s) /\ Besides(r, s.to) = {}
    <2>1. CASE s = Step({SchemaOf(r.project)}, GeneratedOf(r))
      <3>1. s.from = {SchemaOf(r.project)} /\ s.to = GeneratedOf(r)
        BY <2>1, StepFields
      <3>2. Origin(r, s.to) = SchemaOf(r.project) /\ Besides(r, s.to) = {}
        BY <3>1, OfGen
      <3>. QED  BY <3>1, <3>2, ProjectOf, KeptPlaces DEF FromOrigin
    <2>2. CASE /\ PlatformOf[r.project] \in InheritedTS
               /\ s = Step({InheritedOf(PlatformOf[r.project])}, CopyOf(r))
      <3> DEFINE q == PlatformOf[r.project]
      <3>1. s.from = {InheritedOf(q)} /\ s.to = CopyOf(r) /\ q \in Projects
        BY <2>2, StepFields, ToolchainAssumption
      <3>2. Origin(r, s.to) = InheritedOf(q) /\ Besides(r, s.to) = {}
        BY <3>1, OfGen
      <3>3. InheritedOf(q)[1] # "dlc.toml"
        BY DEF InheritedOf
      <3>. QED  BY <3>1, <3>2, <3>3, KeptPlaces DEF FromOrigin
    <2>3. CASE s = Step({SettingsOf(r.project)}, ConfigOf(r))
      <3>1. s.from = {SettingsOf(r.project)} /\ s.to = ConfigOf(r)
        BY <2>3, StepFields
      <3>2. Origin(r, s.to) = SettingsOf(r.project) /\ Besides(r, s.to) = {}
        BY <3>1, OfGen
      <3>. QED  BY <3>1, <3>2, ProjectOf, KeptPlaces DEF FromOrigin
    <2>. QED  BY <2>1, <2>2, <2>3 DEF GenSteps
  <1> HIDE DEF P
  <1>3. \A i \in 1..Len(P) : FromOrigin(r, P[i]) /\ Besides(r, P[i].to) = {}
    BY <1>1, <1>2
  <1>4. WellMade(r, P)
    BY <1>1, <1>3 DEF WellMade
  <1>. QED  BY <1>4 DEF P

\* A plan that compiles first and makes nothing but artefacts.
LEMMA CompilesFirst ==
    ASSUME NEW r \in Requests, NEW P \in Seq(AllSteps), Len(P) >= 1,
           P[1].from = Compiled(r), \A i \in 1..Len(P) : P[i].to \in Artefacts(r),
           \A i \in 2..Len(P) :
               Clears(P, i) \/ \E j \in 1..(i - 1) : P[i].from = {P[j].to} /\ P[j].from # {}
    PROVE  WellMade(r, P)
  <1>1. \A i \in 1..Len(P) :
           /\ Origin(r, P[i].to) = SourcesOf(r.project)
           /\ Besides(r, P[i].to) = {GeneratedOf(r), ConfigOf(r)}
           /\ ~Kept(P[i].to) /\ P[i].to \notin {GeneratedOf(r), ConfigOf(r)}
    BY OfArtefacts
  <1>2. /\ SourcesOf(r.project)[2] \in Projects /\ Kept(SourcesOf(r.project))
        /\ SourcesOf(r.project) = <<SourcesOf(r.project)[1], SourcesOf(r.project)[2]>>
        /\ SourcesOf(r.project)[1] = "dlc.toml" => SourcesOf(r.project) = SettingsOf(r.project)
    BY ProjectOf, KeptPlaces
  <1>3. Compiled(r) = {SourcesOf(r.project)} \cup {GeneratedOf(r), ConfigOf(r)}
    BY DEF Compiled
  <1>4. 1 \in 1..Len(P)
    OBVIOUS
  <1>5. FromOrigin(r, P[1])
    BY <1>1, <1>2, <1>3, <1>4 DEF FromOrigin
  <1>6. ASSUME NEW i \in 2..Len(P), NEW j \in 1..(i - 1), P[i].from = {P[j].to}, P[j].from # {}
        PROVE  FromEarlier(r, P, i)
    <2>1. i \in 1..Len(P) /\ j \in 1..Len(P)
      OBVIOUS
    <2>. QED  BY <1>1, <1>2, <1>6, <2>1 DEF FromEarlier
  <1>7. \A i \in 1..Len(P) : i = 1 \/ i \in 2..Len(P)
    OBVIOUS
  <1>8. \A i \in 1..Len(P) : FromOrigin(r, P[i]) \/ FromEarlier(r, P, i) \/ Clears(P, i)
    BY <1>5, <1>6, <1>7
  <1>9. \A i \in 1..Len(P) : \A q \in Besides(r, P[i].to) :
            ~Kept(q) /\ \E j \in 1..Len(P) : q \in P[j].from
    <2>1. GeneratedOf(r) \in P[1].from /\ ConfigOf(r) \in P[1].from
      BY <1>3
    <2>2. ~Kept(GeneratedOf(r)) /\ ~Kept(ConfigOf(r))
      BY OfGen
    <2>3. \A i \in 1..Len(P) : \A q \in Besides(r, P[i].to) : q = GeneratedOf(r) \/ q = ConfigOf(r)
      BY <1>1
    <2>. QED  BY <1>4, <2>1, <2>2, <2>3
  <1>10. \A i, j \in 1..Len(P) : P[i].to \notin Besides(r, P[j].to)
    BY <1>1
  <1>. QED  BY <1>8, <1>9, <1>10 DEF WellMade

LEMMA ThreeOrFour ==
    ASSUME NEW n \in {3, 4}
    PROVE  /\ \A i \in 1..n : i = 1 \/ i = 2 \/ i = 3 \/ (i = 4 /\ n = 4)
           /\ \A i \in 2..n : i = 2 \/ i = 3 \/ (i = 4 /\ n = 4)
           /\ n >= 1 /\ 3 \in 1..n /\ 1 \in 1..(3 - 1) /\ 3 \in 1..(4 - 1)
  OBVIOUS

LEMMA WebWellMade ==
    ASSUME NEW r \in Requests, NEW P \in Seq(AllSteps), Len(P) \in {3, 4},
           \A i \in 1..3 : P[i] = BuildWeb(r)[i],
           Len(P) = 4 => P[4] = Step({AssetsOf(r)}, ProgramOf(r))
    PROVE  WellMade(r, P)
  <1>1. 1 \in 1..3 /\ 2 \in 1..3 /\ 3 \in 1..3
    OBVIOUS
  <1>2. /\ P[1] = Step(Compiled(r), ComponentOf(r))
        /\ P[2] = Step({}, AssetsOf(r)) /\ P[3] = Step({ComponentOf(r)}, AssetsOf(r))
    BY <1>1, WebPlan
  <1>3. /\ P[1].from = Compiled(r) /\ P[1].to = ComponentOf(r)
        /\ P[2].from = {} /\ P[2].to = AssetsOf(r)
        /\ P[3].from = {ComponentOf(r)} /\ P[3].to = AssetsOf(r)
        /\ Len(P) = 4 => P[4].from = {AssetsOf(r)} /\ P[4].to = ProgramOf(r)
    BY <1>2, StepFields
  <1>4. \A i \in 1..Len(P) : P[i].to \in Artefacts(r)
    <2>1. \A i \in 1..Len(P) : i = 1 \/ i = 2 \/ i = 3 \/ (i = 4 /\ Len(P) = 4)
      BY ThreeOrFour
    <2>. QED  BY <1>3, <2>1 DEF Artefacts
  <1>5. Clears(P, 2)
    <2>1. ComponentOf(r) # AssetsOf(r)
      BY ArtefactKinds
    <2>2. \A j \in 1..(2 - 1) : j = 1
      OBVIOUS
    <2>3. 3 \in 1..Len(P)
      BY ThreeOrFour
    <2>. QED  BY <1>3, <2>1, <2>2, <2>3 DEF Clears
  <1>6. P[1].from # {}
    BY <1>3 DEF Compiled
  <1>7. 1 \in 1..(3 - 1) /\ 3 \in 1..(4 - 1) /\ \A i \in 2..Len(P) :
            i = 2 \/ i = 3 \/ (i = 4 /\ Len(P) = 4)
    BY ThreeOrFour
  <1>8. \A i \in 2..Len(P) :
           Clears(P, i) \/ \E j \in 1..(i - 1) : P[i].from = {P[j].to} /\ P[j].from # {}
    BY <1>3, <1>5, <1>6, <1>7
  <1>9. Len(P) >= 1
    BY ThreeOrFour
  <1>. QED  BY <1>3, <1>4, <1>8, <1>9, CompilesFirst

LEMMA TwoSteps ==
    ASSUME NEW r \in Requests, NEW P \in Seq(AllSteps), Len(P) = 2,
           NEW place \in {ComponentOf(r), BinaryOf(r)},
           NEW goal \in {CwasmOf(r), ProgramOf(r)},
           P[1] = Step(Compiled(r), place), P[2] = Step({place}, goal)
    PROVE  WellMade(r, P)
  <1>1. /\ P[1].from = Compiled(r) /\ P[1].to = place
        /\ P[2].from = {place} /\ P[2].to = goal
    BY StepFields
  <1>2. P[1].from # {}
    BY <1>1 DEF Compiled
  <1>3. /\ \A i \in 1..Len(P) : i = 1 \/ i = 2
        /\ \A i \in 2..Len(P) : i = 2
        /\ 1 \in 1..(2 - 1) /\ Len(P) >= 1
    OBVIOUS
  <1>4. \A i \in 1..Len(P) : P[i].to \in Artefacts(r)
    BY <1>1, <1>3 DEF Artefacts
  <1>5. \A i \in 2..Len(P) : \E j \in 1..(i - 1) : P[i].from = {P[j].to} /\ P[j].from # {}
    BY <1>1, <1>2, <1>3
  <1>. QED  BY <1>1, <1>3, <1>4, <1>5, CompilesFirst

\* Whatever is asked, a plan that is not refused is well made.
LEMMA PlansAreWellMade ==
    ASSUME NEW r \in Requests
    PROVE  WellMade(r, Plan(r)) /\ Len(Plan(r)) \in Nat
  <1>1. Plan(r) \in {<<>>, Gen(r), RunNative(r), RunWeb(r), BuildWeb(r), BuildEmbedded(r)}
    BY DEF Plan
  <1>2. WellMade(r, RunNative(r))
    BY NativePlan, TwoSteps
  <1>3. WellMade(r, BuildEmbedded(r))
    BY EmbeddedPlan, TwoSteps
  <1>4. WellMade(r, <<>>)
    <2>1. <<>> \in Seq(AllSteps) /\ Len(<<>>) = 0 /\ 1..0 = {}
      OBVIOUS
    <2>. QED  BY <2>1 DEF WellMade
  <1>5. WellMade(r, BuildWeb(r))
    <2>1. BuildWeb(r) \in Seq(AllSteps) /\ Len(BuildWeb(r)) = 3
      BY WebPlan
    <2>2. 3 # 4 /\ 3 \in {3, 4}
      OBVIOUS
    <2>. QED  BY <2>1, <2>2, WebWellMade
  <1>6. WellMade(r, RunWeb(r))
    <2>1. /\ RunWeb(r) \in Seq(AllSteps) /\ Len(RunWeb(r)) = 4 /\ 4 \in {3, 4}
          /\ RunWeb(r)[4] = Step({AssetsOf(r)}, ProgramOf(r))
          /\ \A i \in 1..3 : RunWeb(r)[i] = BuildWeb(r)[i]
      BY RunWebPlan
    <2>. QED  BY <2>1, WebWellMade
  <1>7. WellMade(r, Plan(r))
    BY <1>1, <1>2, <1>3, <1>4, <1>5, <1>6, GenWellMade
  <1>. QED  BY <1>7 DEF WellMade

-----------------------------------------------------------------------------
(* The toolchain: jobs *)

LEMMA Rest == Off.todo = <<>> /\ Off \in Job \cup {Off}
  BY DEF Off

LEMMA OneJobMoves ==
    ASSUME TInv, NEW c \in Callers, NEW k \in Job \cup {Off}, job' = [job EXCEPT ![c] = k]
    PROVE  /\ job' \in [Callers -> Job \cup {Off}] /\ job'[c] = k
           /\ \A d \in Callers : d # c => job'[d] = job[d] /\ (Running(d)' <=> Running(d))
  BY DEF TInv, Running

LEMMA Commanded ==
    ASSUME NEW r \in Requests, NEW todo \in Seq(AllSteps), NEW e \in [Projects -> Nat],
           NEW m \in Value
    PROVE  LET k == [request |-> r, todo |-> todo, busy |-> FALSE, read |-> Nothing,
                     manifest |-> m, since |-> e]
           IN  k \in Job /\ k.request = r /\ k.todo = todo /\ k.busy = FALSE
                 /\ k.manifest = m /\ k.since = e
  <1>1. Nothing \in Value
    BY DEF Nothing, Value
  <1>. QED  BY <1>1 DEF Job

Started(k, x) == [k EXCEPT !.busy = TRUE, !.read = x]
Ended(k, todo) == [k EXCEPT !.todo = todo, !.busy = FALSE]

LEMMA StartedFields ==
    ASSUME NEW k \in Job, NEW x \in Value
    PROVE  LET l == Started(k, x)
           IN  l \in Job /\ l.request = k.request /\ l.todo = k.todo /\ l.busy = TRUE
                 /\ l.read = x /\ l.manifest = k.manifest /\ l.since = k.since
  BY DEF Job, Started

LEMMA EndedFields ==
    ASSUME NEW k \in Job, NEW todo \in Seq(AllSteps)
    PROVE  LET l == Ended(k, todo)
           IN  l \in Job /\ l.request = k.request /\ l.todo = todo /\ l.busy = FALSE
                 /\ l.read = k.read /\ l.manifest = k.manifest /\ l.since = k.since
  BY DEF Job, Ended

\* What a job is about to do is the next step of its plan.
LEMMA AtStep ==
    ASSUME NEW k \in Job, OnPlan(k)
    PROVE  /\ DoneOf(k) \in Nat /\ DoneOf(k) + 1 \in 1..Len(PlanOf(k))
           /\ k.todo # <<>> /\ Head(k.todo) = k.todo[1] /\ k.todo[1] = PlanOf(k)[DoneOf(k) + 1]
           /\ Len(PlanOf(k)) \in Nat /\ Len(k.todo) \in Nat
           /\ WellMade(k.request, PlanOf(k))
  <1>1. k.request \in Requests /\ k.todo \in Seq(AllSteps)
    BY DEF Job
  <1>2. WellMade(k.request, PlanOf(k)) /\ Len(PlanOf(k)) \in Nat
    BY <1>1, PlansAreWellMade DEF PlanOf
  <1>3. Len(k.todo) \in 1..Len(PlanOf(k)) /\ Len(k.todo) \in Nat
    BY <1>1 DEF OnPlan
  <1>4. k.todo # <<>> /\ Head(k.todo) = k.todo[1]
    BY <1>1, <1>3
  <1>5. 1 \in 1..Len(k.todo)
    BY <1>3
  <1>6. k.todo[1] = PlanOf(k)[DoneOf(k) + 1]
    BY <1>5 DEF OnPlan
  <1>7. DoneOf(k) \in Nat /\ DoneOf(k) + 1 \in 1..Len(PlanOf(k))
    BY <1>2, <1>3 DEF DoneOf
  <1>. QED  BY <1>2, <1>3, <1>4, <1>6, <1>7

\* Where a job reads and writes.
LEMMA UsedByPlan ==
    ASSUME NEW k \in Job, NEW i \in 1..Len(PlanOf(k))
    PROVE  /\ PlanOf(k)[i].to \in Outputs(k.request) /\ PlanOf(k)[i].to \in Uses(k.request)
           /\ \A q \in Besides(k.request, PlanOf(k)[i].to) : q \in Uses(k.request)
  <1> DEFINE P == PlanOf(k)
  <1>1. k.request \in Requests /\ P = Plan(k.request)
    BY DEF Job, PlanOf
  <1>2. WellMade(k.request, P)
    BY <1>1, PlansAreWellMade
  <1>3. DOMAIN P = 1..Len(P)
    BY <1>2 DEF WellMade
  <1>4. \A q \in Besides(k.request, P[i].to) : \E j \in 1..Len(P) : q \in P[j].from
    BY <1>2 DEF WellMade
  <1> HIDE DEF P
  <1>5. P[i].to \in Outputs(k.request)
    BY <1>1, <1>3 DEF Outputs, P
  <1>6. ASSUME NEW q \in Besides(k.request, P[i].to) PROVE q \in Uses(k.request)
    <2>1. PICK j \in DOMAIN P : q \in P[j].from
      BY <1>3, <1>4
    <2>. QED  BY <1>1, <2>1 DEF Uses
  <1>7. P[i].to \in Uses(k.request)
    BY <1>5 DEF Uses
  <1>. QED  BY <1>5, <1>6, <1>7 DEF P

\* Every artefact of a plan has its origin in a project.
LEMMA OriginOf ==
    ASSUME NEW r \in Requests, NEW P, WellMade(r, P), NEW i \in 1..Len(P),
           P[i].from # {}
    PROVE  Origin(r, P[i].to)[2] \in Projects
  BY DEF WellMade, FromOrigin, FromEarlier, Clears

\* What is fresh stays so while the sources are edited, and nobody writes to what
\* gen has left.
LEMMA StaysFresh ==
    ASSUME NEW r, NEW place, Origin(r, place)[2] \in Projects,
           NEW since \in [Projects -> Nat], NEW e \in [Projects -> Nat],
           NEW f \in [Projects -> Nat], \A p \in Projects : e[p] <= f[p],
           NEW d, NEW g, \A q \in Besides(r, place) : At(g, q) = At(d, q),
           NEW x, FreshFor(r, place, since, e, d, x)
    PROVE  FreshFor(r, place, since, f, g, x)
  <1> DEFINE o == Origin(r, place)
             p == o[2]
  <1>1. PICK v \in since[p]..e[p] :
            x = {<<o, v>>} \cup UNION {At(d, q) : q \in Besides(r, place)}
    BY DEF FreshFor
  <1>2. since[p] \in Nat /\ e[p] \in Nat /\ f[p] \in Nat /\ e[p] <= f[p]
    OBVIOUS
  <1>3. v \in since[p]..f[p]
    <2> HIDE DEF p
    <2>. QED  BY <1>2
  <1>4. {At(g, q) : q \in Besides(r, place)} = {At(d, q) : q \in Besides(r, place)}
    OBVIOUS
  <1>5. x = {<<o, v>>} \cup UNION {At(g, q) : q \in Besides(r, place)}
    BY <1>1, <1>4
  <1>. QED  BY <1>3, <1>5 DEF FreshFor

\* A step in which the edits e and the places d become g and f: the edits have grown,
\* and what k uses is as it was.
LEMMA StillFresh ==
    ASSUME NEW k \in Job, OnPlan(k),
           NEW e \in [Projects -> Nat], NEW g \in [Projects -> Nat],
           \A p \in Projects : e[p] <= g[p],
           NEW d, NEW f, \A place \in Uses(k.request) : At(f, place) = At(d, place),
           FreshSoFar(k, d, e)
    PROVE  FreshSoFar(k, f, g)
  <1> DEFINE P == PlanOf(k)
             n == DoneOf(k)
  <1>1. /\ n \in Nat /\ n + 1 \in 1..Len(P) /\ Len(P) \in Nat /\ WellMade(k.request, P)
        /\ k.todo[1] = P[n + 1]
    BY AtStep
  <1>2. k.request \in Requests /\ k.since \in [Projects -> Nat] /\ P = Plan(k.request)
    BY DEF Job, PlanOf
  <1>3. ASSUME NEW i \in 1..Len(P)
        PROVE  /\ At(f, P[i].to) = At(d, P[i].to)
               /\ \A q \in Besides(k.request, P[i].to) : At(f, q) = At(d, q)
    BY UsedByPlan
  <1> HIDE DEF P, n
  <1>4. ASSUME NEW i \in 1..n, P[i].from # {}
        PROVE  FreshFor(k.request, P[i].to, k.since, g, f, At(f, P[i].to))
    <2>1. i \in 1..Len(P)
      BY <1>1
    <2>2. FreshFor(k.request, P[i].to, k.since, e, d, At(d, P[i].to))
      BY <1>4 DEF FreshSoFar, P, n
    <2>3. Origin(k.request, P[i].to)[2] \in Projects
      BY <1>1, <1>2, <1>4, <2>1, OriginOf
    <2>4. FreshFor(k.request, P[i].to, k.since, g, f, At(d, P[i].to))
      BY <1>2, <1>3, <2>1, <2>2, <2>3, StaysFresh
    <2>. QED  BY <1>3, <2>1, <2>4
  <1>5. ASSUME k.busy, k.todo[1].from # {}
        PROVE  FreshFor(k.request, k.todo[1].to, k.since, g, f, k.read)
    <2>1. FreshFor(k.request, k.todo[1].to, k.since, e, d, k.read)
      BY <1>5 DEF FreshSoFar
    <2>2. Origin(k.request, k.todo[1].to)[2] \in Projects
      BY <1>1, <1>2, <1>5, OriginOf
    <2>3. \A q \in Besides(k.request, k.todo[1].to) : At(f, q) = At(d, q)
      BY <1>1, <1>3
    <2>. QED  BY <1>2, <2>1, <2>2, <2>3, StaysFresh
  <1>. QED  BY <1>4, <1>5 DEF FreshSoFar, P, n

\* A step that leaves the job of c alone, and what it uses where it has met nobody.
LEMMA StillJob ==
    ASSUME TInv, NEW c \in Callers, job'[c] = job[c],
           edits' \in [Projects -> Nat], \A p \in Projects : edits[p] <= edits'[p],
           ~met'[c] =>
              /\ ~met[c]
              /\ \A place \in Uses(job[c].request) : At(made', place) = At(made, place)
              /\ \A d \in Callers : d # c /\ Running(d)' => Apart(job[c], job'[d])
    PROVE  JobInv(c)'
  <1> SUFFICES ASSUME Running(c)' PROVE JobInv(c)'
    BY DEF JobInv
  <1>1. Running(c)
    BY DEF Running
  <1>2. /\ job[c] \in Job /\ OnPlan(job[c]) /\ GivenSince(job[c], edits)
        /\ ~met[c] => FreshSoFar(job[c], made, edits)
        /\ edits \in [Projects -> Nat]
    BY <1>1 DEF TInv, JobInv
  <1>3. GivenSince(job[c], edits')
    <2> DEFINE q == job[c].request.project
    <2>1. q \in Projects /\ job[c].since \in [Projects -> Nat]
      BY <1>2, ProjectOf DEF Job
    <2>2. PICK v \in job[c].since[q]..edits[q] : job[c].manifest = {<<SettingsOf(q), v>>}
      BY <1>2 DEF GivenSince
    <2>3. v \in job[c].since[q]..edits'[q]
      <3>1. job[c].since[q] \in Nat /\ edits[q] \in Nat /\ edits'[q] \in Nat /\ edits[q] <= edits'[q]
        BY <1>2, <2>1
      <3> HIDE DEF q
      <3>. QED  BY <3>1
    <2>4. \A p \in Projects : job[c].since[p] <= edits'[p]
      <3> TAKE p \in Projects
      <3>1. job[c].since[p] \in Nat /\ edits[p] \in Nat /\ edits'[p] \in Nat
            /\ job[c].since[p] <= edits[p] /\ edits[p] <= edits'[p]
        BY <1>2, <2>1 DEF GivenSince
      <3>. QED  BY <3>1
    <2>. QED  BY <2>2, <2>3, <2>4 DEF GivenSince
  <1>4. ~met'[c] => FreshSoFar(job[c], made', edits')
    BY <1>2, StillFresh
  <1>. QED  BY <1>2, <1>3, <1>4 DEF JobInv

-----------------------------------------------------------------------------
(* The toolchain: tools *)

LEMMA Cut ==
    ASSUME NEW S, NEW s \in Seq(S), Len(s) > 1
    PROVE  /\ Tail(s) \in Seq(S) /\ Len(Tail(s)) = Len(s) - 1 /\ Len(Tail(s)) \in Nat
           /\ \A i \in 1..Len(Tail(s)) : Tail(s)[i] = s[i + 1]
  OBVIOUS

LEMMA Counting ==
    ASSUME NEW m \in Nat, NEW n \in 1..m, n # 1
    PROVE  n > 1 /\ n - 1 \in 1..m /\ m - (n - 1) = (m - n) + 1
  OBVIOUS

LEMMA NotEmpty ==
    ASSUME NEW S, NEW s \in Seq(S), Len(s) # 0
    PROVE  s # <<>>
  OBVIOUS

\* What a place that nobody edits holds.
LEMMA ContentMade ==
    ASSUME NEW c \in Callers, NEW place, ~Kept(place)
    PROVE  Content(c, place) = At(made, place)
  <1>1. place[1] \notin {"sources", "schema", "inherited", "dlc.toml"}
    BY DEF Kept, Kinds
  <1>2. Content(c, place) = Found(place)
    BY <1>1 DEF Content
  <1>. QED  BY <1>2 DEF Found, At

\* What a file that somebody edits holds, as job c sees it.
LEMMA ContentKept ==
    ASSUME NEW c \in Callers, NEW place, Kept(place)
    PROVE  /\ place[1] = "dlc.toml" => Content(c, place) = job[c].manifest
           /\ place[1] # "dlc.toml" => Content(c, place) = {<<place, edits[place[2]]>>}
  <1>1. place[1] \in {"sources", "schema", "inherited", "dlc.toml"}
    BY DEF Kept, Kinds
  <1>2. CASE place[1] = "dlc.toml"
    BY <1>2 DEF Content
  <1>3. CASE place[1] # "dlc.toml"
    BY <1>1, <1>3 DEF Content
  <1>. QED  BY <1>2, <1>3

LEMMA ReadsValue ==
    ASSUME TInv, NEW c \in Callers, Running(c)
    PROVE  Reads(c) \in Value
  <1> DEFINE k == job[c]
             P == PlanOf(k)
             n == DoneOf(k)
             s == P[n + 1]
  <1>1. k \in Job /\ OnPlan(k)
    BY DEF TInv, JobInv
  <1>2. Now(c) = s /\ WellMade(k.request, P) /\ n + 1 \in 1..Len(P) /\ n \in Nat
    BY <1>1, AtStep DEF Now
  <1>3. k.manifest \in Value
    BY <1>1 DEF Job
  <1>4. \A q : ~Kept(q) => Content(c, q) \in Value
    <2>1. \A q : At(made, q) \in Value
      <3>1. Nothing \in Value
        BY DEF Nothing, Value
      <3>. QED  BY <3>1 DEF TInv, At
    <2>. QED  BY <2>1, ContentMade
  <1>5. ASSUME NEW q, Kept(q), q[2] \in Projects, q = <<q[1], q[2]>>
        PROVE  Content(c, q) \in Value
    <2>1. q \in Kinds \X Projects
      BY <1>5 DEF Kept
    <2>2. edits[q[2]] \in Nat
      BY <1>5 DEF TInv
    <2>3. {<<q, edits[q[2]]>>} \in Value
      BY <2>1, <2>2 DEF Value
    <2>. QED  BY <1>3, <1>5, <2>3, ContentKept
  <1> HIDE DEF P, n, k
  <1>6. \A i \in 1..Len(P) : \A q \in Besides(k.request, P[i].to) : ~Kept(q)
    BY <1>2 DEF WellMade
  <1>7. FromOrigin(k.request, s) \/ FromEarlier(k.request, P, n + 1) \/ Clears(P, n + 1)
    BY <1>2 DEF WellMade
  <1>8. ASSUME NEW q \in s.from PROVE Content(c, q) \in Value
    <2>1. CASE FromOrigin(k.request, s)
      <3> DEFINE o == Origin(k.request, s.to)
      <3>1. /\ o[2] \in Projects /\ Kept(o) /\ o = <<o[1], o[2]>>
            /\ s.from = {o} \cup Besides(k.request, s.to)
        BY <2>1 DEF FromOrigin
      <3> HIDE DEF o
      <3>2. CASE q = o
        BY <1>5, <3>1, <3>2
      <3>3. CASE q \in Besides(k.request, s.to)
        BY <1>2, <1>4, <1>6, <3>3
      <3>. QED  BY <1>8, <3>1, <3>2, <3>3
    <2>2. CASE FromEarlier(k.request, P, n + 1)
      <3>1. ~Kept(q)
        BY <1>8, <2>2 DEF FromEarlier, s
      <3>. QED  BY <1>4, <3>1
    <2>3. CASE Clears(P, n + 1)
      BY <1>8, <2>3 DEF Clears, s
    <2>. QED  BY <1>7, <2>1, <2>2, <2>3
  <1> HIDE DEF s
  <1>9. Reads(c) = UNION {Content(c, q) : q \in s.from}
    BY <1>2 DEF Reads
  <1>. QED  BY <1>8, <1>9 DEF Value

LEMMA ReadsFresh ==
    ASSUME TInv, NEW c \in Callers, Running(c), ~met[c], Now(c).from # {}
    PROVE  FreshFor(job[c].request, Now(c).to, job[c].since, edits, made, Reads(c))
  <1> DEFINE k == job[c]
             r == k.request
             P == PlanOf(k)
             n == DoneOf(k)
             s == P[n + 1]
             o == Origin(r, s.to)
             B == Besides(r, s.to)
  <1>1. k \in Job /\ OnPlan(k) /\ GivenSince(k, edits) /\ FreshSoFar(k, made, edits)
    BY DEF TInv, JobInv
  <1>2. Now(c) = s /\ WellMade(r, P) /\ n + 1 \in 1..Len(P) /\ n \in Nat
    BY <1>1, AtStep DEF Now
  <1>3. FromOrigin(r, s) \/ FromEarlier(r, P, n + 1)
    BY <1>2 DEF WellMade, Clears
  <1>4. k.since \in [Projects -> Nat] /\ edits \in [Projects -> Nat]
    BY <1>1 DEF Job, TInv
  <1>5. \A q \in B : ~Kept(q)
    BY <1>2 DEF WellMade
  <1>6. Reads(c) = UNION {Content(c, q) : q \in s.from}
    BY <1>2 DEF Reads
  <1> HIDE DEF s, P, n, r, o, B
  <1>7. CASE FromOrigin(r, s)
    <2>1. /\ o[2] \in Projects /\ Kept(o) /\ s.from = {o} \cup B
          /\ o[1] = "dlc.toml" => o = SettingsOf(r.project)
      BY <1>7 DEF FromOrigin, o, B
    <2>2. \E v \in k.since[o[2]]..edits[o[2]] : Content(c, o) = {<<o, v>>}
      <3>1. CASE o[1] = "dlc.toml"
        <4>1. o = SettingsOf(r.project) /\ o[2] = r.project
          BY <2>1, <3>1 DEF SettingsOf
        <4>2. \E v \in k.since[r.project]..edits[r.project] :
                  k.manifest = {<<SettingsOf(r.project), v>>}
          BY <1>1 DEF GivenSince, r
        <4>. QED  BY <2>1, <3>1, <4>1, <4>2, ContentKept
      <3>2. CASE o[1] # "dlc.toml"
        <4> DEFINE p == o[2]
        <4>1. k.since[p] \in Nat /\ edits[p] \in Nat /\ k.since[p] <= edits[p]
          BY <1>1, <1>4, <2>1 DEF GivenSince
        <4>2. edits[p] \in k.since[p]..edits[p]
          <5> HIDE DEF p
          <5>. QED  BY <4>1
        <4>. QED  BY <2>1, <3>2, <4>2, ContentKept
      <3>. QED  BY <3>1, <3>2
    <2>3. \A q \in B : Content(c, q) = At(made, q)
      BY <1>5, ContentMade
    <2>4. Reads(c) = Content(c, o) \cup UNION {At(made, q) : q \in B}
      BY <1>6, <2>1, <2>3
    <2>. QED  BY <1>2, <2>2, <2>4 DEF FreshFor, o, B, r
  <1>8. CASE FromEarlier(r, P, n + 1)
    <2>1. PICK j \in 1..n :
              /\ ~Kept(P[j].to) /\ s.from = {P[j].to} /\ P[j].from # {}
              /\ Origin(r, P[j].to) = o /\ Besides(r, P[j].to) = B
      BY <1>2, <1>8 DEF FromEarlier, s, o, B
    <2>2. FreshFor(r, P[j].to, k.since, edits, made, At(made, P[j].to))
      BY <1>1, <2>1 DEF FreshSoFar, P, n, r
    <2>3. Reads(c) = At(made, P[j].to)
      BY <1>6, <2>1, ContentMade
    <2>. QED  BY <1>2, <2>1, <2>2, <2>3 DEF FreshFor, o, B, r
  <1>. QED  BY <1>3, <1>7, <1>8

LEMMA PutAt ==
    ASSUME NEW place, NEW x, made' = Putting(place, x)
    PROVE  /\ At(made', place) = x
           /\ \A q : q # place => At(made', q) = At(made, q)
  <1>1. DOMAIN made' = DOMAIN made \cup {place} /\ \A q \in DOMAIN made' :
            made'[q] = IF q = place THEN x ELSE made[q]
    BY DEF Putting
  <1>. QED  BY <1>1 DEF At

\* Of what another job uses only that can change to which this one writes.
LEMMA OthersPlaces ==
    ASSUME TInv, NEW c \in Callers, Running(c), NEW x, made' = Putting(Now(c).to, x),
           NEW d \in Callers, d # c, Running(d), ~met[d]
    PROVE  \A place \in Uses(job[d].request) : At(made', place) = At(made, place)
  <1>1. job[c] \in Job /\ OnPlan(job[c]) /\ Apart(job[d], job[c])
    BY DEF TInv, JobInv
  <1>2. Now(c).to \in Outputs(job[c].request)
    BY <1>1, AtStep, UsedByPlan DEF Now
  <1>3. Now(c).to \notin Uses(job[d].request)
    BY <1>1, <1>2 DEF Apart
  <1>. QED  BY <1>3, PutAt

LEMMA PutValue ==
    ASSUME TInv, NEW place, NEW x \in Value, made' = Putting(place, x)
    PROVE  \A q \in DOMAIN made' : made'[q] \in Value
  BY DEF TInv, Putting

LEMMA SameEdits ==
    ASSUME TInv, edits' = edits
    PROVE  edits' \in [Projects -> Nat] /\ \A p \in Projects : edits[p] <= edits'[p]
  BY DEF TInv

-----------------------------------------------------------------------------
(* The toolchain: steps *)

LEMMA ToolchainInitInv == ToolchainInit => TInv
  <1> SUFFICES ASSUME ToolchainInit PROVE TInv
    OBVIOUS
  <1>1. \A c \in Callers : ~Running(c)
    BY Rest DEF ToolchainInit, Running
  <1>2. job \in [Callers -> Job \cup {Off}] /\ met \in [Callers -> BOOLEAN]
    BY DEF ToolchainInit
  <1>3. edits \in [Projects -> Nat] /\ \A place \in DOMAIN made : made[place] \in Value
    BY DEF ToolchainInit
  <1>. QED  BY <1>1, <1>2, <1>3 DEF TInv, JobInv

LEMMA CommandInv ==
    ASSUME TInv, NEW c \in Callers, NEW r \in Requests, Command(c, r)
    PROVE  TInv'
  <1> DEFINE m == {<<SettingsOf(r.project), edits[r.project]>>}
             k == [request |-> r, todo |-> Plan(r), busy |-> FALSE, read |-> Nothing,
                   manifest |-> m, since |-> edits]
             running == {d \in Callers : Running(d)}
             others(d) == Outputs(job[d].request) \cap Uses(r) # {}
             ours(d) == Outputs(r) \cap Uses(job[d].request) # {}
  <1>1. /\ ~Running(c) /\ Plan(r) # <<>>
        /\ job' = [job EXCEPT ![c] = k]
        /\ met' = [d \in Callers |-> IF d = c THEN \E b \in running : others(b)
                                     ELSE met[d] \/ (d \in running /\ ours(d))]
        /\ edits' = edits /\ made' = made
    BY DEF Command
  <1>2. WellMade(r, Plan(r)) /\ Plan(r) \in Seq(AllSteps) /\ Len(Plan(r)) \in Nat
    BY PlansAreWellMade DEF WellMade
  <1>3. r.project \in Projects /\ edits \in [Projects -> Nat] /\ m \in Value
    <2>1. r.project \in Projects /\ edits \in [Projects -> Nat]
      BY ProjectOf DEF TInv
    <2>2. SettingsOf(r.project) \in Kinds \X Projects /\ edits[r.project] \in Nat
      BY <2>1 DEF SettingsOf, Kinds
    <2>. QED  BY <2>1, <2>2 DEF Value
  <1>4. /\ k \in Job /\ k.request = r /\ k.todo = Plan(r) /\ k.busy = FALSE
        /\ k.manifest = m /\ k.since = edits
    BY <1>2, <1>3, Commanded
  <1> HIDE DEF k
  <1>5. /\ job' \in [Callers -> Job \cup {Off}] /\ job'[c] = k
        /\ \A d \in Callers : d # c => job'[d] = job[d] /\ (Running(d)' <=> Running(d))
    BY <1>1, <1>4, OneJobMoves
  <1>6. met' \in [Callers -> BOOLEAN]
    <2>1. /\ (\E b \in running : others(b)) \in BOOLEAN
          /\ \A d \in Callers : (met[d] \/ (d \in running /\ ours(d))) \in BOOLEAN
      OBVIOUS
    <2> HIDE DEF running, others, ours
    <2>. QED  BY <1>1, <2>1
  <1>7. JobInv(c)'
    <2>1. OnPlan(k)
      <3>1. Len(Plan(r)) # 0
        BY <1>1, <1>2, EmptySeq
      <3>2. PlanOf(k) = Plan(r) /\ DoneOf(k) = 0
        BY <1>2, <1>4 DEF PlanOf, DoneOf
      <3>3. \A i \in 1..Len(Plan(r)) : 0 + i = i
        BY <1>2
      <3>. QED  BY <1>2, <1>4, <3>1, <3>2, <3>3 DEF OnPlan
    <2>2. GivenSince(k, edits)
      <3>1. edits[r.project] \in edits[r.project]..edits[r.project]
        BY <1>3
      <3>. QED  BY <1>3, <1>4, <3>1 DEF GivenSince
    <2>3. FreshSoFar(k, made, edits)
      <3>1. DoneOf(k) = 0 /\ 1..0 = {}
        BY <1>2, <1>4 DEF PlanOf, DoneOf
      <3>. QED  BY <1>4, <3>1 DEF FreshSoFar
    <2>4. ~met'[c] => \A d \in Callers : d # c /\ Running(d)' => Apart(k, job'[d])
      <3> SUFFICES ASSUME ~met'[c], NEW d \in Callers, d # c, Running(d)' PROVE Apart(k, job'[d])
        OBVIOUS
      <3>1. Running(d) /\ job'[d] = job[d]
        BY <1>5
      <3>2. ~others(d)
        BY <1>1, <3>1
      <3>. QED  BY <1>4, <3>1, <3>2 DEF Apart
    <2>. QED  BY <1>1, <1>4, <1>5, <2>1, <2>2, <2>3, <2>4 DEF JobInv
  <1>8. ASSUME NEW d \in Callers, d # c PROVE JobInv(d)'
    <2>1. CASE ~Running(d)'
      BY <2>1 DEF JobInv
    <2>2. CASE Running(d)'
      <3>1. Running(d) /\ job'[d] = job[d]
        BY <1>5, <1>8, <2>2
      <3>2. ASSUME ~met'[d]
            PROVE  ~met[d] /\ \A b \in Callers : b # d /\ Running(b)' => Apart(job[d], job'[b])
        <4>1. ~met[d] /\ ~ours(d)
          BY <1>1, <1>8, <3>1, <3>2
        <4>2. Apart(job[d], k)
          BY <1>4, <3>1, <4>1 DEF Apart
        <4>3. \A b \in Callers : b # d /\ Running(b) => Apart(job[d], job[b])
          BY <3>1, <4>1 DEF TInv, JobInv
        <4>. QED  BY <1>5, <4>1, <4>2, <4>3
      <3>. QED  BY <1>1, <3>1, <3>2, SameEdits, StillJob
    <2>. QED  BY <2>1, <2>2
  <1>9. \A d \in Callers : JobInv(d)'
    BY <1>7, <1>8
  <1>. QED  BY <1>1, <1>5, <1>6, <1>9 DEF TInv

\* The job of c has moved on, but not what it is for, and the places of the others
\* are as they were.
LEMMA OthersInv ==
    ASSUME TInv, NEW c \in Callers, Running(c), NEW k \in Job \cup {Off},
           job' = [job EXCEPT ![c] = k], k.todo # <<>> => k.request = job[c].request,
           edits' = edits, met' = met,
           \A d \in Callers : d # c /\ Running(d) /\ ~met[d] =>
               \A place \in Uses(job[d].request) : At(made', place) = At(made, place)
    PROVE  \A d \in Callers : d # c => JobInv(d)'
  <1> TAKE d \in Callers
  <1> HAVE d # c
  <1>1. /\ job'[c] = k
        /\ \A b \in Callers : b # c => job'[b] = job[b] /\ (Running(b)' <=> Running(b))
    BY OneJobMoves
  <1>2. CASE ~Running(d)'
    BY <1>2 DEF JobInv
  <1>3. CASE Running(d)'
    <2>1. Running(d) /\ job'[d] = job[d]
      BY <1>1, <1>3
    <2>2. ASSUME ~met'[d]
          PROVE  \A b \in Callers : b # d /\ Running(b)' => Apart(job[d], job'[b])
      <3>1. \A b \in Callers : b # d /\ Running(b) => Apart(job[d], job[b])
        BY <2>1, <2>2 DEF TInv, JobInv
      <3>2. Running(c)' => job'[c].request = job[c].request
        BY <1>1 DEF Running
      <3>. QED  BY <1>1, <3>1, <3>2 DEF Apart
    <2>. QED  BY <2>1, <2>2, SameEdits, StillJob
  <1>. QED  BY <1>2, <1>3

LEMMA StartInv ==
    ASSUME TInv, NEW c \in Callers, StartTool(c)
    PROVE  TInv'
  <1> DEFINE k == job[c]
             x == Reads(c)
             l == Started(k, x)
  <1>1. /\ Running(c) /\ job' = [job EXCEPT ![c] = l]
        /\ edits' = edits /\ made' = made /\ met' = met
    <2>1. job' = [job EXCEPT ![c].busy = TRUE, ![c].read = Reads(c)]
      BY DEF StartTool
    <2>. QED  BY <2>1 DEF StartTool, TInv, Started
  <1>2. /\ k \in Job /\ OnPlan(k) /\ GivenSince(k, edits)
        /\ ~met[c] => /\ FreshSoFar(k, made, edits)
                      /\ \A d \in Callers : d # c /\ Running(d) => Apart(k, job[d])
    BY <1>1 DEF TInv, JobInv
  <1>3. /\ l \in Job /\ l.request = k.request /\ l.todo = k.todo /\ l.busy = TRUE
        /\ l.read = Reads(c) /\ l.manifest = k.manifest /\ l.since = k.since
    <2>1. x \in Value
      BY <1>1, ReadsValue
    <2> HIDE DEF x, k
    <2>2. /\ l \in Job /\ l.request = k.request /\ l.todo = k.todo /\ l.busy = TRUE
          /\ l.read = x /\ l.manifest = k.manifest /\ l.since = k.since
      BY <1>2, <2>1, StartedFields
    <2>. QED  BY <2>2 DEF x
  <1>4. ~met[c] /\ Now(c).from # {} =>
            FreshFor(k.request, Now(c).to, k.since, edits, made, Reads(c))
    BY <1>1, ReadsFresh
  <1>5. Now(c) = k.todo[1]
    BY <1>2, AtStep DEF Now
  <1> HIDE DEF l
  <1>6. /\ job' \in [Callers -> Job \cup {Off}] /\ job'[c] = l
        /\ \A d \in Callers : d # c => job'[d] = job[d] /\ (Running(d)' <=> Running(d))
    BY <1>1, <1>3, OneJobMoves
  <1>7. OnPlan(l) /\ GivenSince(l, edits) /\ DoneOf(l) = DoneOf(k) /\ PlanOf(l) = PlanOf(k)
    BY <1>2, <1>3 DEF OnPlan, GivenSince, DoneOf, PlanOf
  <1>8. ~met[c] => FreshSoFar(l, made, edits)
    BY <1>2, <1>3, <1>4, <1>5, <1>7 DEF FreshSoFar
  <1>9. ~met[c] => \A d \in Callers : d # c /\ Running(d)' => Apart(l, job'[d])
    BY <1>2, <1>3, <1>6 DEF Apart
  <1>10. JobInv(c)'
    BY <1>1, <1>3, <1>6, <1>7, <1>8, <1>9 DEF JobInv
  <1>11. \A d \in Callers : d # c => JobInv(d)'
    BY <1>1, <1>3, OthersInv
  <1>12. \A d \in Callers : JobInv(d)'
    BY <1>10, <1>11
  <1>. QED  BY <1>1, <1>6, <1>12 DEF TInv

\* What EndTool leaves in the places of its own job; what gen has left is as it was.
LEMMA StepDone ==
    ASSUME TInv, NEW c \in Callers, Running(c), ~met[c], job[c].busy,
           made' = Putting(Now(c).to, job[c].read)
    PROVE  /\ \A i \in 1..(DoneOf(job[c]) + 1) : PlanOf(job[c])[i].from # {} =>
                  FreshFor(job[c].request, PlanOf(job[c])[i].to, job[c].since, edits, made',
                           At(made', PlanOf(job[c])[i].to))
           /\ \A i \in 1..Len(PlanOf(job[c])) :
                  \A q \in Besides(job[c].request, PlanOf(job[c])[i].to) : At(made', q) = At(made, q)
  <1> DEFINE k == job[c]
             P == PlanOf(k)
             n == DoneOf(k)
             s == P[n + 1]
  <1>1. k \in Job /\ OnPlan(k) /\ FreshSoFar(k, made, edits)
    BY DEF TInv, JobInv
  <1>2. /\ Now(c) = s /\ k.todo[1] = s /\ WellMade(k.request, P) /\ n + 1 \in 1..Len(P)
        /\ n \in Nat /\ Len(P) \in Nat
    BY <1>1, AtStep DEF Now
  <1>3. \A i \in 1..n : P[i].from # {} =>
            FreshFor(k.request, P[i].to, k.since, edits, made, At(made, P[i].to))
    BY <1>1 DEF FreshSoFar
  <1>4. s.from # {} => FreshFor(k.request, s.to, k.since, edits, made, k.read)
    BY <1>1, <1>2 DEF FreshSoFar
  <1>5. /\ k.request \in Requests /\ k.since \in [Projects -> Nat] /\ edits \in [Projects -> Nat]
        /\ \A p \in Projects : edits[p] <= edits[p]
    BY <1>1 DEF Job, TInv
  <1>6. At(made', s.to) = k.read /\ \A q : q # s.to => At(made', q) = At(made, q)
    BY <1>2, PutAt
  <1> HIDE DEF P, n, k, s
  <1>7. s.from = {} => \A i \in 1..n : P[i].to # s.to
    <2>1. s.from = {} => Clears(P, n + 1)
      BY <1>2 DEF WellMade, FromOrigin, FromEarlier, s
    <2>2. (n + 1) - 1 = n
      BY <1>2
    <2>. QED  BY <2>1, <2>2 DEF Clears, s
  <1>8. \A i \in 1..Len(P) : \A q \in Besides(k.request, P[i].to) : At(made', q) = At(made, q)
    <2>1. \A i \in 1..Len(P) : s.to \notin Besides(k.request, P[i].to)
      BY <1>2 DEF WellMade, s
    <2>. QED  BY <1>6, <2>1
  <1>9. ASSUME NEW i \in 1..(n + 1), P[i].from # {}
        PROVE  FreshFor(k.request, P[i].to, k.since, edits, made', At(made', P[i].to))
    <2>1. (i \in 1..n \/ P[i] = s) /\ i \in 1..Len(P)
      BY <1>2 DEF s
    <2>2. FreshFor(k.request, P[i].to, k.since, edits, made, At(made', P[i].to))
      <3>1. CASE P[i].to = s.to
        <4>1. s.from # {}
          BY <1>7, <1>9, <2>1, <3>1
        <4>. QED  BY <1>4, <1>6, <3>1, <4>1
      <3>2. CASE P[i].to # s.to
        <4>1. i \in 1..n
          BY <2>1, <3>2
        <4>. QED  BY <1>3, <1>6, <1>9, <3>2, <4>1
      <3>. QED  BY <3>1, <3>2
    <2>3. Origin(k.request, P[i].to)[2] \in Projects
      BY <1>2, <1>5, <1>9, <2>1, OriginOf
    <2> DEFINE x == At(made', P[i].to)
               g == made'
    <2>4. \A q \in Besides(k.request, P[i].to) : At(g, q) = At(made, q)
      BY <1>8, <2>1
    <2>5. FreshFor(k.request, P[i].to, k.since, edits, made, x)
      BY <2>2
    <2> HIDE DEF x, g
    <2>6. FreshFor(k.request, P[i].to, k.since, edits, g, x)
      BY <1>5, <2>3, <2>4, <2>5, StaysFresh
    <2>. QED  BY <2>6 DEF x, g
  <1>. QED  BY <1>8, <1>9 DEF P, n, k

LEMMA EndInv ==
    ASSUME TInv, NEW c \in Callers, EndTool(c)
    PROVE  TInv'
  <1> DEFINE k == job[c]
             l == IF Len(k.todo) = 1 THEN Off ELSE Ended(k, Tail(k.todo))
  <1>1. /\ Running(c) /\ k.busy /\ made' = Putting(Now(c).to, k.read)
        /\ job' = [job EXCEPT ![c] = l]
        /\ edits' = edits /\ met' = met
    BY DEF EndTool, Ended
  <1>2. /\ k \in Job /\ OnPlan(k) /\ GivenSince(k, edits)
        /\ ~met[c] => /\ FreshSoFar(k, made, edits)
                      /\ \A d \in Callers : d # c /\ Running(d) => Apart(k, job[d])
    BY <1>1 DEF TInv, JobInv
  <1>3. /\ k.todo \in Seq(AllSteps) /\ Len(k.todo) \in 1..Len(PlanOf(k))
        /\ Len(PlanOf(k)) \in Nat
    BY <1>2, AtStep DEF Job, OnPlan
  <1>4. \A q \in DOMAIN made' : made'[q] \in Value
    <2>1. k.read \in Value
      BY <1>2 DEF Job
    <2>. QED  BY <1>1, <2>1, PutValue
  <1>5. \A d \in Callers : d # c /\ Running(d) /\ ~met[d] =>
           \A place \in Uses(job[d].request) : At(made', place) = At(made, place)
    BY <1>1, OthersPlaces
  <1>6. CASE Len(k.todo) = 1
    <2>1. l = Off
      BY <1>6
    <2> HIDE DEF l
    <2>2. job' \in [Callers -> Job \cup {Off}] /\ job'[c] = Off
      BY <1>1, <2>1, OneJobMoves
    <2>3. JobInv(c)'
      BY <2>2, Rest DEF JobInv, Running
    <2>4. \A d \in Callers : d # c => JobInv(d)'
      BY <1>1, <1>5, <2>1, Rest, OthersInv
    <2>5. \A d \in Callers : JobInv(d)'
      BY <2>3, <2>4
    <2>. QED  BY <1>1, <1>4, <2>2, <2>5 DEF TInv
  <1>7. CASE Len(k.todo) # 1
    <2>1. /\ Tail(k.todo) \in Seq(AllSteps) /\ Len(Tail(k.todo)) = Len(k.todo) - 1
          /\ \A i \in 1..Len(Tail(k.todo)) : Tail(k.todo)[i] = k.todo[i + 1]
      <3>1. Len(k.todo) > 1
        BY <1>3, <1>7, Counting
      <3>. QED  BY <1>3, <3>1, Cut
    <2>2. /\ l \in Job /\ l.request = k.request /\ l.todo = Tail(k.todo) /\ l.busy = FALSE
          /\ l.manifest = k.manifest /\ l.since = k.since
      BY <1>2, <1>7, <2>1, EndedFields
    <2> HIDE DEF l
    <2>3. /\ job' \in [Callers -> Job \cup {Off}] /\ job'[c] = l
          /\ \A d \in Callers : d # c => job'[d] = job[d] /\ (Running(d)' <=> Running(d))
      BY <1>1, <2>2, OneJobMoves
    <2>4. PlanOf(l) = PlanOf(k) /\ DoneOf(l) = DoneOf(k) + 1 /\ GivenSince(l, edits)
      <3>1. PlanOf(l) = PlanOf(k) /\ GivenSince(l, edits)
        BY <1>2, <2>2 DEF PlanOf, GivenSince
      <3>2. Len(PlanOf(k)) - (Len(k.todo) - 1) = (Len(PlanOf(k)) - Len(k.todo)) + 1
        BY <1>3, <1>7, Counting
      <3>. QED  BY <2>1, <2>2, <3>1, <3>2 DEF DoneOf
    <2>5. OnPlan(l)
      <3>1. Len(l.todo) \in 1..Len(PlanOf(l))
        <4>1. Len(k.todo) - 1 \in 1..Len(PlanOf(k))
          BY <1>3, <1>7, Counting
        <4>. QED  BY <2>1, <2>2, <2>4, <4>1
      <3>2. ASSUME NEW i \in 1..Len(l.todo) PROVE l.todo[i] = PlanOf(l)[DoneOf(l) + i]
        <4>1. i + 1 \in 1..Len(k.todo) /\ l.todo[i] = k.todo[i + 1]
          BY <1>3, <2>1, <2>2, <3>2
        <4>2. k.todo[i + 1] = PlanOf(k)[DoneOf(k) + (i + 1)]
          BY <1>2, <4>1 DEF OnPlan
        <4>3. DoneOf(k) + (i + 1) = (DoneOf(k) + 1) + i
          <5>1. DoneOf(k) \in Nat /\ i \in Int
            BY <1>2, <3>2, AtStep
          <5>. QED  BY <5>1
        <4>. QED  BY <2>4, <4>1, <4>2, <4>3
      <3>. QED  BY <3>1, <3>2 DEF OnPlan
    <2>6. ~met[c] => FreshSoFar(l, made', edits)
      BY <1>1, <2>2, <2>4, StepDone DEF FreshSoFar
    <2>7. ~met[c] => \A d \in Callers : d # c /\ Running(d)' => Apart(l, job'[d])
      BY <1>2, <2>2, <2>3 DEF Apart
    <2>8. JobInv(c)'
      BY <1>1, <2>2, <2>3, <2>4, <2>5, <2>6, <2>7 DEF JobInv
    <2>9. \A d \in Callers : d # c => JobInv(d)'
      BY <1>1, <1>5, <2>2, OthersInv
    <2>10. \A d \in Callers : JobInv(d)'
      BY <2>8, <2>9
    <2>. QED  BY <1>1, <1>4, <2>3, <2>10 DEF TInv
  <1>. QED  BY <1>6, <1>7

LEMMA StopInv ==
    ASSUME TInv, NEW c \in Callers, StopTool(c)
    PROVE  TInv'
  <1>1. /\ Running(c) /\ job' = [job EXCEPT ![c] = Off] /\ edits' = edits /\ met' = met
        /\ made' = made \/ made' = Putting(Now(c).to, Partial)
    BY DEF StopTool
  <1>2. Partial \in Value
    BY DEF Value
  <1>3. \A q \in DOMAIN made' : made'[q] \in Value
    BY <1>1, <1>2, PutValue DEF TInv
  <1>4. \A d \in Callers : d # c /\ Running(d) /\ ~met[d] =>
           \A place \in Uses(job[d].request) : At(made', place) = At(made, place)
    <2>1. CASE made' = made
      BY <2>1
    <2>2. CASE made' = Putting(Now(c).to, Partial)
      BY <1>1, <2>2, OthersPlaces
    <2>. QED  BY <1>1, <2>1, <2>2
  <1>5. job' \in [Callers -> Job \cup {Off}] /\ job'[c] = Off
    BY <1>1, OneJobMoves
  <1>6. JobInv(c)'
    BY <1>5, Rest DEF JobInv, Running
  <1>7. \A d \in Callers : d # c => JobInv(d)'
    BY <1>1, <1>4, Rest, OthersInv
  <1>8. \A d \in Callers : JobInv(d)'
    BY <1>6, <1>7
  <1>. QED  BY <1>1, <1>3, <1>5, <1>8 DEF TInv

LEMMA EditInv ==
    ASSUME TInv, NEW p \in Projects, EditSources(p)
    PROVE  TInv'
  <1>1. edits' = [edits EXCEPT ![p] = edits[p] + 1] /\ made' = made /\ job' = job /\ met' = met
    BY DEF EditSources
  <1>2. edits' \in [Projects -> Nat] /\ \A q \in Projects : edits[q] <= edits'[q]
    BY <1>1 DEF TInv
  <1>3. ASSUME NEW c \in Callers PROVE JobInv(c)'
    <2>1. CASE ~Running(c)'
      BY <2>1 DEF JobInv
    <2>2. CASE Running(c)'
      <3>1. \A d \in Callers : job'[d] = job[d] /\ (Running(d)' <=> Running(d))
        BY <1>1 DEF Running
      <3>2. ~met[c] => \A d \in Callers : d # c /\ Running(d) => Apart(job[c], job[d])
        BY <2>2, <3>1 DEF TInv, JobInv
      <3>. QED  BY <1>1, <1>2, <3>1, <3>2, StillJob
    <2>. QED  BY <2>1, <2>2
  <1>. QED  BY <1>1, <1>2, <1>3 DEF TInv

LEMMA AfreshInv ==
    ASSUME TInv, StartOver
    PROVE  TInv'
  <1>1. \A c \in Callers : ~Running(c)'
    BY DEF StartOver, Running
  <1>2. edits' \in [Projects -> Nat] /\ met' \in [Callers -> BOOLEAN] /\ job' = job
    BY DEF StartOver
  <1>3. \A place \in DOMAIN made' : made'[place] \in Value
    BY DEF StartOver
  <1>. QED  BY <1>1, <1>2, <1>3 DEF TInv, JobInv

LEMMA ToolchainStepInv == TInv /\ [ToolchainNext]_toolchainVars => TInv'
  <1> SUFFICES ASSUME TInv, [ToolchainNext]_toolchainVars PROVE TInv'
    OBVIOUS
  <1>1. CASE UNCHANGED toolchainVars
    <2>1. edits' = edits /\ made' = made /\ job' = job /\ met' = met
      BY <1>1 DEF toolchainVars
    <2>2. \A c \in Callers : JobInv(c)'
      BY <2>1 DEF TInv, JobInv, Running
    <2>. QED  BY <2>1, <2>2 DEF TInv
  <1>2. ASSUME NEW c \in Callers, NEW r \in Requests, Command(c, r) PROVE TInv'
    BY <1>2, CommandInv
  <1>3. ASSUME NEW c \in Callers, StartTool(c) \/ EndTool(c) \/ StopTool(c) PROVE TInv'
    BY <1>3, StartInv, EndInv, StopInv
  <1>4. ASSUME NEW p \in Projects, EditSources(p) PROVE TInv'
    BY <1>4, EditInv
  <1>5. CASE StartOver
    BY <1>5, AfreshInv
  <1>. QED  BY <1>1, <1>2, <1>3, <1>4, <1>5 DEF ToolchainNext

LEMMA TInvAlways == ToolchainSpec => []TInv
  BY ToolchainInitInv, ToolchainStepInv, PTL DEF ToolchainSpec

-----------------------------------------------------------------------------
(* The toolchain: what is reported done *)

\* For any projects, sections, flags and tools, any number of commands at once, any
\* failures and edits, a platform with generated TypeScript or without: a command that
\* gets to its end beside none that writes where it reads or writes leaves each of its
\* artefacts whole, made from the sources as they were since it was given and from
\* what gen has left, and gen leaves its own as the schema, dlc.toml and the platform
\* were since it was given (runBuild(), runRun(), runGen()).
THEOREM DoneIsFresh == ToolchainSpec => DoneMeansFresh
  <1>1. ASSUME TInv, NEW c \in Callers, EndTool(c), ~Running(c)', ~met[c],
               NEW place \in Outputs(job[c].request)
        PROVE  \E v \in job[c].since[Origin(job[c].request, place)[2]]
                            ..edits[Origin(job[c].request, place)[2]] :
                   Found(place)' = {<<Origin(job[c].request, place), v>>}
                       \cup UNION {Found(q) : q \in Besides(job[c].request, place)}
    <2> DEFINE k == job[c]
               P == PlanOf(k)
    <2>1. /\ Running(c) /\ k.busy /\ made' = Putting(Now(c).to, k.read)
      BY <1>1 DEF EndTool
    <2>2. k \in Job /\ OnPlan(k)
      BY <1>1, <2>1 DEF TInv, JobInv
    <2>3. /\ DoneOf(k) \in Nat /\ Len(P) \in Nat /\ Len(k.todo) \in Nat /\ WellMade(k.request, P)
          /\ k.todo \in Seq(AllSteps)
      BY <2>2, AtStep DEF Job
    <2>4. Len(k.todo) = 1
      <3> SUFFICES ASSUME Len(k.todo) # 1 PROVE FALSE
        OBVIOUS
      <3>1. Len(k.todo) > 1
        BY <2>2, <2>3, Counting DEF OnPlan
      <3>2. Tail(k.todo) \in Seq(AllSteps) /\ Len(Tail(k.todo)) # 0
        BY <2>3, <3>1, Cut
      <3> DEFINE l == Ended(k, Tail(k.todo))
      <3>3. l \in Job /\ l.todo = Tail(k.todo)
        BY <2>2, <3>2, EndedFields
      <3>4. job' = [job EXCEPT ![c] = l]
        BY <1>1 DEF EndTool, Ended
      <3> HIDE DEF l
      <3>5. job'[c] = l
        BY <1>1, <3>3, <3>4, OneJobMoves
      <3>6. l.todo # <<>>
        BY <3>2, <3>3, NotEmpty
      <3>. QED  BY <1>1, <3>5, <3>6 DEF Running
    <2>5. DoneOf(k) + 1 = Len(P)
      BY <2>3, <2>4 DEF DoneOf
    <2>6. PICK i \in 1..Len(P) : P[i].to = place /\ P[i].from # {}
      <3>1. PICK j \in 1..Len(P) : P[j].to = place
        <4>1. DOMAIN P = 1..Len(P) /\ P = Plan(k.request)
          BY <2>3 DEF WellMade, PlanOf
        <4>. QED  BY <1>1, <4>1 DEF Outputs
      <3>2. P[j].from = {} => Clears(P, j)
        BY <2>3 DEF WellMade, FromOrigin, FromEarlier
      <3>. QED  BY <3>1, <3>2 DEF Clears
    <2>7. /\ FreshFor(k.request, place, k.since, edits, made', At(made', place))
          /\ \A q \in Besides(k.request, place) : At(made', q) = At(made, q)
      BY <1>1, <2>1, <2>5, <2>6, StepDone
    <2> DEFINE o == Origin(k.request, place)
               B == Besides(k.request, place)
    <2>8. PICK v \in k.since[o[2]]..edits[o[2]] :
              At(made', place) = {<<o, v>>} \cup UNION {At(made', q) : q \in B}
      BY <2>7 DEF FreshFor
    <2>9. \A q \in B : At(made', q) = Found(q)
      BY <2>7 DEF At, Found
    <2>10. Found(place)' = At(made', place)
      BY DEF At, Found
    <2> HIDE DEF o, B
    <2>11. Found(place)' = {<<o, v>>} \cup UNION {Found(q) : q \in B}
      BY <2>8, <2>9, <2>10
    <2>. QED  BY <2>11 DEF o, B
  <1>2. TInv /\ [ToolchainNext]_toolchainVars =>
          [\A c \in Callers : EndTool(c) /\ ~Running(c)' /\ ~met[c] =>
              LET r == job[c].request
              IN  \A place \in Outputs(r) :
                      LET o == Origin(r, place)
                      IN  \E v \in job[c].since[o[2]]..edits[o[2]] :
                             Found(place)' = {<<o, v>>}
                                 \cup UNION {Found(q) : q \in Besides(r, place)}
          ]_toolchainVars
    BY <1>1
  <1>. QED  BY <1>2, TInvAlways, PTL DEF ToolchainSpec, DoneMeansFresh

HIDE ToolchainAssumption
USE WatchersAssumption

-----------------------------------------------------------------------------
(* The views: the invariant *)

Read == [found : Nat, overtaken : BOOLEAN]
ViewState == {"absent", "subscribing", "mounted", "destroyed"}

\* What the views follow: moves are whole at even numbers, and each signal posted
\* is one move.
FactInv ==
    /\ fact \in 0..(2 * MaxMoves)
    /\ \E n \in 0..MaxMoves : whole = 2 * n /\ posted <= n
    /\ whole <= fact
    /\ moving => signal = "flush" /\ \E m \in Nat : fact = 2 * m + 1
    /\ signal = "environment" => fact = whole

\* Who listens, and to what.
ListenInv(v) ==
    /\ Following(v) => v \in listeners
    /\ view[v] = "mounted" => relay = "installed"
    /\ ~Following(v) => reads[v] = <<>>

\* What has been read was there.
ReadInv(v) ==
    /\ Len(reads[v]) <= MaxReads
    /\ shown[v] <= fact
    /\ \A i \in 1..Len(reads[v]) : reads[v][i].found <= fact + 1

\* The answers s end in one that is still to look, or has seen the last move w.
EndsInformed(s, w) ==
    s # <<>> /\ (s[Len(s)].found = 0 \/ s[Len(s)].found > w)

\* The safety half of ViewsCatchUp: a view that is behind and has no excuse has a
\* signal on its way, or the last of its re-reads under way brings what it lacks, or
\* it lost that one to the flush that is under way.
NobodyForgotten ==
    \A v \in Views :
        Following(v) /\ shown[v] < whole =>
            excused[v] \/ v \in upset \/ posted > 0 \/ EndsInformed(reads[v], whole)

\* All of s that have not been overtaken bring the last move w, or will.
AllInformed(s, w) ==
    \A i \in 1..Len(s) : ~s[i].overtaken => s[i].found = 0 \/ s[i].found > w

\* And one that is not behind has no answer to come that would put it back.
Remembered(v) ==
    Following(v) =>
        \/ excused[v] \/ v \in upset \/ posted > 0
        \/ EndsInformed(reads[v], whole)
        \/ shown[v] >= whole /\ AllInformed(reads[v], whole)

TypeInv ==
    /\ signal \in Signals /\ fact \in Nat /\ whole \in Nat /\ posted \in Nat
    /\ moving \in BOOLEAN /\ relay \in {"none", "sent", "installed"}
    /\ view \in [Views -> ViewState] /\ reads \in [Views -> Seq(Read)]
    /\ shown \in [Views -> Nat] /\ excused \in [Views -> BOOLEAN]

WInv ==
    /\ TypeInv /\ FactInv
    /\ upset # {} => moving
    /\ \A v \in Views : ListenInv(v) /\ ReadInv(v) /\ Remembered(v)

-----------------------------------------------------------------------------
(* The views: sequences of re-reads *)

LEMMA AskedIsRead == Asked \in Read /\ Asked.found = 0
  BY DEF Asked, Read

LEMMA FoundIn ==
    ASSUME NEW x \in Read, NEW n \in Nat
    PROVE  [x EXCEPT !.found = n] \in Read /\ [x EXCEPT !.found = n].found = n
  BY DEF Read

LEMMA Appended ==
    ASSUME NEW s \in Seq(Read), NEW w
    PROVE  /\ Append(s, Asked) \in Seq(Read) /\ Len(Append(s, Asked)) = Len(s) + 1
           /\ \A i \in 1..Len(s) : Append(s, Asked)[i] = s[i]
           /\ Append(s, Asked)[Len(s) + 1] = Asked
           /\ EndsInformed(Append(s, Asked), w)
  <1> DEFINE t == Append(s, Asked)
  <1>1. /\ t \in Seq(Read) /\ Len(t) = Len(s) + 1 /\ Len(s) \in Nat
        /\ \A i \in 1..Len(s) : t[i] = s[i]
        /\ t[Len(s) + 1] = Asked
    BY AskedIsRead, AppendProperties
  <1>2. t # <<>>
    BY <1>1
  <1>3. EndsInformed(t, w)
    BY <1>1, <1>2, AskedIsRead DEF EndsInformed
  <1>. QED  BY <1>1, <1>3

LEMMA Removed ==
    ASSUME NEW S, NEW s \in Seq(S), NEW i \in 1..Len(s)
    PROVE  /\ RemoveAt(s, i) \in Seq(S) /\ Len(RemoveAt(s, i)) = Len(s) - 1
           /\ \A j \in 1..(Len(s) - 1) : RemoveAt(s, i)[j] = IF j < i THEN s[j] ELSE s[j + 1]
  <1> DEFINE a == SubSeq(s, 1, i - 1)
             b == SubSeq(s, i + 1, Len(s))
  <1>1. Len(s) \in Nat /\ i \in Nat /\ 1 <= i /\ i <= Len(s)
    BY LenProperties
  <1>2. \A j \in 1..Len(s) : s[j] \in S
    OBVIOUS
  <1>3. a \in Seq(S) /\ Len(a) = i - 1 /\ \A j \in 1..(i - 1) : a[j] = s[j]
    BY <1>1, <1>2
  <1>4. b \in Seq(S) /\ Len(b) = Len(s) - i /\ \A j \in 1..(Len(s) - i) : b[j] = s[j + i]
    BY <1>1, <1>2
  <1>5. RemoveAt(s, i) = a \o b
    BY DEF RemoveAt
  <1> HIDE DEF a, b
  <1>6. /\ a \o b \in Seq(S) /\ Len(a \o b) = Len(a) + Len(b)
        /\ \A j \in 1..(Len(a) + Len(b)) :
              (a \o b)[j] = IF j <= Len(a) THEN a[j] ELSE b[j - Len(a)]
    BY <1>3, <1>4, ConcatProperties
  <1>7. Len(a) + Len(b) = Len(s) - 1
    BY <1>1, <1>3, <1>4
  <1>8. ASSUME NEW j \in 1..(Len(s) - 1)
        PROVE  (a \o b)[j] = IF j < i THEN s[j] ELSE s[j + 1]
    <2>1. j \in 1..(Len(a) + Len(b))
      BY <1>7
    <2>2. CASE j < i
      <3>1. j <= Len(a) /\ j \in 1..(i - 1)
        BY <1>1, <1>3, <2>2
      <3>. QED  BY <1>3, <1>6, <2>1, <2>2, <3>1
    <2>3. CASE ~(j < i)
      <3>1. ~(j <= Len(a)) /\ j - Len(a) = j - (i - 1) /\ j - (i - 1) \in 1..(Len(s) - i)
        BY <1>1, <1>3, <2>3
      <3>2. (j - (i - 1)) + i = j + 1
        BY <1>1
      <3>. QED  BY <1>4, <1>6, <2>1, <2>3, <3>1, <3>2
    <2>. QED  BY <2>2, <2>3
  <1>. QED  BY <1>5, <1>6, <1>7, <1>8

LEMMA OvertakenReads ==
    ASSUME NEW s \in Seq(Read), NEW i \in Nat
    PROVE  /\ Overtaken(s, i) \in Seq(Read) /\ Len(Overtaken(s, i)) = Len(s)
           /\ \A j \in 1..Len(s) :
                 /\ Overtaken(s, i)[j].found = s[j].found
                 /\ j < i => Overtaken(s, i)[j].overtaken = TRUE
  <1> DEFINE late(j) == s[j].overtaken \/ j < i
             t == [j \in DOMAIN s |-> [s[j] EXCEPT !.overtaken = late(j)]]
  <1>1. Len(s) \in Nat /\ DOMAIN s = 1..Len(s) /\ \A j \in 1..Len(s) : s[j] \in Read
    OBVIOUS
  <1>2. \A j \in 1..Len(s) : late(j) \in BOOLEAN /\ (j < i => late(j) = TRUE)
    OBVIOUS
  <1>3. Overtaken(s, i) = t
    BY DEF Overtaken
  <1> HIDE DEF late
  <1>4. \A j \in 1..Len(s) : /\ t[j] \in Read /\ t[j].found = s[j].found
                             /\ t[j].overtaken = late(j)
    BY <1>1, <1>2 DEF Read
  <1>5. t \in Seq(Read) /\ Len(t) = Len(s)
    <2>1. DOMAIN t = 1..Len(s)
      BY <1>1
    <2> HIDE DEF t
    <2>. QED  BY <1>1, <1>3, <1>4, <2>1 DEF Overtaken
  <1> HIDE DEF t
  <1>. QED  BY <1>2, <1>3, <1>4, <1>5

-----------------------------------------------------------------------------
(* The views: at work *)

\* A step of the view v: the worker and the other views are as they were.
LEMMA OneView ==
    ASSUME WInv, NEW v \in Views, TypeInv',
           UNCHANGED <<signal, fact, whole, moving, posted>>,
           relay = "installed" => relay' = "installed",
           \A w \in Views : w # v =>
               /\ view'[w] = view[w] /\ reads'[w] = reads[w] /\ shown'[w] = shown[w]
               /\ excused[w] => excused'[w]
               /\ w \in listeners => w \in listeners'
               /\ w \in upset => w \in upset',
           upset' # {} => moving,
           ListenInv(v)', ReadInv(v)', Remembered(v)'
    PROVE  WInv'
  <1>1. FactInv'
    BY DEF WInv, FactInv
  <1>2. ASSUME NEW w \in Views, w # v PROVE ListenInv(w)' /\ ReadInv(w)' /\ Remembered(w)'
    <2>1. ListenInv(w) /\ ReadInv(w) /\ Remembered(w)
      BY DEF WInv
    <2>2. ListenInv(w)'
      BY <1>2, <2>1 DEF ListenInv, Following
    <2>3. ReadInv(w)'
      BY <1>2, <2>1 DEF ReadInv
    <2>4. Remembered(w)'
      BY <1>2, <2>1 DEF Remembered, Following
    <2>. QED  BY <2>2, <2>3, <2>4
  <1>. QED  BY <1>1, <1>2 DEF WInv

LEMMA MountInv ==
    ASSUME WInv, NEW v \in Views, Mount(v)
    PROVE  WInv'
  <1>1. /\ view[v] = "absent" /\ view' = [view EXCEPT ![v] = "subscribing"]
        /\ listeners' = listeners \cup {v}
        /\ relay' = IF relay = "none" THEN "sent" ELSE relay
        /\ reads' = [reads EXCEPT ![v] = Append(reads[v], Asked)]
        /\ shown' = shown /\ excused' = excused /\ upset' = upset
        /\ UNCHANGED <<signal, fact, whole, moving, posted>>
    BY DEF Mount, workerVars
  <1>2. TypeInv /\ ListenInv(v) /\ ReadInv(v) /\ reads[v] \in Seq(Read)
    BY DEF WInv, TypeInv
  <1>3. /\ Append(reads[v], Asked) \in Seq(Read)
        /\ Len(Append(reads[v], Asked)) = Len(reads[v]) + 1
        /\ Append(reads[v], Asked)[Len(reads[v]) + 1] = Asked
        /\ EndsInformed(Append(reads[v], Asked), whole)
    BY <1>2, Appended
  <1>4. TypeInv'
    <2>1. view' \in [Views -> ViewState]
      BY <1>1, <1>2 DEF TypeInv, ViewState
    <2>2. reads' \in [Views -> Seq(Read)]
      BY <1>1, <1>2, <1>3 DEF TypeInv
    <2>3. relay' \in {"none", "sent", "installed"}
      BY <1>1, <1>2 DEF TypeInv
    <2>. QED  BY <1>1, <1>2, <2>1, <2>2, <2>3 DEF TypeInv
  <1>5. view'[v] = "subscribing" /\ reads'[v] = Append(reads[v], Asked)
    BY <1>1, <1>2 DEF TypeInv
  <1>6. reads[v] = <<>> /\ Len(reads[v]) = 0
    <2>1. ~Following(v)
      BY <1>1 DEF Following
    <2>2. reads[v] = <<>>
      BY <1>2, <2>1 DEF ListenInv
    <2>. QED  BY <2>2
  <1>7. ListenInv(v)'
    BY <1>1, <1>5 DEF ListenInv, Following
  <1>8. ReadInv(v)'
    <2>1. Len(reads'[v]) = 1 /\ reads'[v][1] = Asked
      BY <1>3, <1>5, <1>6
    <2>2. Asked.found <= fact + 1 /\ 1 <= MaxReads
      BY <1>2, AskedIsRead DEF TypeInv
    <2>3. \A i \in 1..Len(reads'[v]) : reads'[v][i].found <= fact + 1
      <3>1. \A i \in 1..1 : i = 1
        OBVIOUS
      <3>. QED  BY <2>1, <2>2, <3>1
    <2>. QED  BY <1>1, <1>2, <2>1, <2>2, <2>3 DEF ReadInv
  <1>9. Remembered(v)'
    BY <1>1, <1>3, <1>5 DEF Remembered
  <1>10. relay = "installed" => relay' = "installed"
    BY <1>1
  <1>11. upset' # {} => moving
    BY <1>1 DEF WInv
  <1>12. \A w \in Views : w # v =>
            /\ view'[w] = view[w] /\ reads'[w] = reads[w] /\ shown'[w] = shown[w]
            /\ excused[w] => excused'[w]
            /\ w \in listeners => w \in listeners'
            /\ w \in upset => w \in upset'
    BY <1>1, <1>2 DEF TypeInv
  <1>. QED  BY <1>1, <1>4, <1>7, <1>8, <1>9, <1>10, <1>11, <1>12, OneView

LEMMA SubscribedInv ==
    ASSUME WInv, NEW v \in Views, Subscribed(v)
    PROVE  WInv'
  <1>1. /\ view[v] = "subscribing" /\ relay = "installed"
        /\ view' = [view EXCEPT ![v] = "mounted"]
        /\ reads' = reads /\ shown' = shown /\ excused' = excused /\ upset' = upset
        /\ listeners' = listeners /\ relay' = relay
        /\ UNCHANGED <<signal, fact, whole, moving, posted>>
    BY DEF Subscribed, workerVars
  <1>2. TypeInv /\ ListenInv(v) /\ ReadInv(v) /\ Remembered(v)
    BY DEF WInv
  <1>3. view' \in [Views -> ViewState] /\ view'[v] = "mounted"
    BY <1>1, <1>2 DEF TypeInv, ViewState
  <1>4. TypeInv'
    BY <1>1, <1>2, <1>3 DEF TypeInv
  <1>5. Following(v) /\ Following(v)'
    BY <1>1, <1>3 DEF Following
  <1>6. ListenInv(v)' /\ ReadInv(v)' /\ Remembered(v)'
    BY <1>1, <1>2, <1>5 DEF ListenInv, ReadInv, Remembered
  <1>7. \A w \in Views : w # v => view'[w] = view[w]
    BY <1>1, <1>2 DEF TypeInv
  <1>8. upset' # {} => moving
    BY <1>1 DEF WInv
  <1>. QED  BY <1>1, <1>4, <1>6, <1>7, <1>8, OneView

LEMMA DestroyInv ==
    ASSUME WInv, NEW v \in Views, Destroy(v)
    PROVE  WInv'
  <1>1. /\ view' = [view EXCEPT ![v] = "destroyed"]
        /\ listeners' = IF view[v] = "mounted" THEN listeners \ {v} ELSE listeners
        /\ reads' = [reads EXCEPT ![v] = <<>>] /\ shown' = [shown EXCEPT ![v] = 0]
        /\ excused' = [excused EXCEPT ![v] = FALSE] /\ upset' = upset \ {v}
        /\ relay' = relay /\ UNCHANGED <<signal, fact, whole, moving, posted>>
    BY DEF Destroy, workerVars
  <1>2. TypeInv
    BY DEF WInv
  <1>3. /\ view' \in [Views -> ViewState] /\ view'[v] = "destroyed"
        /\ reads' \in [Views -> Seq(Read)] /\ reads'[v] = <<>>
        /\ shown' \in [Views -> Nat] /\ shown'[v] = 0
        /\ excused' \in [Views -> BOOLEAN]
    BY <1>1, <1>2 DEF TypeInv, ViewState
  <1>4. TypeInv'
    BY <1>1, <1>2, <1>3 DEF TypeInv
  <1>5. ~Following(v)'
    BY <1>3 DEF Following
  <1>6. ListenInv(v)' /\ Remembered(v)'
    BY <1>3, <1>5 DEF ListenInv, Remembered
  <1>7. ReadInv(v)'
    <2>1. Len(reads'[v]) = 0 /\ fact \in Nat /\ 0 <= MaxReads /\ 1..0 = {}
      BY <1>2, <1>3 DEF TypeInv
    <2>. QED  BY <1>1, <1>3, <2>1 DEF ReadInv
  <1>8. \A w \in Views : w # v =>
            /\ view'[w] = view[w] /\ reads'[w] = reads[w] /\ shown'[w] = shown[w]
            /\ excused[w] => excused'[w]
            /\ w \in listeners => w \in listeners'
            /\ w \in upset => w \in upset'
    BY <1>1, <1>2 DEF TypeInv
  <1>9. upset' # {} => moving
    BY <1>1 DEF WInv
  <1>. QED  BY <1>1, <1>4, <1>6, <1>7, <1>8, <1>9, OneView

LEMMA LookInv ==
    ASSUME WInv, NEW v \in Views, NEW i, Look(v, i)
    PROVE  WInv'
  <1> DEFINE s == reads[v]
             x == [s[i] EXCEPT !.found = fact + 1]
             t == [s EXCEPT ![i] = x]
  <1>1. /\ i \in DOMAIN s /\ view' = view /\ shown' = shown /\ excused' = excused /\ upset' = upset
        /\ listeners' = listeners /\ relay' = relay
        /\ UNCHANGED <<signal, fact, whole, moving, posted>>
    BY DEF Look, workerVars
  <1>2. TypeInv /\ ListenInv(v) /\ ReadInv(v) /\ Remembered(v) /\ s \in Seq(Read)
        /\ fact \in Nat /\ whole \in Nat /\ whole <= fact
    BY DEF WInv, TypeInv, FactInv
  <1>3. reads' = [reads EXCEPT ![v] = t]
    BY <1>1, <1>2 DEF Look, TypeInv
  <1>4. x \in Read /\ x.found = fact + 1
    <2>1. s[i] \in Read
      BY <1>1, <1>2
    <2>2. fact + 1 \in Nat
      BY <1>2
    <2>. QED  BY <2>1, <2>2, FoundIn
  <1> HIDE DEF x, s
  <1>5. /\ t \in Seq(Read) /\ Len(t) = Len(s) /\ i \in 1..Len(s) /\ t[i] = x
        /\ \A j \in 1..Len(s) : j # i => t[j] = s[j]
    BY <1>1, <1>2, <1>4
  <1> HIDE DEF t
  <1>6. reads' \in [Views -> Seq(Read)] /\ reads'[v] = t
    BY <1>2, <1>3, <1>5 DEF TypeInv
  <1>7. TypeInv'
    BY <1>1, <1>2, <1>6 DEF TypeInv
  <1>8. s # <<>> /\ t # <<>> /\ Len(s) \in 1..Len(s) /\ Len(s) \in Nat
    BY <1>2, <1>5
  <1>9. ListenInv(v)'
    BY <1>1, <1>2, <1>8 DEF ListenInv, Following, s
  <1>10. ReadInv(v)'
    <2>1. \A j \in 1..Len(t) : t[j].found <= fact + 1
      <3> TAKE j \in 1..Len(t)
      <3>1. CASE j = i
        BY <1>2, <1>4, <1>5, <3>1
      <3>2. CASE j # i
        BY <1>2, <1>5, <3>2 DEF ReadInv, s
      <3>. QED  BY <3>1, <3>2
    <2>2. Len(t) <= MaxReads
      BY <1>2, <1>5 DEF ReadInv, s
    <2>. QED  BY <1>1, <1>2, <1>6, <2>1, <2>2 DEF ReadInv
  <1>11. Remembered(v)'
    <2>1. EndsInformed(s, whole) => EndsInformed(t, whole)
      <3>1. CASE Len(s) = i
        <4>1. t[Len(t)].found > whole
          BY <1>2, <1>4, <1>5, <3>1
        <4>. QED  BY <1>8, <4>1 DEF EndsInformed
      <3>2. CASE Len(s) # i
        <4>1. t[Len(t)] = s[Len(s)]
          BY <1>5, <1>8, <3>2
        <4>. QED  BY <1>8, <4>1 DEF EndsInformed
      <3>. QED  BY <3>1, <3>2
    <2>2. AllInformed(s, whole) => AllInformed(t, whole)
      <3> SUFFICES ASSUME AllInformed(s, whole), NEW j \in 1..Len(t), ~t[j].overtaken
                   PROVE  t[j].found = 0 \/ t[j].found > whole
        BY DEF AllInformed
      <3>1. CASE j = i
        BY <1>2, <1>4, <1>5, <3>1
      <3>2. CASE j # i
        BY <1>5, <3>2 DEF AllInformed
      <3>. QED  BY <3>1, <3>2
    <2>. QED  BY <1>1, <1>2, <1>6, <2>1, <2>2 DEF Remembered, Following, s
  <1>12. \A w \in Views : w # v => reads'[w] = reads[w]
    BY <1>2, <1>3 DEF TypeInv
  <1>13. upset' # {} => moving
    BY <1>1 DEF WInv
  <1>. QED  BY <1>1, <1>7, <1>9, <1>10, <1>11, <1>12, <1>13, OneView

LEMMA AnswerInv ==
    ASSUME WInv, NEW v \in Views, NEW i, Answer(v, i)
    PROVE  WInv'
  <1> DEFINE s == reads[v]
             o == Overtaken(s, i)
             t == RemoveAt(o, i)
             f == s[i].found - 1
             n == Len(s)
             late == excused[v] \/ s[i].overtaken
  <1>1. /\ i \in DOMAIN s /\ s[i].found > 0
        /\ view' = view /\ upset' = upset /\ listeners' = listeners /\ relay' = relay
        /\ shown' = [shown EXCEPT ![v] = f]
        /\ reads' = [reads EXCEPT ![v] = t]
        /\ excused' = [excused EXCEPT ![v] = late]
        /\ UNCHANGED <<signal, fact, whole, moving, posted>>
    BY DEF Answer, workerVars
  <1>2. /\ TypeInv /\ ListenInv(v) /\ ReadInv(v) /\ Remembered(v) /\ s \in Seq(Read)
        /\ fact \in Nat /\ whole \in Nat /\ whole <= fact
    BY DEF WInv, TypeInv, FactInv
  <1>3. i \in 1..n /\ n \in Nat /\ i \in Nat /\ s # <<>> /\ \A j \in 1..n : s[j] \in Read
    BY <1>1, <1>2
  <1>4. f \in Nat /\ f <= fact /\ s[i].found = f + 1
    <2>1. s[i].found \in Nat
      BY <1>3 DEF Read
    <2>2. s[i].found <= fact + 1
      BY <1>2, <1>3 DEF ReadInv
    <2>. QED  BY <1>1, <1>2, <2>1, <2>2
  <1>5. late \in BOOLEAN
    OBVIOUS
  <1>6. /\ o \in Seq(Read) /\ Len(o) = n
        /\ \A j \in 1..n : o[j].found = s[j].found /\ (j < i => o[j].overtaken = TRUE)
    BY <1>2, <1>3, OvertakenReads
  <1>7. \A j \in 1..n : s[j].overtaken => o[j].overtaken
    <2>1. \A j \in DOMAIN s : o[j] = [s[j] EXCEPT !.overtaken = s[j].overtaken \/ j < i]
      BY DEF Overtaken
    <2>2. \A j \in 1..n : j \in DOMAIN s
      BY <1>2
    <2> HIDE DEF o
    <2>3. ASSUME NEW j \in 1..n, s[j].overtaken PROVE o[j].overtaken
      <3>1. s[j] \in Read
        BY <1>3
      <3> DEFINE b == s[j].overtaken \/ j < i
      <3>2. b = TRUE
        BY <2>3
      <3> HIDE DEF b
      <3>3. o[j] = [s[j] EXCEPT !.overtaken = b]
        BY <2>1, <2>2 DEF b
      <3>. QED  BY <3>1, <3>2, <3>3 DEF Read
    <2>. QED  BY <2>3
  <1> HIDE DEF o
  <1>8. /\ t \in Seq(Read) /\ Len(t) = n - 1
        /\ \A j \in 1..(n - 1) : t[j] = IF j < i THEN o[j] ELSE o[j + 1]
    <2>1. i \in 1..Len(o)
      BY <1>3, <1>6
    <2>2. /\ t \in Seq(Read) /\ Len(t) = Len(o) - 1
          /\ \A j \in 1..(Len(o) - 1) : t[j] = IF j < i THEN o[j] ELSE o[j + 1]
      BY <1>6, <2>1, Removed
    <2>. QED  BY <1>6, <2>2
  <1> HIDE DEF t, late, f
  <1>9. /\ reads' \in [Views -> Seq(Read)] /\ reads'[v] = t
        /\ shown' \in [Views -> Nat] /\ shown'[v] = f
        /\ excused' \in [Views -> BOOLEAN] /\ excused'[v] = late
    BY <1>1, <1>2, <1>4, <1>5, <1>8 DEF TypeInv
  <1>10. TypeInv'
    BY <1>1, <1>2, <1>9 DEF TypeInv
  <1>11. ListenInv(v)'
    BY <1>1, <1>2, <1>3 DEF ListenInv, Following
  <1>12. ReadInv(v)'
    <2>1. n - 1 <= MaxReads
      BY <1>2, <1>3 DEF ReadInv
    <2>2. \A j \in 1..n : o[j].found <= fact + 1
      BY <1>2, <1>6 DEF ReadInv
    <2>3. \A j \in 1..(n - 1) : j \in 1..n /\ j + 1 \in 1..n
      BY <1>3
    <2>4. \A j \in 1..(n - 1) : t[j].found <= fact + 1
      BY <1>8, <2>2, <2>3
    <2>. QED  BY <1>1, <1>4, <1>8, <1>9, <2>1, <2>4 DEF ReadInv
  <1>13. Remembered(v)'
    <2> SUFFICES ASSUME Following(v)', ~excused'[v], v \notin upset', ~(posted' > 0)
                 PROVE  \/ EndsInformed(t, whole)
                        \/ f >= whole /\ AllInformed(t, whole)
      BY <1>1, <1>9 DEF Remembered
    <2>1. ~excused[v] /\ ~s[i].overtaken
      BY <1>9 DEF late
    <2>2. EndsInformed(s, whole) \/ (shown[v] >= whole /\ AllInformed(s, whole))
      BY <1>1, <1>2, <2>1 DEF Remembered, Following
    <2>3. CASE EndsInformed(s, whole) /\ i # n
      <3>1. n - 1 \in 1..(n - 1) /\ ~(n - 1 < i) /\ (n - 1) + 1 = n /\ n \in 1..n
        BY <1>3, <2>3
      <3>2. t[n - 1] = o[n]
        BY <1>8, <3>1
      <3>3. o[n].found = s[n].found
        BY <1>6, <3>1
      <3>4. t # <<>>
        BY <1>8, <3>1
      <3>. QED  BY <1>8, <2>3, <3>2, <3>3, <3>4 DEF EndsInformed
    <2>4. CASE EndsInformed(s, whole) /\ i = n
      <3>1. f >= whole
        BY <1>1, <1>2, <1>4, <2>4 DEF EndsInformed
      <3>2. \A j \in 1..(n - 1) : j < i /\ j \in 1..n
        BY <1>3, <2>4
      <3>3. \A j \in 1..(n - 1) : t[j].overtaken = TRUE
        BY <1>6, <1>8, <3>2
      <3>. QED  BY <1>8, <3>1, <3>3 DEF AllInformed
    <2>5. CASE shown[v] >= whole /\ AllInformed(s, whole)
      <3>1. f >= whole
        <4>1. s[i].found > whole
          BY <1>1, <1>3, <1>4, <2>1, <2>5 DEF AllInformed
        <4>. QED  BY <1>2, <1>4, <4>1
      <3>2. \A j \in 1..n : ~o[j].overtaken => o[j].found = 0 \/ o[j].found > whole
        BY <1>6, <1>7, <2>5 DEF AllInformed
      <3>3. \A j \in 1..(n - 1) : j \in 1..n /\ j + 1 \in 1..n
        BY <1>3
      <3>4. \A j \in 1..(n - 1) : ~t[j].overtaken => t[j].found = 0 \/ t[j].found > whole
        BY <1>8, <3>2, <3>3
      <3>. QED  BY <1>8, <3>1, <3>4 DEF AllInformed
    <2>. QED  BY <2>2, <2>3, <2>4, <2>5
  <1>14. \A w \in Views : w # v =>
            reads'[w] = reads[w] /\ shown'[w] = shown[w] /\ excused'[w] = excused[w]
    BY <1>1, <1>2 DEF TypeInv
  <1>15. upset' # {} => moving
    BY <1>1 DEF WInv
  <1>. QED  BY <1>1, <1>10, <1>11, <1>12, <1>13, <1>14, <1>15, OneView

LEMMA LoseInv ==
    ASSUME WInv, NEW v \in Views, NEW i, Lose(v, i)
    PROVE  WInv'
  <1> DEFINE s == reads[v]
             t == RemoveAt(s, i)
             n == Len(s)
             lost == excused[v] \/ ~moving
  <1>1. /\ i \in DOMAIN s
        /\ view' = view /\ listeners' = listeners /\ relay' = relay /\ shown' = shown
        /\ reads' = [reads EXCEPT ![v] = t]
        /\ upset' = IF moving THEN upset \cup {v} ELSE upset
        /\ excused' = [excused EXCEPT ![v] = lost]
        /\ UNCHANGED <<signal, fact, whole, moving, posted>>
    BY DEF Lose, workerVars
  <1>2. TypeInv /\ ListenInv(v) /\ ReadInv(v) /\ s \in Seq(Read)
    BY DEF WInv, TypeInv
  <1>3. i \in 1..n /\ n \in Nat /\ i \in Nat /\ s # <<>>
    BY <1>1, <1>2
  <1>4. /\ t \in Seq(Read) /\ Len(t) = n - 1
        /\ \A j \in 1..(n - 1) : t[j] = IF j < i THEN s[j] ELSE s[j + 1]
    BY <1>2, <1>3, Removed
  <1>5. lost \in BOOLEAN
    OBVIOUS
  <1> HIDE DEF t, lost
  <1>6. /\ reads' \in [Views -> Seq(Read)] /\ reads'[v] = t
        /\ excused' \in [Views -> BOOLEAN] /\ excused'[v] = lost
        /\ \A w \in Views : w # v => reads'[w] = reads[w] /\ excused'[w] = excused[w]
    BY <1>1, <1>2, <1>4, <1>5 DEF TypeInv
  <1>7. TypeInv'
    BY <1>1, <1>2, <1>6 DEF TypeInv
  <1>8. ListenInv(v)'
    BY <1>1, <1>2, <1>3 DEF ListenInv, Following
  <1>9. ReadInv(v)'
    <2>1. n - 1 <= MaxReads /\ shown[v] <= fact
      BY <1>2, <1>3 DEF ReadInv
    <2>2. \A j \in 1..n : s[j].found <= fact + 1
      BY <1>2 DEF ReadInv
    <2>3. \A j \in 1..(n - 1) : j \in 1..n /\ j + 1 \in 1..n
      BY <1>3
    <2>4. \A j \in 1..(n - 1) : t[j].found <= fact + 1
      BY <1>4, <2>2, <2>3
    <2>. QED  BY <1>1, <1>4, <1>6, <2>1, <2>4 DEF ReadInv
  <1>10. Remembered(v)'
    <2>1. CASE moving
      BY <1>1, <2>1 DEF Remembered
    <2>2. CASE ~moving
      BY <1>6, <2>2 DEF Remembered, lost
    <2>. QED  BY <2>1, <2>2
  <1>11. upset' # {} => moving
    BY <1>1 DEF WInv
  <1>. QED  BY <1>1, <1>6, <1>7, <1>8, <1>9, <1>10, <1>11, OneView

-----------------------------------------------------------------------------
(* The views: the worker and its signals *)

\* A step of the worker, or a delivery: the views are as they were, except that
\* some read again.
LEMMA WorkerStep ==
    ASSUME WInv, TypeInv', FactInv', fact <= fact',
           view' = view, shown' = shown, listeners' = listeners,
           relay = "installed" => relay' = "installed",
           upset' # {} => moving',
           \A v \in Views :
               \/ reads'[v] = reads[v]
               \/ Following(v) /\ Len(reads[v]) < MaxReads /\ reads'[v] = Append(reads[v], Asked),
           \A v \in Views : Remembered(v)'
    PROVE  WInv'
  <1>1. ASSUME NEW v \in Views PROVE ListenInv(v)' /\ ReadInv(v)'
    <2>1. ListenInv(v) /\ ReadInv(v) /\ reads[v] \in Seq(Read) /\ TypeInv
      BY DEF WInv, TypeInv
    <2>2. fact \in Nat /\ fact' \in Nat /\ shown[v] \in Nat
      BY <2>1 DEF TypeInv
    <2>3. shown'[v] <= fact'
      <3>1. shown[v] <= fact
        BY <2>1 DEF ReadInv
      <3>. QED  BY <2>2, <3>1
    <2>4. \A j \in 1..Len(reads[v]) : reads[v][j].found <= fact' + 1
      <3> TAKE j \in 1..Len(reads[v])
      <3>1. reads[v][j].found <= fact + 1
        BY <2>1 DEF ReadInv
      <3>2. reads[v][j].found \in Nat
        <4>1. reads[v][j] \in Read
          BY <2>1
        <4>. QED  BY <4>1 DEF Read
      <3>. QED  BY <2>2, <3>1, <3>2
    <2>5. CASE reads'[v] = reads[v]
      <3>1. ListenInv(v)'
        BY <2>1, <2>5 DEF ListenInv, Following
      <3>2. Len(reads'[v]) <= MaxReads
        BY <2>1, <2>5 DEF ReadInv
      <3>. QED  BY <2>3, <2>4, <2>5, <3>1, <3>2 DEF ReadInv
    <2>6. CASE Following(v) /\ Len(reads[v]) < MaxReads /\ reads'[v] = Append(reads[v], Asked)
      <3>1. ListenInv(v)'
        BY <2>1, <2>6 DEF ListenInv, Following
      <3>2. /\ Len(reads'[v]) = Len(reads[v]) + 1 /\ Len(reads[v]) \in Nat
            /\ \A j \in 1..Len(reads[v]) : reads'[v][j] = reads[v][j]
            /\ reads'[v][Len(reads[v]) + 1] = Asked
        BY <2>1, <2>6, Appended, LenProperties
      <3>3. Len(reads'[v]) <= MaxReads
        BY <2>6, <3>2
      <3>4. \A j \in 1..Len(reads'[v]) : reads'[v][j].found <= fact' + 1
        <4> TAKE j \in 1..Len(reads'[v])
        <4>1. j \in 1..Len(reads[v]) \/ j = Len(reads[v]) + 1
          BY <3>2
        <4>2. Asked.found <= fact' + 1
          <5>1. 0 <= fact' + 1
            BY <2>2
          <5>. QED  BY <5>1, AskedIsRead
        <4>. QED  BY <2>4, <3>2, <4>1, <4>2
      <3>. QED  BY <2>3, <3>1, <3>3, <3>4 DEF ReadInv
    <2>. QED  BY <2>5, <2>6
  <1>. QED  BY <1>1 DEF WInv

LEMMA InstallInv ==
    ASSUME WInv, Install
    PROVE  WInv'
  <1>1. /\ relay' = "installed" /\ view' = view /\ reads' = reads /\ shown' = shown
        /\ excused' = excused /\ upset' = upset /\ listeners' = listeners
        /\ UNCHANGED <<signal, fact, whole, moving, posted>>
    BY DEF Install, workerVars, viewVars
  <1>2. TypeInv'
    BY <1>1 DEF WInv, TypeInv
  <1>3. FactInv'
    BY <1>1 DEF WInv, FactInv
  <1>4. \A v \in Views : Remembered(v)'
    BY <1>1 DEF WInv, Remembered, Following
  <1>5. (upset' # {} => moving') /\ fact <= fact'
    BY <1>1 DEF WInv, TypeInv
  <1>. QED  BY <1>1, <1>2, <1>3, <1>4, <1>5, WorkerStep

LEMMA HearInv ==
    ASSUME WInv, Hear
    PROVE  WInv'
  <1> DEFINE kept(v) == excused[v] /\ v \notin HeardBy
  <1>1. /\ posted > 0 /\ posted' = posted - 1 /\ \A v \in HeardBy : Len(reads[v]) < MaxReads
        /\ reads' = [v \in Views |-> IF v \in HeardBy THEN Append(reads[v], Asked) ELSE reads[v]]
        /\ excused' = [v \in Views |-> kept(v)]
        /\ view' = view /\ shown' = shown /\ upset' = upset /\ listeners' = listeners
        /\ relay' = relay /\ UNCHANGED <<signal, fact, whole, moving>>
    BY DEF Hear, MayAsk, workerVars
  <1>2. TypeInv /\ FactInv /\ \A v \in Views : reads[v] \in Seq(Read)
    BY DEF WInv, TypeInv
  <1>3. \A v \in Views : Following(v) <=> v \in HeardBy
    BY DEF WInv, ListenInv, HeardBy
  <1>4. TypeInv'
    <2>1. posted' \in Nat
      BY <1>1, <1>2 DEF TypeInv
    <2>2. reads' \in [Views -> Seq(Read)]
      BY <1>1, <1>2, Appended
    <2>3. excused' \in [Views -> BOOLEAN]
      <3>1. \A v \in Views : kept(v) \in BOOLEAN
        OBVIOUS
      <3> HIDE DEF kept
      <3>. QED  BY <1>1, <3>1
    <2>. QED  BY <1>1, <1>2, <2>1, <2>2, <2>3 DEF TypeInv
  <1>5. FactInv'
    <2>1. PICK n \in 0..MaxMoves : whole = 2 * n /\ posted <= n
      BY <1>2 DEF FactInv
    <2>2. posted' <= n
      BY <1>1, <1>2, <2>1 DEF TypeInv
    <2>. QED  BY <1>1, <1>2, <2>1, <2>2 DEF FactInv
  <1>6. ASSUME NEW v \in Views
        PROVE  \/ reads'[v] = reads[v]
               \/ Following(v) /\ Len(reads[v]) < MaxReads /\ reads'[v] = Append(reads[v], Asked)
    BY <1>1, <1>3, <1>6
  <1>7. ASSUME NEW v \in Views PROVE Remembered(v)'
    <2> SUFFICES ASSUME Following(v)' PROVE Remembered(v)'
      BY DEF Remembered
    <2>1. v \in HeardBy
      BY <1>1, <1>3 DEF Following
    <2>2. reads'[v] = Append(reads[v], Asked)
      BY <1>1, <2>1
    <2>3. EndsInformed(reads'[v], whole')
      BY <1>2, <2>2, Appended
    <2>. QED  BY <2>3 DEF Remembered
  <1>8. (upset' # {} => moving') /\ fact <= fact'
    BY <1>1, <1>2 DEF WInv, TypeInv
  <1>. QED  BY <1>1, <1>4, <1>5, <1>6, <1>7, <1>8, WorkerStep

LEMMA Halves ==
    ASSUME NEW f \in Nat, NEW m \in Nat, f < 2 * m
    PROVE  /\ 2 * (f \div 2) + 1 \in 0..(2 * m) /\ f <= 2 * (f \div 2) + 1
           /\ f \div 2 \in Nat
  OBVIOUS

LEMMA BeginInv ==
    ASSUME WInv, BeginFlush
    PROVE  WInv'
  <1>1. /\ signal = "flush" /\ ~moving /\ moving' = TRUE
        /\ fact < 2 * MaxMoves /\ fact' = 2 * (fact \div 2) + 1
        /\ view' = view /\ reads' = reads /\ shown' = shown /\ excused' = excused
        /\ upset' = upset /\ listeners' = listeners /\ relay' = relay
        /\ UNCHANGED <<signal, whole, posted>>
    BY DEF BeginFlush, viewVars
  <1>2. TypeInv /\ FactInv
    BY DEF WInv
  <1>3. fact \in Nat /\ whole \in Nat /\ MaxMoves \in Nat /\ whole <= fact
    BY <1>2 DEF TypeInv, FactInv
  <1>4. /\ fact' \in 0..(2 * MaxMoves) /\ fact <= fact' /\ fact \div 2 \in Nat
    BY <1>1, <1>3, Halves
  <1>5. TypeInv'
    BY <1>1, <1>2, <1>4 DEF TypeInv
  <1>6. FactInv'
    <2>1. whole' <= fact'
      BY <1>1, <1>3, <1>4
    <2>2. \E m \in Nat : fact' = 2 * m + 1
      BY <1>1, <1>4
    <2>3. signal' # "environment"
      BY <1>1
    <2>4. \E n \in 0..MaxMoves : whole' = 2 * n /\ posted' <= n
      BY <1>1, <1>2 DEF FactInv
    <2>. QED  BY <1>1, <1>4, <2>1, <2>2, <2>3, <2>4 DEF FactInv
  <1>7. \A v \in Views : Remembered(v)'
    BY <1>1 DEF WInv, Remembered, Following
  <1>. QED  BY <1>1, <1>4, <1>5, <1>6, <1>7, WorkerStep

\* A move that is whole is signalled, or excuses whoever was to hear of it.
LEMMA MoveInv ==
    ASSUME WInv, Post, fact' \in 0..(2 * MaxMoves), fact <= fact', whole' = fact',
           NEW m \in 1..MaxMoves, whole' = 2 * m, whole < whole',
           moving' = FALSE, upset' = {} \/ (upset' = upset /\ ~moving),
           UNCHANGED <<signal, relay, listeners, view, reads, shown>>
    PROVE  WInv'
  <1> DEFINE missed(v) == excused[v] \/ Following(v)
  <1>1. TypeInv /\ FactInv
    BY DEF WInv
  <1>2. PICK n \in 0..MaxMoves : whole = 2 * n /\ posted <= n
    BY <1>1 DEF FactInv
  <1>3. n < m /\ posted \in Nat
    BY <1>1, <1>2 DEF TypeInv
  <1>4. \/ relay = "installed" /\ posted' = posted + 1 /\ excused' = excused
        \/ relay # "installed" /\ posted' = posted /\ excused' = [v \in Views |-> missed(v)]
    BY DEF Post
  <1>5. posted' \in Nat /\ posted' <= m
    BY <1>2, <1>3, <1>4
  <1>6. excused' \in [Views -> BOOLEAN]
    <2>1. \A v \in Views : missed(v) \in BOOLEAN
      OBVIOUS
    <2> HIDE DEF missed
    <2>. QED  BY <1>1, <1>4, <2>1 DEF TypeInv
  <1>7. fact' \in Nat /\ whole' \in Nat
    OBVIOUS
  <1>8. TypeInv'
    BY <1>1, <1>5, <1>6, <1>7 DEF TypeInv
  <1>9. FactInv'
    <2>1. m \in 0..MaxMoves
      OBVIOUS
    <2>2. \E k \in 0..MaxMoves : whole' = 2 * k /\ posted' <= k
      BY <1>5, <2>1
    <2>3. whole' <= fact' /\ fact' = whole'
      BY <1>7
    <2>. QED  BY <2>2, <2>3 DEF FactInv
  <1>10. ASSUME NEW v \in Views PROVE Remembered(v)'
    <2>1. CASE relay = "installed"
      <3>1. posted' > 0
        BY <1>3, <1>4, <2>1
      <3>. QED  BY <3>1 DEF Remembered
    <2>2. CASE relay # "installed"
      <3>1. Following(v)' => excused'[v]
        BY <1>4, <2>2 DEF Following
      <3>. QED  BY <3>1 DEF Remembered
    <2>. QED  BY <2>1, <2>2
  <1>11. upset' = {}
    BY DEF WInv
  <1>. QED  BY <1>8, <1>9, <1>10, <1>11, WorkerStep

LEMMA FinishInv ==
    ASSUME WInv, EndFlush
    PROVE  WInv'
  <1>1. /\ moving /\ moving' = FALSE /\ fact' = fact + 1 /\ whole' = fact + 1 /\ upset' = {}
        /\ Post /\ UNCHANGED <<signal, relay, listeners, view, reads, shown>>
    BY DEF EndFlush, viewVars
  <1>2. TypeInv /\ FactInv
    BY DEF WInv
  <1>3. PICK k \in Nat : fact = 2 * k + 1
    BY <1>1, <1>2 DEF FactInv
  <1>4. fact \in 0..(2 * MaxMoves) /\ whole \in Nat /\ whole <= fact
    BY <1>2 DEF TypeInv, FactInv
  <1>5. /\ k + 1 \in 1..MaxMoves /\ fact' = 2 * (k + 1) /\ whole < fact'
        /\ fact' \in 0..(2 * MaxMoves) /\ fact <= fact'
    BY <1>1, <1>3, <1>4
  <1>6. PICK m \in 1..MaxMoves : fact' = 2 * m
    BY <1>5
  <1>7. /\ whole' = fact' /\ whole' = 2 * m /\ whole < whole'
        /\ fact' \in 0..(2 * MaxMoves) /\ fact <= fact'
    BY <1>1, <1>5, <1>6
  <1>8. /\ Post /\ moving' = FALSE
        /\ UNCHANGED <<signal, relay, listeners, view, reads, shown>>
    BY <1>1
  <1>9. upset' = {} \/ (upset' = upset /\ ~moving)
    BY <1>1
  <1>. QED  BY <1>7, <1>8, <1>9, MoveInv

LEMMA EnvironmentInv ==
    ASSUME WInv, SetEnvironment
    PROVE  WInv'
  <1>1. /\ signal = "environment" /\ fact < 2 * MaxMoves /\ fact' = fact + 2 /\ whole' = fact + 2
        /\ Post /\ moving' = moving /\ upset' = upset
        /\ UNCHANGED <<signal, relay, listeners, view, reads, shown>>
    BY DEF SetEnvironment, viewVars
  <1>2. TypeInv /\ FactInv
    BY DEF WInv
  <1>3. PICK n \in 0..MaxMoves : whole = 2 * n
    BY <1>2 DEF FactInv
  <1>4. fact = whole /\ ~moving
    <2>1. "environment" # "flush"
      OBVIOUS
    <2>. QED  BY <1>1, <1>2, <2>1 DEF FactInv
  <1>5. /\ n + 1 \in 1..MaxMoves /\ fact' = 2 * (n + 1) /\ whole < fact'
        /\ fact' \in 0..(2 * MaxMoves) /\ fact <= fact'
    BY <1>1, <1>3, <1>4
  <1>6. moving' = FALSE
    BY <1>1, <1>2, <1>4 DEF TypeInv
  <1>. QED  BY <1>1, <1>4, <1>5, <1>6, MoveInv

LEMMA FailInv ==
    ASSUME WInv, FailFlush
    PROVE  WInv'
  <1> DEFINE lost(v) == excused[v] \/ v \in upset
  <1>1. /\ moving' = FALSE /\ upset' = {} /\ excused' = [v \in Views |-> lost(v)]
        /\ view' = view /\ reads' = reads /\ shown' = shown
        /\ listeners' = listeners /\ relay' = relay
        /\ UNCHANGED <<signal, fact, whole, posted>>
    BY DEF FailFlush, viewVars
  <1>2. TypeInv /\ FactInv /\ \A v \in Views : Remembered(v)
    BY DEF WInv
  <1>3. \A v \in Views : (excused[v] \/ v \in upset) <=> excused'[v]
    BY <1>1
  <1>4. excused' \in [Views -> BOOLEAN]
    <2>1. \A v \in Views : lost(v) \in BOOLEAN
      OBVIOUS
    <2> HIDE DEF lost
    <2>. QED  BY <1>1, <2>1
  <1>5. TypeInv'
    BY <1>1, <1>2, <1>4 DEF TypeInv
  <1>6. FactInv'
    BY <1>1, <1>2 DEF FactInv
  <1>7. \A v \in Views : Remembered(v)'
    BY <1>1, <1>2, <1>3 DEF Remembered, Following
  <1>8. fact <= fact'
    BY <1>1, <1>2 DEF TypeInv
  <1>. QED  BY <1>1, <1>5, <1>6, <1>7, <1>8, WorkerStep

-----------------------------------------------------------------------------
(* The views: every step *)

\* A page that has just been opened, or opened again.
LEMMA FreshPage ==
    ASSUME signal \in Signals, fact = 0, whole = 0, moving = FALSE,
           relay = "none", posted = 0, upset = {},
           view = [v \in Views |-> "absent"], reads = [v \in Views |-> <<>>],
           shown = [v \in Views |-> 0], excused = [v \in Views |-> FALSE]
    PROVE  WInv
  <1>1. TypeInv
    <2>1. <<>> \in Seq(Read) /\ 0 \in Nat
      OBVIOUS
    <2>2. reads \in [Views -> Seq(Read)]
      BY <2>1
    <2>3. shown \in [Views -> Nat]
      BY <2>1
    <2>4. view \in [Views -> ViewState] /\ excused \in [Views -> BOOLEAN]
      BY DEF ViewState
    <2>. QED  BY <2>1, <2>2, <2>3, <2>4 DEF TypeInv
  <1>2. FactInv
    <2>1. 0 \in 0..MaxMoves /\ 0 = 2 * 0 /\ 0 \in 0..(2 * MaxMoves)
      OBVIOUS
    <2>. QED  BY <2>1 DEF FactInv
  <1>3. \A v \in Views : ~Following(v) /\ view[v] # "mounted"
    BY DEF Following
  <1>4. \A v \in Views : ReadInv(v)
    <2>1. Len(<<>>) = 0 /\ 1..0 = {} /\ 0 <= MaxReads
      OBVIOUS
    <2>. QED  BY <2>1 DEF ReadInv
  <1>. QED  BY <1>1, <1>2, <1>3, <1>4 DEF WInv, ListenInv, Remembered

LEMMA WatchersInitInv == WatchersInit => WInv
  BY FreshPage DEF WatchersInit

LEMMA LeaveInv ==
    ASSUME WInv, Leave
    PROVE  WInv'
  <1>1. /\ signal' \in Signals /\ fact' = 0 /\ whole' = 0 /\ moving' = FALSE
        /\ relay' = "none" /\ posted' = 0 /\ upset' = {}
        /\ view' = [v \in Views |-> "absent"] /\ reads' = [v \in Views |-> <<>>]
        /\ shown' = [v \in Views |-> 0] /\ excused' = [v \in Views |-> FALSE]
    BY DEF Leave, WInv, TypeInv
  <1>2. TypeInv'
    <2>1. <<>> \in Seq(Read) /\ 0 \in Nat
      OBVIOUS
    <2>2. reads' \in [Views -> Seq(Read)]
      BY <1>1, <2>1
    <2>3. shown' \in [Views -> Nat]
      BY <1>1, <2>1
    <2>4. view' \in [Views -> ViewState] /\ excused' \in [Views -> BOOLEAN]
      BY <1>1 DEF ViewState
    <2>. QED  BY <1>1, <2>1, <2>2, <2>3, <2>4 DEF TypeInv
  <1>3. FactInv'
    <2>1. 0 \in 0..MaxMoves /\ 0 = 2 * 0 /\ 0 \in 0..(2 * MaxMoves)
      OBVIOUS
    <2>. QED  BY <1>1, <2>1 DEF FactInv
  <1>4. \A v \in Views : ~Following(v)' /\ view'[v] # "mounted"
    BY <1>1 DEF Following
  <1>5. \A v \in Views : ReadInv(v)'
    <2>1. Len(<<>>) = 0 /\ 1..0 = {} /\ 0 <= MaxReads
      OBVIOUS
    <2>. QED  BY <1>1, <2>1 DEF ReadInv
  <1>. QED  BY <1>1, <1>2, <1>3, <1>4, <1>5 DEF WInv, ListenInv, Remembered

LEMMA WatchersStepInv == WInv /\ [WatchersNext]_watchersVars => WInv'
  <1> SUFFICES ASSUME WInv, [WatchersNext]_watchersVars PROVE WInv'
    OBVIOUS
  <1>1. CASE UNCHANGED watchersVars
    <2>1. UNCHANGED <<signal, fact, whole, moving, relay, posted, listeners, view, reads,
                      shown, excused, upset>>
      BY <1>1 DEF watchersVars
    <2>2. TypeInv' /\ FactInv' /\ (upset' # {} => moving')
      BY <2>1 DEF WInv, TypeInv, FactInv
    <2>3. \A v \in Views : ListenInv(v)' /\ ReadInv(v)' /\ Remembered(v)'
      BY <2>1 DEF WInv, ListenInv, ReadInv, Remembered, Following
    <2>. QED  BY <2>2, <2>3 DEF WInv
  <1>2. ASSUME NEW v \in Views, Mount(v) \/ Subscribed(v) \/ Destroy(v) PROVE WInv'
    BY <1>2, MountInv, SubscribedInv, DestroyInv
  <1>3. ASSUME NEW v \in Views, NEW i \in 1..MaxReads, Look(v, i) \/ Answer(v, i) \/ Lose(v, i)
        PROVE  WInv'
    BY <1>3, LookInv, AnswerInv, LoseInv
  <1>4. CASE Install \/ Hear
    BY <1>4, InstallInv, HearInv
  <1>5. CASE BeginFlush \/ EndFlush \/ FailFlush
    BY <1>5, BeginInv, FinishInv, FailInv
  <1>6. CASE SetEnvironment \/ Leave
    BY <1>6, EnvironmentInv, LeaveInv
  <1>. QED  BY <1>1, <1>2, <1>3, <1>4, <1>5, <1>6 DEF WatchersNext

LEMMA WInvAlways == WatchersSpec => []WInv
  BY WatchersInitInv, WatchersStepInv, PTL DEF WatchersSpec

-----------------------------------------------------------------------------
(* The views: what holds of them *)

\* However views come and go and signals, failures and answers cross: the relay
\* never has more to tell than there were moves, a view that has subscribed is a
\* listener, and no view shows what has never been there (api.ts).
THEOREM ViewsTypeCorrect == WatchersSpec => []WatchersTypeOK
  <1>1. WInv => WatchersTypeOK
    <2> SUFFICES ASSUME WInv PROVE WatchersTypeOK
      OBVIOUS
    <2>1. TypeInv /\ FactInv
      BY DEF WInv
    <2>2. PICK n \in 0..MaxMoves : whole = 2 * n /\ posted <= n
      BY <2>1 DEF FactInv
    <2>3. whole \in {0} \cup {2 * k : k \in 1..MaxMoves}
      <3>1. n = 0 \/ n \in 1..MaxMoves
        OBVIOUS
      <3>. QED  BY <2>2, <3>1
    <2>4. posted \in 0..MaxMoves
      BY <2>1, <2>2 DEF TypeInv
    <2>5. ASSUME NEW v \in Views
          PROVE  /\ view[v] = "mounted" => v \in listeners /\ relay = "installed"
                 /\ Len(reads[v]) <= MaxReads /\ shown[v] \in 0..fact
      <3>1. ListenInv(v) /\ ReadInv(v)
        BY DEF WInv
      <3>2. view[v] = "mounted" => v \in listeners /\ relay = "installed"
        BY <3>1 DEF ListenInv, Following
      <3>3. shown[v] \in Nat /\ fact \in Nat /\ shown[v] <= fact
        BY <2>1, <3>1 DEF TypeInv, ReadInv
      <3>. QED  BY <3>1, <3>2, <3>3 DEF ReadInv
    <2>. QED  BY <2>1, <2>3, <2>4, <2>5 DEF WatchersTypeOK, FactInv
  <1>. QED  BY <1>1, WInvAlways, PTL

\* However many views come and go, and in whatever order their re-reads are answered,
\* fail and meet flushes: a view that is behind is excused, or has been told, or is
\* reading what it lacks.  With the fairness of the code this is why it catches up.
THEOREM NoViewIsForgotten == WatchersSpec => []NobodyForgotten
  <1>1. WInv => NobodyForgotten
    <2> SUFFICES ASSUME WInv, NEW v \in Views, Following(v), shown[v] < whole
                 PROVE  \/ excused[v] \/ v \in upset \/ posted > 0
                        \/ EndsInformed(reads[v], whole)
      BY DEF NobodyForgotten
    <2>1. shown[v] \in Nat /\ whole \in Nat /\ Remembered(v)
      BY DEF WInv, TypeInv
    <2>2. ~(shown[v] >= whole)
      BY <2>1
    <2>. QED  BY <2>1, <2>2 DEF Remembered
  <1>. QED  BY <1>1, WInvAlways, PTL
=============================================================================
