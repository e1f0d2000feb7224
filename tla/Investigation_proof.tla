------------------------ MODULE Investigation_proof ------------------------
(***************************************************************************)
(* Proofs about an investigation, for any artifacts, tools, routes,        *)
(* proposals, budgets and faults, however the pipeline republishes and     *)
(* whatever else is written to the audit ledger.  First the gateway: a     *)
(* successful tool response was computed from one lineage of sources.      *)
(* Then the run: its receipts are in the ledger, its report validates, and *)
(* its calls replay.                                                       *)
(***************************************************************************)
EXTENDS InvestigationArtifact, FiniteSetTheorems, TLAPS

N == Len(Sources)
Reading == {"bind", "load", "run", "rebind"}

\* A publication records versions of its upstream that exist.
Build(a) == [UpstreamOf[a] -> Nat]
Lineages ==
  /\ published = [a \in Artifacts |-> published[a]]
  /\ building = [a \in Artifacts |-> building[a]]
  /\ \A a \in Artifacts : published[a] \in Seq(Build(a)) /\ published[a] # <<>>
  /\ \A a \in Artifacts : \A k \in 1..Version(a) : \A u \in UpstreamOf[a] :
       published[a][k][u] <= Version(u)
  /\ \A a \in Artifacts : building[a] # <<>> =>
       /\ Head(building[a]) \in Build(a)
       /\ \A u \in UpstreamOf[a] : Head(building[a])[u] <= Version(u)

\* The three passes over the sources meet versions that do not decrease.
Hashes(s) == /\ s \in Seq(Nat) /\ Len(s) <= N
             /\ \A i \in 1..Len(s) : s[i] \in 1..Version(Sources[i])
Passes ==
  stage \in Reading =>
    /\ Hashes(seen) /\ Hashes(loaded) /\ Hashes(again)
    /\ stage = "bind" => Len(seen) < N /\ loaded = <<>> /\ again = <<>>
    /\ stage # "bind" => Len(seen) = N
    /\ stage = "load" => Len(loaded) < N
    /\ stage \in {"load", "run"} => again = <<>> /\ ~checked
    /\ stage \in {"run", "rebind"} => Len(loaded) = N
    /\ stage = "rebind" => Len(again) < N
    /\ \A i \in 1..Len(loaded) : seen[i] <= loaded[i]
    /\ \A i \in 1..Len(again) : loaded[i] <= again[i]

\* What the second binding has validated: a version it met was built from
\* upstream no older than what the first one met, and what the first one met
\* was built from upstream no newer than what the second one meets.
Recent(i, k) ==
  \A j \in 1..N : Sources[j] \in UpstreamOf[Sources[i]] =>
    seen[j] <= published[Sources[i]][k][Sources[j]]
Validated ==
  stage = "rebind" =>
    /\ \A i \in 1..Len(again) : \E k \in seen[i]..again[i] : Recent(i, k)
    /\ checked => LET i == Len(again) + 1
                  IN \E k \in seen[i]..Version(Sources[i]) : Recent(i, k)
    /\ \A i \in 1..N : \A j \in 1..Len(again) :
         Sources[j] \in UpstreamOf[Sources[i]] =>
           published[Sources[i]][seen[i]][Sources[j]] <= again[j]

Answered ==
  response.status = "success" =>
    /\ Hashes(response.sources) /\ Len(response.sources) = N
    /\ response.result = response.sources
    /\ OneCut(response.sources)

Inv == Lineages /\ Passes /\ Validated /\ Answered

LEMMA SourcesAre ==
    /\ N \in Nat \ {0} /\ DOMAIN Sources = 1..N
    /\ \A i \in 1..N : Sources[i] \in Artifacts /\ UpstreamOf[Sources[i]] \subseteq Artifacts
    /\ \A a \in Artifacts : UpstreamOf[a] \subseteq Artifacts
  BY GatewayAssumption DEF GatewayAssumption, N

LEMMA InvInit == Init => Inv
  <1>. SUFFICES ASSUME Init PROVE Inv
    OBVIOUS
  <1>0. /\ published = [a \in Artifacts |-> <<[u \in UpstreamOf[a] |-> 1]>>]
        /\ building = [a \in Artifacts |-> <<>>]
    BY DEF Init, GatewayInit
  <1>1. ASSUME NEW a \in Artifacts
        PROVE  /\ published[a] \in Seq(Build(a)) /\ published[a] # <<>>
               /\ Len(published[a]) = 1
               /\ \A u \in UpstreamOf[a] : published[a][1][u] = 1
    <2>1. published[a] = <<[u \in UpstreamOf[a] |-> 1]>>
      BY <1>0
    <2>2. [u \in UpstreamOf[a] |-> 1] \in Build(a)
      BY DEF Build
    <2>. QED
      BY <2>1, <2>2
  <1>2. \A a \in Artifacts : Version(a) = 1
    BY <1>1 DEF Version
  <1>3. Lineages
    <2>1. \A a \in Artifacts : published[a] \in Seq(Build(a)) /\ published[a] # <<>>
      BY <1>1
    <2>2. \A a \in Artifacts : \A k \in 1..Version(a) : \A u \in UpstreamOf[a] :
            published[a][k][u] <= Version(u)
      <3>. SUFFICES ASSUME NEW a \in Artifacts, NEW k \in 1..Version(a),
                           NEW u \in UpstreamOf[a]
                    PROVE  published[a][k][u] <= Version(u)
        OBVIOUS
      <3>1. k = 1 /\ Version(u) = 1
        BY <1>2, SourcesAre
      <3>. QED
        BY <1>1, <3>1
    <2>3. \A a \in Artifacts : building[a] = <<>>
      BY <1>0
    <2>. QED
      BY <1>0, <2>1, <2>2, <2>3 DEF Lineages
  <1>. QED
    BY <1>3 DEF Init, GatewayInit, Inv, Passes, Validated, Answered, Reading, NoResponse

LEMMA VersionsAre == Lineages => \A a \in Artifacts : Version(a) \in Nat
  BY DEF Lineages, Version

LEMMA HashesAre ==
    ASSUME Lineages, NEW s, Hashes(s)
    PROVE  /\ Len(s) \in Nat /\ Len(s) <= N
           /\ \A i \in 1..Len(s) : /\ i \in 1..N /\ Version(Sources[i]) \in Nat
                                   /\ s[i] \in Nat /\ 1 <= s[i] /\ s[i] <= Version(Sources[i])
  <1>1. Len(s) \in Nat /\ Len(s) <= N /\ \A i \in 1..Len(s) : s[i] \in Nat
    BY DEF Hashes
  <1>2. ASSUME NEW i \in 1..Len(s)
        PROVE  i \in 1..N /\ Version(Sources[i]) \in Nat
               /\ 1 <= s[i] /\ s[i] <= Version(Sources[i])
    <2>1. i \in 1..N
      BY <1>1, SourcesAre
    <2>2. Version(Sources[i]) \in Nat
      BY <2>1, VersionsAre, SourcesAre
    <2>. QED
      BY <2>1, <2>2 DEF Hashes
  <1>. QED
    BY <1>1, <1>2

\* Publications are only added.
LEMMA Publishing ==
    ASSUME Lineages, NEW a \in Artifacts, ReadUpstream(a) \/ Republish(a)
    PROVE  /\ Lineages'
           /\ \A b \in Artifacts : /\ Version(b) \in Nat /\ Version(b)' \in Nat
                                   /\ Version(b) <= Version(b)'
                                   /\ \A k \in 1..Version(b) : published'[b][k] = published[b][k]
  <1>0. \A b \in Artifacts : /\ Version(b) \in Nat
                             /\ \A k \in 1..Version(b) : published[b][k] \in Build(b)
    BY DEF Lineages, Version
  <1>1. CASE ReadUpstream(a)
    <2>1. published' = published /\ \A b \in Artifacts : Version(b)' = Version(b)
      BY <1>1 DEF ReadUpstream, Version
    <2>2. /\ building' = [b \in Artifacts |-> building'[b]]
          /\ building'[a] = <<[u \in UpstreamOf[a] |-> Version(u)]>>
          /\ \A b \in Artifacts : b # a => building'[b] = building[b]
      BY <1>1 DEF ReadUpstream, Lineages, VersionsOf
    <2>3. Head(building'[a]) = [u \in UpstreamOf[a] |-> Version(u)]
      BY <2>2
    <2>4. /\ Head(building'[a]) \in Build(a)
          /\ \A u \in UpstreamOf[a] : Head(building'[a])[u] <= Version(u)'
      BY <1>0, <2>1, <2>3, SourcesAre DEF Build
    <2>5. \A b \in Artifacts : building'[b] # <<>> =>
             /\ Head(building'[b]) \in Build(b)
             /\ \A u \in UpstreamOf[b] : Head(building'[b])[u] <= Version(u)'
      <3>. SUFFICES ASSUME NEW b \in Artifacts, building'[b] # <<>>
                    PROVE  /\ Head(building'[b]) \in Build(b)
                           /\ \A u \in UpstreamOf[b] : Head(building'[b])[u] <= Version(u)'
        OBVIOUS
      <3>1. CASE b = a
        BY <2>4, <3>1
      <3>2. CASE b # a
        <4>1. /\ Head(building[b]) \in Build(b)
              /\ \A u \in UpstreamOf[b] : Head(building[b])[u] <= Version(u)
          BY <2>2, <3>2 DEF Lineages
        <4>. QED
          BY <2>1, <2>2, <3>2, <4>1, SourcesAre
      <3>. QED
        BY <3>1, <3>2
    <2>6. ASSUME NEW b \in Artifacts, NEW k \in 1..Version(b)', NEW u \in UpstreamOf[b]
          PROVE  published'[b][k][u] <= Version(u)'
      <3>1. u \in Artifacts /\ Version(u)' = Version(u) /\ k \in 1..Version(b)
        BY <2>1, SourcesAre
      <3>. QED
        BY <2>1, <3>1 DEF Lineages
    <2>7. \A b \in Artifacts : published'[b] \in Seq(Build(b)) /\ published'[b] # <<>>
      BY <2>1 DEF Lineages
    <2>8. published' = [b \in Artifacts |-> published'[b]]
      BY <2>1 DEF Lineages
    <2>9. Lineages'
      BY <2>2, <2>5, <2>6, <2>7, <2>8 DEF Lineages, Build
    <2>. QED
      BY <1>0, <2>1, <2>9
  <1>2. CASE Republish(a)
    <2>1. /\ building[a] # <<>> /\ Head(building[a]) \in Build(a)
          /\ \A u \in UpstreamOf[a] : Head(building[a])[u] <= Version(u)
          /\ published[a] \in Seq(Build(a))
      BY <1>2 DEF Republish, Lineages
    <2>2. /\ published' = [b \in Artifacts |-> published'[b]]
          /\ building' = [b \in Artifacts |-> building'[b]]
          /\ published'[a] = Append(published[a], Head(building[a]))
          /\ building'[a] = <<>>
          /\ \A b \in Artifacts : b # a => published'[b] = published[b] /\ building'[b] = building[b]
      BY <1>2 DEF Republish, Lineages
    <2>3. /\ published'[a] \in Seq(Build(a)) /\ published'[a] # <<>>
          /\ Version(a)' = Version(a) + 1
          /\ published'[a][Version(a) + 1] = Head(building[a])
          /\ \A k \in 1..Version(a) : published'[a][k] = published[a][k]
      BY <2>1, <2>2 DEF Version
    <2>4. \A b \in Artifacts : b # a => Version(b)' = Version(b)
      BY <2>2 DEF Version
    <2>5. \A b \in Artifacts : /\ Version(b)' \in Nat /\ Version(b) <= Version(b)'
                               /\ \A k \in 1..Version(b) : published'[b][k] = published[b][k]
      <3>. SUFFICES ASSUME NEW b \in Artifacts
                    PROVE  /\ Version(b)' \in Nat /\ Version(b) <= Version(b)'
                           /\ \A k \in 1..Version(b) : published'[b][k] = published[b][k]
        OBVIOUS
      <3>1. CASE b = a
        BY <1>0, <2>3, <3>1
      <3>2. CASE b # a
        BY <1>0, <2>2, <2>4, <3>2
      <3>. QED
        BY <3>1, <3>2
    <2>6. ASSUME NEW b \in Artifacts, NEW v \in Build(b),
                 \A u \in UpstreamOf[b] : v[u] <= Version(u)
          PROVE  \A u \in UpstreamOf[b] : v[u] <= Version(u)'
      <3>. SUFFICES ASSUME NEW u \in UpstreamOf[b] PROVE v[u] <= Version(u)'
        OBVIOUS
      <3>1. u \in Artifacts /\ v[u] \in Nat
        BY SourcesAre DEF Build
      <3>. QED
        BY <1>0, <2>5, <2>6, <3>1
    <2>7. ASSUME NEW b \in Artifacts, NEW k \in 1..Version(b)'
          PROVE  \A u \in UpstreamOf[b] : published'[b][k][u] <= Version(u)'
      <3>1. CASE k \in 1..Version(b)
        <4>1. /\ published[b][k] \in Build(b)
              /\ \A u \in UpstreamOf[b] : published[b][k][u] <= Version(u)
          BY <1>0, <3>1 DEF Lineages
        <4>2. \A u \in UpstreamOf[b] : published[b][k][u] <= Version(u)'
          BY <2>6, <4>1
        <4>. QED
          BY <2>5, <3>1, <4>2
      <3>2. CASE b = a /\ k = Version(a) + 1
        BY <2>1, <2>3, <2>6, <3>2
      <3>3. k \in 1..Version(b) \/ (b = a /\ k = Version(a) + 1)
        BY <1>0, <2>3, <2>4
      <3>. QED
        BY <3>1, <3>2, <3>3
    <2>8. \A b \in Artifacts : building'[b] # <<>> =>
             /\ Head(building'[b]) \in Build(b)
             /\ \A u \in UpstreamOf[b] : Head(building'[b])[u] <= Version(u)'
      <3>. SUFFICES ASSUME NEW b \in Artifacts, building'[b] # <<>>
                    PROVE  /\ Head(building'[b]) \in Build(b)
                           /\ \A u \in UpstreamOf[b] : Head(building'[b])[u] <= Version(u)'
        OBVIOUS
      <3>1. b # a /\ building'[b] = building[b]
        BY <2>2
      <3>2. /\ Head(building[b]) \in Build(b)
            /\ \A u \in UpstreamOf[b] : Head(building[b])[u] <= Version(u)
        BY <3>1 DEF Lineages
      <3>. QED
        BY <2>6, <3>1, <3>2
    <2>9. \A b \in Artifacts : published'[b] \in Seq(Build(b)) /\ published'[b] # <<>>
      BY <2>2, <2>3 DEF Lineages
    <2>10. Lineages'
      BY <2>2, <2>7, <2>8, <2>9 DEF Lineages, Build
    <2>. QED
      BY <1>0, <2>5, <2>10
  <1>. QED
    BY <1>1, <1>2

\* Later publications leave alone what is said of the earlier ones.
LEMMA PublishStep ==
    ASSUME Inv, NEW a \in Artifacts, ReadUpstream(a) \/ Republish(a)
    PROVE  Inv'
  <1>1. /\ stage' = stage /\ seen' = seen /\ loaded' = loaded /\ again' = again
        /\ checked' = checked /\ response' = response
    BY DEF ReadUpstream, Republish, bindingVars
  <1>2. /\ Lineages'
        /\ \A b \in Artifacts : /\ Version(b) \in Nat /\ Version(b)' \in Nat
                                /\ Version(b) <= Version(b)'
                                /\ \A k \in 1..Version(b) : published'[b][k] = published[b][k]
    BY Publishing DEF Inv
  <1>3. ASSUME NEW s, Hashes(s)
        PROVE  \A i \in 1..Len(s) : s[i] \in 1..Version(Sources[i])'
    <2>. SUFFICES ASSUME NEW i \in 1..Len(s) PROVE s[i] \in 1..Version(Sources[i])'
      OBVIOUS
    <2>1. /\ i \in 1..N /\ Version(Sources[i]) \in Nat
          /\ s[i] \in Nat /\ 1 <= s[i] /\ s[i] <= Version(Sources[i])
      BY <1>3, HashesAre DEF Inv
    <2>2. Version(Sources[i])' \in Nat /\ Version(Sources[i]) <= Version(Sources[i])'
      BY <1>2, <2>1, SourcesAre
    <2>. QED
      BY <2>1, <2>2
  <1>4. Passes'
    <2>. SUFFICES ASSUME stage \in Reading PROVE Passes'
      BY <1>1 DEF Passes
    <2>1. Hashes(seen) /\ Hashes(loaded) /\ Hashes(again)
      BY DEF Inv, Passes
    <2>2. /\ \A i \in 1..Len(seen) : seen[i] \in 1..Version(Sources[i])'
          /\ \A i \in 1..Len(loaded) : loaded[i] \in 1..Version(Sources[i])'
          /\ \A i \in 1..Len(again) : again[i] \in 1..Version(Sources[i])'
      BY <1>3, <2>1
    <2>3. Hashes(seen)' /\ Hashes(loaded)' /\ Hashes(again)'
      BY <1>1, <2>1, <2>2 DEF Hashes
    <2>. QED
      BY <1>1, <2>3 DEF Inv, Passes
  <1>5. Validated'
    <2>. SUFFICES ASSUME stage = "rebind" PROVE Validated'
      BY <1>1 DEF Validated
    <2>1. /\ Hashes(seen) /\ Hashes(again) /\ Len(seen) = N /\ Len(again) \in Nat /\ Len(again) < N
      BY DEF Inv, Passes, Reading, Hashes
    <2>2. ASSUME NEW i \in 1..N, NEW k \in seen[i]..Version(Sources[i]), Recent(i, k)
          PROVE  Recent(i, k)'
      <3>0. seen[i] \in Nat /\ 1 <= seen[i] /\ Version(Sources[i]) \in Nat
        BY <2>1, HashesAre DEF Inv
      <3>1. k \in 1..Version(Sources[i])
        BY <3>0
      <3>. QED
        BY <1>1, <1>2, <2>2, <3>1, SourcesAre DEF Recent
    <2>3. ASSUME NEW i \in 1..Len(again)
          PROVE  \E k \in seen'[i]..again'[i] : Recent(i, k)'
      <3>1. PICK k \in seen[i]..again[i] : Recent(i, k)
        BY DEF Inv, Validated
      <3>2. /\ i \in 1..N /\ Version(Sources[i]) \in Nat
            /\ again[i] \in Nat /\ again[i] <= Version(Sources[i])
        BY <2>1, HashesAre DEF Inv
      <3>3. seen[i] \in Nat
        BY <2>1, <3>2, HashesAre DEF Inv
      <3>4. k \in seen[i]..Version(Sources[i])
        BY <3>1, <3>2, <3>3
      <3>. QED
        BY <1>1, <2>2, <3>1, <3>2, <3>4
    <2>4. ASSUME checked
          PROVE  \E i \in 1..N : /\ i = Len(again) + 1
                                 /\ \E k \in seen'[i]..Version(Sources[i])' : Recent(i, k)'
      <3>1. PICK i \in 1..N : i = Len(again) + 1
        BY <2>1, SourcesAre
      <3>2. PICK k \in seen[i]..Version(Sources[i]) : Recent(i, k)
        BY <2>4, <3>1 DEF Inv, Validated
      <3>3. Recent(i, k)'
        BY <2>2, <3>1, <3>2
      <3>4. k \in seen'[i]..Version(Sources[i])'
        <4>1. seen[i] \in Nat /\ Version(Sources[i]) \in Nat
          BY <2>1, <3>1, HashesAre DEF Inv
        <4>2. Version(Sources[i])' \in Nat /\ Version(Sources[i]) <= Version(Sources[i])'
          BY <1>2, <3>1, SourcesAre
        <4>. QED
          BY <1>1, <4>1, <4>2
      <3>. QED
        BY <3>1, <3>3, <3>4
    <2>5. ASSUME NEW i \in 1..N, NEW j \in 1..Len(again), Sources[j] \in UpstreamOf[Sources[i]]
          PROVE  published'[Sources[i]][seen[i]][Sources[j]] <= again[j]
      <3>1. seen[i] \in 1..Version(Sources[i])
        BY <2>1 DEF Hashes
      <3>. QED
        BY <1>2, <2>5, <3>1, SourcesAre DEF Inv, Validated
    <2>. QED
      BY <1>1, <2>3, <2>4, <2>5 DEF Validated
  <1>6. Answered'
    <2>. SUFFICES ASSUME response.status = "success" PROVE Answered'
      BY <1>1 DEF Answered
    <2>. DEFINE s == response.sources
    <2>1. Hashes(s) /\ Len(s) = N /\ response.result = s /\ OneCut(s)
      BY DEF Inv, Answered
    <2>2. /\ Hashes(s)'
      BY <1>1, <1>3, <2>1 DEF Hashes
    <2>3. OneCut(s)'
      <3>. SUFFICES ASSUME NEW i \in 1..N, NEW j \in 1..N,
                           Sources[j] \in UpstreamOf[Sources[i]]
                    PROVE  published'[Sources[i]][s[i]][Sources[j]] = s[j]
        BY <1>1, SourcesAre DEF OneCut
      <3>1. s[i] \in 1..Version(Sources[i])
        BY <2>1 DEF Hashes
      <3>2. published[Sources[i]][s[i]][Sources[j]] = s[j]
        BY <2>1, SourcesAre DEF OneCut
      <3>. QED
        BY <1>2, <3>1, <3>2, SourcesAre
    <2>. QED
      BY <1>1, <2>1, <2>2, <2>3 DEF Answered
  <1>. QED
    BY <1>2, <1>4, <1>5, <1>6 DEF Inv

-----------------------------------------------------------------------------

LEMMA SameLineages == ASSUME Lineages, UNCHANGED sourceVars PROVE Lineages'
  BY DEF Lineages, sourceVars, Version

\* A step out of the passes, with no new success.
LEMMA QuietStep ==
    ASSUME Inv, UNCHANGED sourceVars, stage' \notin Reading,
           response' = response \/ response'.status # "success"
    PROVE  Inv'
  <1>1. Answered'
    BY DEF Inv, Answered, Hashes, OneCut, sourceVars, Version
  <1>. QED
    BY <1>1, SameLineages DEF Inv, Passes, Validated, Reading

\* A step within a pass, with no new success, leaves the rest to show.
LEMMA PassStep ==
    ASSUME Inv, UNCHANGED sourceVars, Passes', Validated',
           response' = response \/ response'.status # "success"
    PROVE  Inv'
  <1>1. Answered'
    BY DEF Inv, Answered, Hashes, OneCut, sourceVars, Version
  <1>. QED
    BY <1>1, SameLineages DEF Inv

LEMMA BindStep ==
    ASSUME Inv, UNCHANGED sourceVars, NEW c, Bind(c)
    PROVE  Inv'
  <1>1. Passes' /\ Validated'
    BY SourcesAre DEF Bind, Passes, Validated, Hashes, Reading
  <1>. QED
    BY <1>1, PassStep DEF Bind, NoResponse

\* What a source looks like when it passes its validation.
LEMMA CheckStep ==
    ASSUME Inv, CheckSource
    PROVE  Inv'
  <1>. USE DEF Reading
  <1>0. UNCHANGED sourceVars /\ seen' = seen /\ loaded' = loaded /\ again' = again
    BY DEF CheckSource
  <1>1. CASE stage' \notin Reading
    <2>1. response' = response \/ response'.status # "success"
      BY DEF CheckSource, Reject, Answer, Refusal, NoResponse
    <2>. QED
      BY <1>0, <1>1, <2>1, QuietStep
  <1>2. CASE stage' \in Reading
    <2>1. stage' = stage /\ checked' /\ response' = response /\ Validates(NextSource)
          /\ stage \in {"bind", "rebind"}
      BY <1>2 DEF CheckSource, Reject, Answer
    <2>2. Passes'
      BY <1>0, <2>1 DEF Inv, Passes, Hashes, sourceVars, Version
    <2>3. Validated'
      <3>. SUFFICES ASSUME stage = "rebind" PROVE Validated'
        BY <2>1 DEF Validated
      <3>. DEFINE i == Len(again) + 1
      <3>1. /\ Hashes(seen) /\ Len(seen) = N /\ Len(again) \in Nat /\ i \in 1..N
            /\ NextSource = Sources[i]
        BY SourcesAre DEF Inv, Passes, Hashes, NextSource, BoundSoFar
      <3>2. Recent(i, Version(Sources[i]))
        BY <2>1, <3>1, SourcesAre DEF Recent, Validates, VersionsOf, Hashes
      <3>3. Version(Sources[i]) \in seen[i]..Version(Sources[i])
        BY <3>1, HashesAre DEF Inv
      <3>. QED
        BY <1>0, <2>1, <3>2, <3>3 DEF Inv, Validated, Recent, sourceVars, Version
    <2>. QED
      BY <1>0, <2>1, <2>2, <2>3, PassStep
  <1>. QED
    BY <1>1, <1>2

\* The hash of the next source is its present version.
LEMMA Extended ==
    ASSUME Inv, UNCHANGED sourceVars, NEW s, Hashes(s), Len(s) < N,
           NEW i, i = Len(s) + 1, NEW t, t = Append(s, Version(Sources[i]))
    PROVE  /\ i \in 1..N /\ Len(t) = i /\ t[i] = Version(Sources[i])
           /\ \A j \in 1..Len(s) : t[j] = s[j]
           /\ Hashes(t) /\ Hashes(t)'
  <1>1. /\ s \in Seq(Nat) /\ Len(s) \in Nat /\ i \in 1..N
    BY SourcesAre DEF Hashes
  <1>2. Sources[i] \in Artifacts /\ Version(Sources[i]) \in Nat /\ 1 <= Version(Sources[i])
    <2>1. published[Sources[i]] \in Seq(Build(Sources[i])) /\ published[Sources[i]] # <<>>
      BY <1>1, SourcesAre DEF Inv, Lineages
    <2>. QED
      BY <1>1, <2>1, SourcesAre DEF Version
  <1>3. /\ t \in Seq(Nat) /\ Len(t) = i /\ t[i] = Version(Sources[i])
        /\ \A j \in 1..Len(s) : t[j] = s[j]
    BY <1>1, <1>2
  <1>4. \A j \in 1..Len(t) : t[j] \in 1..Version(Sources[j])
    <2>. SUFFICES ASSUME NEW j \in 1..Len(t) PROVE t[j] \in 1..Version(Sources[j])
      OBVIOUS
    <2>1. CASE j = i
      BY <1>2, <1>3, <2>1
    <2>2. CASE j \in 1..Len(s)
      BY <1>3, <2>2 DEF Hashes
    <2>. QED
      BY <1>1, <1>3, <2>1, <2>2
  <1>5. Hashes(t)
    BY <1>1, <1>3, <1>4 DEF Hashes
  <1>6. \A j \in 1..N : published'[Sources[j]] = published[Sources[j]]
    BY DEF sourceVars
  <1>7. t \in Seq(Nat) /\ Len(t) <= N /\ \A j \in 1..Len(t) : t[j] \in 1..Version(Sources[j])
    BY <1>5 DEF Hashes
  <1>8. \A j \in 1..Len(t) : t[j] \in 1..Version(Sources[j])'
    <2>. SUFFICES ASSUME NEW j \in 1..Len(t) PROVE t[j] \in 1..Version(Sources[j])'
      OBVIOUS
    <2>1. j \in 1..N
      BY <1>1, <1>3, SourcesAre
    <2>. QED
      BY <1>6, <1>7, <2>1 DEF Version
  <1>9. Hashes(t)'
    BY <1>7, <1>8 DEF Hashes
  <1>. QED
    BY <1>1, <1>3, <1>5, <1>9

\* Unprimed, what the last hash of the second binding has established.
LEMMA OneLineage ==
    ASSUME Inv, stage = "rebind", checked, Len(again) + 1 = N,
           Append(again, Version(Sources[N])) = seen
    PROVE  loaded = seen /\ OneCut(seen)
  <1>. DEFINE V == Version(Sources[N])
  <1>0. /\ Hashes(seen) /\ Hashes(loaded) /\ Hashes(again)
        /\ Len(seen) = N /\ Len(loaded) = N /\ Len(again) \in Nat /\ N \in Nat \ {0}
        /\ seen \in Seq(Nat) /\ loaded \in Seq(Nat) /\ again \in Seq(Nat)
    BY SourcesAre DEF Inv, Passes, Reading, Hashes
  <1>1. V \in Nat /\ \A i \in 1..N : /\ seen[i] \in Nat /\ loaded[i] \in Nat
                                     /\ 1 <= seen[i]
                                     /\ seen[i] <= loaded[i]
                                     /\ loaded[i] <= Version(Sources[i])
    <2>1. V \in Nat
      BY <1>0, VersionsAre, SourcesAre DEF Inv
    <2>2. \A i \in 1..N : seen[i] <= loaded[i]
      BY <1>0 DEF Inv, Passes, Reading
    <2>. QED
      BY <1>0, <2>1, <2>2, HashesAre DEF Inv
  <1>2. seen[N] = V /\ \A i \in 1..Len(again) : seen[i] = again[i]
    <2>1. seen = Append(again, V) /\ N = Len(again) + 1
      OBVIOUS
    <2>. HIDE DEF V
    <2>. QED
      BY <1>0, <1>1, <2>1
  <1>3. \A i \in 1..Len(again) : loaded[i] <= again[i]
    BY DEF Inv, Passes, Reading
  <1>4. \A i \in 1..N : i = N \/ i \in 1..Len(again)
    BY <1>0
  <1>5. \A i \in 1..N : loaded[i] = seen[i]
    <2>. SUFFICES ASSUME NEW i \in 1..N PROVE loaded[i] = seen[i]
      OBVIOUS
    <2>1. loaded[i] <= seen[i]
      BY <1>1, <1>2, <1>3, <1>4
    <2>. QED
      BY <1>1, <2>1
  <1>6. loaded = seen
    BY <1>0, <1>5
  <1>7. ASSUME NEW i \in 1..N
        PROVE  Recent(i, seen[i])
    <2>1. CASE i = N
      <3>1. PICK k \in seen[N]..V : Recent(N, k)
        BY <1>0 DEF Inv, Validated
      <3>2. k = seen[N]
        BY <1>1, <1>2
      <3>. QED
        BY <2>1, <3>1, <3>2
    <2>2. CASE i \in 1..Len(again)
      <3>1. PICK k \in seen[i]..again[i] : Recent(i, k)
        BY <2>2 DEF Inv, Validated
      <3>2. k = seen[i]
        BY <1>1, <1>2, <2>2
      <3>. QED
        BY <3>1, <3>2
    <2>. QED
      BY <1>4, <2>1, <2>2
  <1>8. ASSUME NEW i \in 1..N, NEW j \in 1..N, Sources[j] \in UpstreamOf[Sources[i]]
        PROVE  published[Sources[i]][seen[i]][Sources[j]] = seen[j]
    <2>1. seen[i] \in 1..Version(Sources[i])
      BY <1>0 DEF Hashes
    <2>2. published[Sources[i]][seen[i]] \in Build(Sources[i])
      BY <2>1, SourcesAre DEF Inv, Lineages, Version
    <2>3. published[Sources[i]][seen[i]][Sources[j]] \in Nat
      BY <1>8, <2>2 DEF Build
    <2>4. seen[j] <= published[Sources[i]][seen[i]][Sources[j]]
      BY <1>7, <1>8 DEF Recent
    <2>5. published[Sources[i]][seen[i]][Sources[j]] <= seen[j]
      <3>1. CASE j = N
        BY <1>2, <1>8, <2>1, <3>1, SourcesAre DEF Inv, Lineages
      <3>2. CASE j \in 1..Len(again)
        BY <1>2, <1>8, <3>2 DEF Inv, Validated
      <3>. QED
        BY <1>4, <3>1, <3>2
    <2>. QED
      BY <1>1, <2>3, <2>4, <2>5
  <1>. QED
    BY <1>6, <1>8, SourcesAre DEF OneCut

LEMMA HashStep ==
    ASSUME Inv, HashSource
    PROVE  Inv'
  <1>. USE DEF Reading
  <1>0. /\ UNCHANGED sourceVars /\ loaded' = loaded /\ ~checked' /\ checked
        /\ stage \in {"bind", "rebind"}
        /\ N \in Nat \ {0}
    BY SourcesAre DEF HashSource
  <1>1. CASE stage = "bind"
    <2>1. PICK i : i = Len(seen) + 1
      OBVIOUS
    <2>2. PICK t : t = Append(seen, Version(Sources[i]))
      OBVIOUS
    <2>3. /\ Hashes(seen) /\ Len(seen) < N /\ loaded = <<>> /\ again = <<>>
      BY <1>1 DEF Inv, Passes
    <2>4. /\ i \in 1..N /\ Len(t) = i /\ Hashes(t)'
      BY <1>0, <2>1, <2>2, <2>3, Extended
    <2>5. /\ seen' = t /\ again' = again /\ response' = response
          /\ stage' \in IF i = N THEN {"bound", "load"} ELSE {"bind"}
      BY <1>1, <2>1, <2>2, <2>4 DEF HashSource, BoundSoFar, NextSource, N
    <2>6. CASE stage' = "bound"
      BY <1>0, <2>5, <2>6, QuietStep
    <2>7. CASE stage' # "bound"
      <3>1. Passes'
        BY <1>0, <2>3, <2>4, <2>5, <2>7 DEF Passes, Hashes
      <3>2. Validated'
        BY <2>5, <2>7 DEF Validated
      <3>. QED
        BY <1>0, <2>5, <3>1, <3>2, PassStep
    <2>. QED
      BY <2>6, <2>7
  <1>2. CASE stage = "rebind"
    <2>1. PICK i : i = Len(again) + 1
      OBVIOUS
    <2>2. PICK t : t = Append(again, Version(Sources[i]))
      OBVIOUS
    <2>3. /\ Hashes(seen) /\ Hashes(loaded) /\ Hashes(again) /\ Len(again) < N
          /\ Len(seen) = N /\ Len(loaded) = N
      BY <1>2 DEF Inv, Passes
    <2>4. /\ i \in 1..N /\ Len(t) = i /\ t[i] = Version(Sources[i])
          /\ \A j \in 1..Len(again) : t[j] = again[j]
          /\ Hashes(t)'
      <3>1. UNCHANGED sourceVars /\ Hashes(again) /\ Len(again) < N
        BY <1>0, <2>3
      <3>. QED
        <4>1. i \in 1..N /\ Len(t) = i /\ Hashes(t)'
          BY <2>1, <2>2, <3>1, Extended
        <4>2. t[i] = Version(Sources[i])
          BY <2>1, <2>2, <3>1, Extended
        <4>3. \A j \in 1..Len(again) : t[j] = again[j]
          BY <2>1, <2>2, <3>1, Extended
        <4>. QED
          BY <4>1, <4>2, <4>3
    <2>5. seen' = seen /\ again' = t
      BY <1>2, <2>1, <2>2 DEF HashSource, BoundSoFar, NextSource
    <2>6. CASE i # N
      <3>1. stage' = stage /\ response' = response
        BY <1>2, <2>1, <2>2, <2>4, <2>6 DEF HashSource, BoundSoFar, NextSource, N
      <3>2. /\ Version(Sources[i]) \in Nat /\ seen[i] \in Nat /\ loaded[i] \in Nat
            /\ loaded[i] <= Version(Sources[i])
        BY <2>3, <2>4, HashesAre DEF Inv
      <3>3. /\ Len(again) \in Nat
            /\ \A j \in 1..Len(t) : j = i \/ j \in 1..Len(again)
        BY <2>1, <2>3, <2>4, HashesAre DEF Inv
      <3>4. \A b \in Artifacts : published'[b] = published[b] /\ Version(b)' = Version(b)
        BY <1>0 DEF sourceVars, Version
      <3>5. Hashes(seen)' /\ Hashes(loaded)'
        BY <1>0, <2>3, <2>5, <3>4, SourcesAre DEF Hashes
      <3>6. Passes'
        <4>1. \A j \in 1..Len(t) : loaded[j] <= t[j]
          BY <1>2, <2>4, <3>2, <3>3 DEF Inv, Passes
        <4>2. \A j \in 1..Len(loaded) : seen[j] <= loaded[j]
          BY <1>2 DEF Inv, Passes
        <4>3. Len(t) < N
          BY <1>0, <2>4, <2>6
        <4>. QED
          BY <1>0, <1>2, <2>3, <2>4, <2>5, <3>1, <3>5, <4>1, <4>2, <4>3 DEF Passes, Hashes
      <3>7. Validated'
        <4>1. ASSUME NEW j \in 1..Len(t)
              PROVE  \E k \in seen[j]..t[j] : Recent(j, k)
          <5>1. CASE j = i
            BY <1>0, <1>2, <2>1, <2>4, <5>1 DEF Inv, Validated
          <5>2. CASE j \in 1..Len(again)
            BY <1>2, <2>4, <5>2 DEF Inv, Validated
          <5>. QED
            BY <3>3, <5>1, <5>2
        <4>2. ASSUME NEW l \in 1..N, NEW j \in 1..Len(t), Sources[j] \in UpstreamOf[Sources[l]]
              PROVE  published[Sources[l]][seen[l]][Sources[j]] <= t[j]
          <5>1. CASE j = i
            <6>1. seen[l] \in 1..Version(Sources[l])
              BY <2>3 DEF Hashes
            <6>. QED
              BY <2>4, <4>2, <5>1, <6>1, SourcesAre DEF Inv, Lineages
          <5>2. CASE j \in 1..Len(again)
            BY <1>2, <2>4, <4>2, <5>2 DEF Inv, Validated
          <5>. QED
            BY <3>3, <5>1, <5>2
        <4>3. \A j \in 1..N, k \in Nat : Recent(j, k)' <=> Recent(j, k)
          BY <2>5, <3>4, SourcesAre DEF Recent
        <4>4. \A j \in 1..Len(t) : \A k \in seen[j]..t[j] : j \in 1..N /\ k \in Nat
          BY <2>3, <2>4, HashesAre DEF Inv, Hashes
        <4>5. \A j \in 1..Len(t) : \E k \in seen[j]..t[j] : Recent(j, k)'
          BY <4>1, <4>3, <4>4
        <4>. QED
          BY <1>0, <2>5, <3>1, <3>4, <4>2, <4>5, SourcesAre DEF Validated
      <3>. QED
        BY <1>0, <3>1, <3>6, <3>7, PassStep
    <2>7. CASE i = N
      <3>1. /\ stage' = "append"
            /\ \/ t = seen /\ response' = Success(seen, loaded, Refs(call.tool, loaded))
               \/ response' = Refusal("request_rejected")
        BY <1>2, <2>1, <2>2, <2>4, <2>7
        DEF HashSource, BoundSoFar, NextSource, N, SourcesUnchanged, Answer, Reject
      <3>2. CASE response' = Refusal("request_rejected")
        BY <1>0, <3>1, <3>2, QuietStep DEF Refusal, NoResponse
      <3>3. CASE t = seen /\ response' = Success(seen, loaded, Refs(call.tool, loaded))
        <4>1. loaded = seen /\ OneCut(seen)
          BY <1>0, <1>2, <2>1, <2>2, <2>7, <3>3, OneLineage
        <4>2. response'.sources = seen /\ response'.result = seen
          BY <3>3, <4>1 DEF Success
        <4>3. published' = published
          BY <1>0 DEF sourceVars
        <4>4. Answered'
          BY <2>3, <4>1, <4>2, <4>3 DEF Answered, Hashes, OneCut, Version
        <4>. QED
          BY <1>0, <3>1, <4>4, SameLineages DEF Inv, Passes, Validated
      <3>. QED
        BY <3>1, <3>2, <3>3
    <2>. QED
      BY <2>6, <2>7
  <1>. QED
    BY <1>0, <1>1, <1>2

LEMMA LoadStep ==
    ASSUME Inv, LoadSource
    PROVE  Inv'
  <1>. USE DEF Reading
  <1>0. /\ UNCHANGED sourceVars /\ seen' = seen /\ again' = again /\ checked' = checked
        /\ stage = "load" /\ response' = response
        /\ Hashes(seen) /\ Hashes(loaded) /\ Len(seen) = N /\ Len(loaded) < N
        /\ again = <<>> /\ ~checked
    BY DEF LoadSource, Inv, Passes
  <1>1. PICK i : i = Len(loaded) + 1
    OBVIOUS
  <1>2. PICK t : t = Append(loaded, Version(Sources[i]))
    OBVIOUS
  <1>3. /\ i \in 1..N /\ Len(t) = i /\ t[i] = Version(Sources[i])
        /\ \A j \in 1..Len(loaded) : t[j] = loaded[j]
        /\ Hashes(t)'
    <2>1. UNCHANGED sourceVars /\ Hashes(loaded) /\ Len(loaded) < N
      BY <1>0
    <2>. QED
      <3>1. i \in 1..N /\ Len(t) = i /\ Hashes(t)'
        BY <1>1, <1>2, <2>1, Extended
      <3>2. t[i] = Version(Sources[i])
        BY <1>1, <1>2, <2>1, Extended
      <3>3. \A j \in 1..Len(loaded) : t[j] = loaded[j]
        BY <1>1, <1>2, <2>1, Extended
      <3>. QED
        BY <3>1, <3>2, <3>3
  <1>4. loaded' = t /\ stage' = IF i = N THEN "run" ELSE "load"
    BY <1>0, <1>1, <1>2, <1>3 DEF LoadSource, N
  <1>5. Hashes(seen)'
    BY <1>0 DEF Hashes, sourceVars, Version
  <1>6. /\ seen[i] <= Version(Sources[i])
        /\ \A j \in 1..Len(t) : j = i \/ j \in 1..Len(loaded)
    BY <1>0, <1>1, <1>3, HashesAre DEF Inv
  <1>7. \A j \in 1..Len(t) : seen[j] <= t[j]
    BY <1>0, <1>3, <1>6 DEF Inv, Passes
  <1>8. N \in Nat /\ (i # N => i < N)
    BY <1>3, SourcesAre
  <1>9. Passes'
    BY <1>0, <1>3, <1>4, <1>5, <1>7, <1>8 DEF Passes, Hashes
  <1>10. Validated'
    BY <1>4 DEF Validated
  <1>. QED
    BY <1>0, <1>9, <1>10, PassStep

LEMMA RunStep ==
    ASSUME Inv, RunTool
    PROVE  Inv'
  <1>. USE DEF Reading
  <1>0. UNCHANGED sourceVars /\ UNCHANGED bindingVars /\ stage = "run"
    BY DEF RunTool
  <1>1. CASE stage' = "rebind" /\ response' = response
    <2>1. Passes'
      BY <1>0, <1>1, SourcesAre DEF Inv, Passes, Hashes, sourceVars, bindingVars, Version
    <2>2. Validated'
      BY <1>0, <1>1 DEF Inv, Passes, Validated, bindingVars
    <2>. QED
      BY <1>0, <1>1, <2>1, <2>2, PassStep
  <1>2. CASE Reject("request_rejected")
    BY <1>0, <1>2, QuietStep DEF Reject, Answer, Refusal, NoResponse
  <1>. QED
    BY <1>1, <1>2 DEF RunTool

\* What leaves the gateway alone, or only records, refuses or ends.
LEMMA StutterStep ==
    ASSUME Inv, UNCHANGED <<published, building, stage, seen, loaded, again, checked, response>>
    PROVE  Inv'
  <1>1. Lineages'
    BY SameLineages DEF Inv, sourceVars
  <1>2. Passes'
    BY DEF Inv, Passes, Hashes, Version
  <1>3. Validated'
    BY DEF Inv, Validated, Recent, Version
  <1>4. Answered'
    BY DEF Inv, Answered, Hashes, OneCut, Version
  <1>. QED
    BY <1>1, <1>2, <1>3, <1>4 DEF Inv

LEMMA InvokeStep ==
    ASSUME Inv, NEW role, NEW c, Invoke(role, c)
    PROVE  Inv'
  <1>1. UNCHANGED sourceVars
    BY DEF Invoke
  <1>2. CASE Bind(c)
    BY <1>1, <1>2, BindStep
  <1>3. CASE Reject(Authorize(role, c.tool, c.arguments))
    BY <1>1, <1>3, QuietStep DEF Reject, Answer, Refusal, NoResponse, Reading
  <1>4. CASE stage' = "raised" /\ UNCHANGED response
    BY <1>1, <1>4, QuietStep DEF Reading
  <1>. QED
    BY <1>2, <1>3, <1>4 DEF Invoke

LEMMA NextStep == Inv /\ [Next]_vars => Inv'
  <1>. SUFFICES ASSUME Inv, [Next]_vars PROVE Inv'
    OBVIOUS
  <1>1. CASE BindRun
    BY <1>1, BindStep DEF BindRun
  <1>2. CASE RunBound \/ TakeResult
    BY <1>2, QuietStep DEF RunBound, TakeResult, Reading
  <1>3. CASE GatewayStep
    <2>1. CASE RecordReceipt(InvestigationId)
      BY <2>1, QuietStep DEF RecordReceipt, Reading
    <2>. QED
      BY <1>3, <2>1, CheckStep, HashStep, LoadStep, RunStep DEF GatewayStep
  <1>4. CASE InvokeRaised \/ Overspend \/ UNCHANGED vars
    BY <1>4, StutterStep
    DEF InvokeRaised, Overspend, vars, gatewayVars
  <1>5. ASSUME NEW fault \in ProviderFaults, RouteFails(fault)
        PROVE  Inv'
    BY <1>5, StutterStep DEF RouteFails, gatewayVars
  <1>6. ASSUME NEW calls \in Unusable, Nudge(calls)
        PROVE  Inv'
    BY <1>6, StutterStep DEF Nudge, gatewayVars
  <1>7. ASSUME NEW p \in Proposals, Submit(p)
        PROVE  Inv'
    BY <1>7, StutterStep DEF Submit, gatewayVars
  <1>8. ASSUME NEW tool \in AllowedTools, NEW arguments \in Arguments, CallTool(tool, arguments)
        PROVE  Inv'
    BY <1>8, StutterStep, InvokeStep DEF CallTool, gatewayVars
  <1>9. CASE RunKilled
    BY <1>9, QuietStep DEF RunKilled, Killed, NoResponse, Reading
  <1>10. CASE Surroundings
    <2>1. ASSUME NEW a \in Artifacts, ReadUpstream(a) \/ Republish(a)
          PROVE  Inv'
      BY <2>1, PublishStep
    <2>2. ASSUME NEW request \in OtherRequests, OtherInvocation(request)
          PROVE  Inv'
      BY <2>2, StutterStep DEF OtherInvocation, sourceVars, bindingVars
    <2>3. CASE OtherKilledWriting
      BY <2>3, StutterStep DEF OtherKilledWriting, sourceVars, bindingVars
    <2>. QED
      BY <1>10, <2>1, <2>2, <2>3 DEF Surroundings
  <1>. QED
    BY <1>1, <1>2, <1>3, <1>4, <1>5, <1>6, <1>7, <1>8, <1>9, <1>10 DEF Next, Run

\* A tool that answers successfully has read exactly the versions it reports,
\* and these were built from one another.
THEOREM SuccessfulAnswersAreOneCut == Spec => []SuccessIsOneCut
  <1>1. Inv => SuccessIsOneCut
    BY DEF Inv, Answered, SuccessIsOneCut
  <1>. QED
    BY <1>1, InvInit, NextStep, PTL DEF Spec

-----------------------------------------------------------------------------
(* The run: what its trace, its transcript, its report and the ledger have to *)
(* do with one another.                                                        *)

Listed(s) == \E S : s \in Seq(S)

\* Until the run has bound its sources there is nothing to tell.
Phases ==
  /\ pc \in {"begin", "binding", "ask", "call"} \cup Ended
  /\ round \in Nat
  /\ pc \in {"begin", "binding"} => round = 1 /\ observed = {} /\ trace = <<>> /\ transcript = <<>>
  /\ pc = "binding" => call = NoCall /\ stage \in {"bind", "bound", "unbound"}

\* The call under way is the round's, and is answered as the policy has it.
Code(c) == Authorize(Role, c.tool, c.arguments)
Fits(c, r) ==
  \/ /\ r.status = "success" /\ r.code = "none"
     /\ Code(c) = "allowed" /\ r.refs = Refs(c.tool, r.result)
  \/ r = Refusal(IF Code(c) = "allowed" THEN "request_rejected" ELSE Code(c))
Calling ==
  pc = "call" =>
    /\ \E tool \in AllowedTools, arguments \in Arguments : call = ToolCall(round, tool, arguments)
    /\ stage \in Reading \cup {"append", "answered", "raised"}
    /\ stage \in Reading => Code(call) = "allowed"
    /\ stage \in {"append", "answered"} => Fits(call, response)

\* What the trace tells rests on the binding of the run.
Rests(e, b) ==
  \/ /\ e.status = "success" /\ e.code = "none" /\ e.arguments # "none"
     /\ e.result = b /\ e.refs = Refs(e.tool, b)
  \/ /\ e.status = "error" /\ e.result = <<>> /\ e.refs = {}
     /\ e.arguments = "none" \/ e.code = "request_rejected"
Succeeded(steps) == {i \in 1..Len(steps) : steps[i].status = "success"}
Traced ==
  /\ Listed(trace)
  /\ \A i \in 1..Len(trace) : Rests(trace[i], bound)
  /\ observed = UNION {trace[i].refs : i \in Succeeded(trace)}
  /\ Succeeded(trace) # {} => Hashes(bound) /\ Len(bound) = N /\ OneCut(bound)

\* The transcript tells the same trace, one round after the other.
Decisions == {"proposal_rejected", "proposal_accepted"}
Told(n) ==
  /\ transcript[n].type \in {"provider_response", "tool_result"} \cup Decisions
  /\ transcript[n].type # "provider_response" => Paired(n)
  /\ transcript[n].type = "tool_result" =>
       Reconstructs(n, trace) /\ transcript[n].entry = trace[ResultsUpTo(n)]
  /\ transcript[n].type \in Decisions => transcript[n].of.tool = "submit"
  /\ transcript[n].type = "proposal_accepted" =>
       pc = "accepted" /\ n = Len(transcript) /\ transcript[n].report = report
Transcribed ==
  /\ Listed(transcript)
  /\ \A n \in 1..Len(transcript) : Told(n)
  /\ ResultsUpTo(Len(transcript)) = Len(trace)
  /\ pc \in {"begin", "binding", "ask"} => ProviderRound(Len(transcript)) = round - 1
  /\ pc = "call" =>
       /\ ProviderRound(Len(transcript)) = round
       /\ transcript # <<>>
       /\ transcript[Len(transcript)]
            = Responded(<<[tool |-> call.tool, arguments |-> call.arguments]>>)

\* An accepted report is what the run found.
Reported ==
  pc = "accepted" =>
    /\ transcript # <<>> /\ transcript[Len(transcript)].type = "proposal_accepted"
    /\ report.proposal \in Proposals /\ Accepted(report.verdict)
    /\ report = ReportOf(report.proposal, observed, bound, trace, attempts, tokens)

\* The ledger is ahead of the trace by the answer the run is about to take up.
Ahead == pc = "call" /\ stage = "answered"
Recorded ==
  /\ Listed(ledger)
  /\ pc # "killed" =>
       /\ ReceiptsUpTo(Len(ledger)) \in {Len(trace), Len(trace) + 1}
       /\ pc \in {"begin", "binding", "ask", "call"} =>
            ReceiptsUpTo(Len(ledger)) = IF Ahead THEN Len(trace) + 1 ELSE Len(trace)
       /\ \A n \in 1..Len(ledger) :
            ledger[n].who = InvestigationId =>
              /\ ReceiptsUpTo(n) <= Len(trace) => Records(ledger[n], trace[ReceiptsUpTo(n)])
              /\ Ahead /\ ReceiptsUpTo(n) = Len(trace) + 1 => Records(ledger[n], Entry)

RunInv == Phases /\ Calling /\ Traced /\ Transcribed /\ Reported /\ Recorded

-----------------------------------------------------------------------------
\* Sequences and counts.

LEMMA EmptyIsListed == Listed(<<>>)
  BY DEF Listed

LEMMA Appended ==
    ASSUME NEW s, Listed(s), NEW e
    PROVE  /\ Listed(Append(s, e)) /\ Len(s) \in Nat
           /\ Len(Append(s, e)) = Len(s) + 1
           /\ Append(s, e)[Len(s) + 1] = e
           /\ \A i \in 1..Len(s) : Append(s, e)[i] = s[i]
  <1>1. PICK S : s \in Seq(S)
    BY DEF Listed
  <1>2. PICK T : T = S \cup {e}
    OBVIOUS
  <1>3. s \in Seq(T) /\ e \in T
    BY <1>1, <1>2
  <1>. QED
    BY <1>3 DEF Listed

LEMMA UpToIsFinite ==
    ASSUME NEW n \in Nat, NEW A, A \subseteq 1..n
    PROVE  /\ IsFiniteSet(A) /\ Cardinality(A) \in Nat
           /\ A # {} => Cardinality(A) >= 1
  <1>1. A \in SUBSET Nat /\ \A x \in A : x <= n
    OBVIOUS
  <1>2. IsFiniteSet(A)
    BY <1>1, FS_BoundedSetOfNaturals
  <1>3. Cardinality(A) \in Nat
    BY <1>2, FS_CardinalityType
  <1>4. A # {} => Cardinality(A) # 0
    BY <1>2, FS_EmptySet
  <1>. QED
    BY <1>2, <1>3, <1>4

LEMMA UpToNext ==
    ASSUME NEW n \in Nat, NEW A, A \subseteq 1..n
    PROVE  Cardinality(A \cup {n + 1}) = Cardinality(A) + 1
  <1>1. IsFiniteSet(A)
    BY UpToIsFinite
  <1>2. n + 1 \notin A
    OBVIOUS
  <1>3. PICK m : m = n + 1
    OBVIOUS
  <1>4. Cardinality(A \cup {m}) = Cardinality(A) + 1
    BY <1>1, <1>2, <1>3, FS_AddElement
  <1>. QED
    BY <1>3, <1>4

\* Events that stay where they are, and one or two more.
LEMMA CountsOfEvents ==
    ASSUME NEW n \in Nat
    PROVE  /\ ProviderRound(n) \in Nat /\ ResultsUpTo(n) \in Nat
           /\ ProviderRound(n + 1) = IF transcript[n + 1].type = "provider_response"
                                     THEN ProviderRound(n) + 1 ELSE ProviderRound(n)
           /\ ResultsUpTo(n + 1) = IF transcript[n + 1].type = "tool_result"
                                   THEN ResultsUpTo(n) + 1 ELSE ResultsUpTo(n)
           /\ transcript[n].type = "tool_result" /\ n > 0 => ResultsUpTo(n) >= 1
  <1>1. \A type : EventsUpTo(type, n) \subseteq 1..n
    BY DEF EventsUpTo
  <1>2. ASSUME NEW type
        PROVE  EventsUpTo(type, n + 1) = IF transcript[n + 1].type = type
                                         THEN EventsUpTo(type, n) \cup {n + 1}
                                         ELSE EventsUpTo(type, n)
    BY DEF EventsUpTo
  <1>3. ASSUME NEW type
        PROVE  Cardinality(EventsUpTo(type, n + 1))
                 = IF transcript[n + 1].type = type
                   THEN Cardinality(EventsUpTo(type, n)) + 1
                   ELSE Cardinality(EventsUpTo(type, n))
    <2>1. PICK A : A = EventsUpTo(type, n)
      OBVIOUS
    <2>2. PICK B : B = EventsUpTo(type, n + 1)
      OBVIOUS
    <2>3. A \subseteq 1..n
      BY <1>1, <2>1
    <2>4. B = A => Cardinality(B) = Cardinality(A)
      OBVIOUS
    <2>5. B = A \cup {n + 1} => Cardinality(B) = Cardinality(A) + 1
      BY <2>3, UpToNext
    <2>. QED
      BY <1>2, <2>1, <2>2, <2>4, <2>5
  <1>4. \A type : /\ Cardinality(EventsUpTo(type, n)) \in Nat
                  /\ EventsUpTo(type, n) # {} => Cardinality(EventsUpTo(type, n)) >= 1
    BY <1>1, UpToIsFinite
  <1>5. transcript[n].type = "tool_result" /\ n > 0 => EventsUpTo("tool_result", n) # {}
    BY DEF EventsUpTo
  <1>. QED
    BY <1>3, <1>4, <1>5 DEF ProviderRound, ResultsUpTo

LEMMA CountsStay ==
    ASSUME NEW n \in Nat, \A i \in 1..n : transcript'[i] = transcript[i],
           NEW m \in 0..n
    PROVE  ProviderRound(m)' = ProviderRound(m) /\ ResultsUpTo(m)' = ResultsUpTo(m)
  <1>1. \A type : EventsUpTo(type, m)' = EventsUpTo(type, m)
    BY DEF EventsUpTo
  <1>. QED
    BY <1>1 DEF ProviderRound, ResultsUpTo

LEMMA NoEvents == ProviderRound(0) = 0 /\ ResultsUpTo(0) = 0 /\ ReceiptsUpTo(0) = 0
  <1>1. EventsUpTo("provider_response", 0) = {} /\ EventsUpTo("tool_result", 0) = {}
    BY DEF EventsUpTo
  <1>. QED
    BY <1>1, FS_EmptySet DEF ProviderRound, ResultsUpTo, ReceiptsUpTo

LEMMA CountsOfReceipts ==
    ASSUME NEW n \in Nat
    PROVE  /\ ReceiptsUpTo(n) \in Nat
           /\ ReceiptsUpTo(n + 1) = IF ledger[n + 1].who = InvestigationId
                                    THEN ReceiptsUpTo(n) + 1 ELSE ReceiptsUpTo(n)
           /\ ledger[n].who = InvestigationId /\ n > 0 => ReceiptsUpTo(n) >= 1
  <1>1. PICK A : A = {i \in 1..n : ledger[i].who = InvestigationId}
    OBVIOUS
  <1>2. PICK B : B = {i \in 1..(n + 1) : ledger[i].who = InvestigationId}
    OBVIOUS
  <1>3. /\ ReceiptsUpTo(n) = Cardinality(A) /\ ReceiptsUpTo(n + 1) = Cardinality(B)
        /\ A \subseteq 1..n
    BY <1>1, <1>2 DEF ReceiptsUpTo
  <1>4. B = IF ledger[n + 1].who = InvestigationId THEN A \cup {n + 1} ELSE A
    BY <1>1, <1>2
  <1>5. B = A \cup {n + 1} => Cardinality(B) = Cardinality(A) + 1
    BY <1>3, UpToNext
  <1>6. Cardinality(A) \in Nat /\ (A # {} => Cardinality(A) >= 1)
    BY <1>3, UpToIsFinite
  <1>7. ledger[n].who = InvestigationId /\ n > 0 => A # {}
    BY <1>1
  <1>. QED
    BY <1>3, <1>4, <1>5, <1>6, <1>7

LEMMA ReceiptsStay ==
    ASSUME NEW n \in Nat, \A i \in 1..n : ledger'[i] = ledger[i], NEW m \in 0..n
    PROVE  ReceiptsUpTo(m)' = ReceiptsUpTo(m)
  <1>1. {i \in 1..m : ledger'[i].who = InvestigationId}
          = {i \in 1..m : ledger[i].who = InvestigationId}
    OBVIOUS
  <1>. QED
    BY <1>1 DEF ReceiptsUpTo

-----------------------------------------------------------------------------
\* What the parts of the invariant ask of a step that leaves them alone.

Growing ==
  \A b \in Artifacts : /\ Version(b) \in Nat /\ Version(b)' \in Nat /\ Version(b) <= Version(b)'
                       /\ \A k \in 1..Version(b) : published'[b][k] = published[b][k]

LEMMA SourcesGrow ==
    ASSUME Lineages,
           UNCHANGED sourceVars \/ \E a \in Artifacts : ReadUpstream(a) \/ Republish(a)
    PROVE  Growing
  <1>1. CASE UNCHANGED sourceVars
    BY <1>1, VersionsAre DEF Growing, sourceVars, Version
  <1>2. ASSUME NEW a \in Artifacts, ReadUpstream(a) \/ Republish(a)
        PROVE  Growing
    BY <1>2, Publishing DEF Growing
  <1>. QED
    BY <1>1, <1>2

LEMMA CutsStay ==
    ASSUME Lineages, Growing, NEW s, Hashes(s), Len(s) = N, OneCut(s)
    PROVE  Hashes(s)' /\ OneCut(s)'
  <1>1. ASSUME NEW i \in 1..Len(s)
        PROVE  s[i] \in 1..Version(Sources[i])'
    <2>1. /\ i \in 1..N /\ Version(Sources[i]) \in Nat
          /\ s[i] \in Nat /\ 1 <= s[i] /\ s[i] <= Version(Sources[i])
      BY <1>1, HashesAre
    <2>2. Version(Sources[i])' \in Nat /\ Version(Sources[i]) <= Version(Sources[i])'
      BY <2>1, SourcesAre DEF Growing
    <2>. QED
      BY <2>1, <2>2
  <1>2. Hashes(s)'
    BY <1>1 DEF Hashes
  <1>3. ASSUME NEW i \in 1..N, NEW j \in 1..N, Sources[j] \in UpstreamOf[Sources[i]]
        PROVE  published'[Sources[i]][s[i]][Sources[j]] = s[j]
    <2>1. s[i] \in 1..Version(Sources[i])
      BY DEF Hashes
    <2>2. published[Sources[i]][s[i]][Sources[j]] = s[j]
      BY <1>3, SourcesAre DEF OneCut
    <2>. QED
      BY <2>1, <2>2, SourcesAre DEF Growing
  <1>4. OneCut(s)'
    BY <1>3, SourcesAre DEF OneCut
  <1>. QED
    BY <1>2, <1>4

LEMMA TracedStays ==
    ASSUME Lineages, Growing, Traced, UNCHANGED <<trace, observed, bound>>
    PROVE  Traced'
  <1>1. Succeeded(trace) # {} => Hashes(bound) /\ Len(bound) = N /\ OneCut(bound)
    BY DEF Traced
  <1>2. Succeeded(trace) # {} => Hashes(bound)' /\ OneCut(bound)'
    <2>1. PICK s : s = bound
      OBVIOUS
    <2>2. bound' = s
      BY <2>1
    <2>3. ASSUME Hashes(s), Len(s) = N, OneCut(s)
          PROVE  Hashes(s)' /\ OneCut(s)'
      BY <2>3, CutsStay
    <2>. QED
      BY <1>1, <2>1, <2>2, <2>3 DEF Hashes, OneCut, Version
  <1>3. Listed(trace') /\ \A i \in 1..Len(trace') : Rests(trace'[i], bound')
    BY DEF Traced
  <1>4. observed' = UNION {trace'[i].refs : i \in Succeeded(trace')}
    BY DEF Traced
  <1>. QED
    BY <1>1, <1>2, <1>3, <1>4 DEF Traced

\* Without a trace nothing needs to rest on anything.
LEMMA UntracedRests ==
    ASSUME trace' = <<>>, observed' = {}
    PROVE  Traced'
  <1>1. Succeeded(trace') = {} /\ Len(trace') = 0
    BY DEF Succeeded
  <1>. QED
    BY <1>1, EmptyIsListed DEF Traced

LEMMA ToldStays ==
    ASSUME Transcribed, UNCHANGED <<transcript, trace, report>>,
           pc' = pc \/ (pc # "accepted" /\ pc' # "accepted"),
           NEW n \in 1..Len(transcript)
    PROVE  Told(n)'
  <1>1. Told(n)
    BY DEF Transcribed
  <1>2. ProviderRound(n)' = ProviderRound(n) /\ ResultsUpTo(n)' = ResultsUpTo(n)
    BY DEF ProviderRound, ResultsUpTo, EventsUpTo
  <1>3. Reconstructs(n, trace) => Reconstructs(n, trace)'
    BY <1>2 DEF Reconstructs
  <1>4. Paired(n) => Paired(n)'
    BY DEF Paired
  <1>. QED
    BY <1>1, <1>2, <1>3, <1>4 DEF Told, Decisions

LEMMA TranscribedStays ==
    ASSUME Transcribed, UNCHANGED <<transcript, trace, report>>,
           \/ pc' = pc /\ UNCHANGED round /\ (pc = "call" => UNCHANGED call)
           \/ pc # "accepted" /\ pc' = "failed"
    PROVE  Transcribed'
  <1>1. \A n \in 1..Len(transcript') : Told(n)'
    BY ToldStays
  <1>2. \A n : ProviderRound(n)' = ProviderRound(n) /\ ResultsUpTo(n)' = ResultsUpTo(n)
    BY DEF ProviderRound, ResultsUpTo, EventsUpTo
  <1>. QED
    BY <1>1, <1>2 DEF Transcribed, Responded

LEMMA ReportedStays ==
    ASSUME Reported, UNCHANGED runVars, UNCHANGED attempts
    PROVE  Reported'
  BY DEF Reported, runVars

\* Nothing is told of the run before it has asked, nor after it was killed.
LEMMA Untold ==
    ASSUME transcript' = <<>>, trace' = <<>>, round' = 1,
           pc' \in {"begin", "binding", "ask", "killed"}
    PROVE  Transcribed'
  <1>1. PICK n : n = Len(transcript')
    OBVIOUS
  <1>2. n = 0 /\ Len(trace') = 0
    BY <1>1
  <1>3. EventsUpTo("provider_response", 0)' = {} /\ EventsUpTo("tool_result", 0)' = {}
    BY DEF EventsUpTo
  <1>4. ProviderRound(0)' = 0 /\ ResultsUpTo(0)' = 0
    BY <1>3, FS_EmptySet DEF ProviderRound, ResultsUpTo
  <1>5. ResultsUpTo(n)' = Len(trace') /\ ProviderRound(n)' = round' - 1
    BY <1>2, <1>4
  <1>. QED
    BY <1>1, <1>2, <1>5, EmptyIsListed DEF Transcribed

LEMMA RecordedStays ==
    ASSUME Recorded, UNCHANGED <<ledger, trace>>, pc # "killed",
           \/ pc' = pc /\ (Ahead' <=> Ahead) /\ (Ahead => UNCHANGED <<call, response>>)
           \/ pc' \in {"failed", "killed"}
           \/ /\ pc \in {"begin", "binding", "ask"} /\ ~Ahead'
              /\ pc' \in {"begin", "binding", "ask", "call", "accepted"}
    PROVE  Recorded'
  <1>1. \A n : ReceiptsUpTo(n)' = ReceiptsUpTo(n)
    BY DEF ReceiptsUpTo
  <1>2. pc \in {"begin", "binding", "ask"} => ~Ahead
    BY DEF Ahead
  <1>3. Ahead /\ Ahead' => pc' = pc /\ UNCHANGED <<call, response>>
    BY DEF Ahead
  <1>4. /\ Ahead /\ Ahead' => Entry' = Entry
        /\ Ahead' => Ahead
    BY <1>3 DEF Ahead, Entry, Normalized
  <1>5. pc' # "killed" => ReceiptsUpTo(Len(ledger))' \in {Len(trace'), Len(trace') + 1}
    BY <1>1 DEF Recorded
  <1>6. pc' \in {"begin", "binding", "ask", "call"} =>
          ReceiptsUpTo(Len(ledger))' = IF Ahead' THEN Len(trace') + 1 ELSE Len(trace')
    BY <1>1, <1>2 DEF Recorded
  <1>7. ASSUME NEW n \in 1..Len(ledger'), ledger'[n].who = InvestigationId
        PROVE  /\ ReceiptsUpTo(n)' <= Len(trace')
                    => Records(ledger'[n], trace'[ReceiptsUpTo(n)'])
               /\ Ahead' /\ ReceiptsUpTo(n)' = Len(trace') + 1 => Records(ledger'[n], Entry')
    BY <1>1, <1>4, <1>7 DEF Recorded
  <1>. QED
    BY <1>5, <1>6, <1>7 DEF Recorded, Records

-----------------------------------------------------------------------------
\* The gateway's side of the run.

LEMMA RefusalIs ==
    ASSUME NEW code
    PROVE  LET r == Refusal(code)
           IN r.status = "error" /\ r.code = code /\ r.result = <<>> /\ r.refs = {}
  BY DEF Refusal, NoResponse

LEMMA CallIsNoNoCall ==
    ASSUME Calling, pc = "call"
    PROVE  call # NoCall
  <1>1. PICK tool \in AllowedTools, arguments \in Arguments :
             call = ToolCall(round, tool, arguments)
    BY DEF Calling
  <1>2. Len(call.id) = 3
    BY <1>1 DEF ToolCall
  <1>3. Len(NoCall.id) = 0
    BY DEF NoCall
  <1>. QED
    BY <1>2, <1>3

LEMMA GatewayCalling ==
    ASSUME Phases, Calling, GatewayStep
    PROVE  /\ Calling' /\ Phases'
           /\ UNCHANGED <<runVars, attempts, call>> /\ pc \in {"binding", "call"}
           /\ Ahead => UNCHANGED <<ledger, response, stage>>
           /\ ~RecordReceipt(InvestigationId) => UNCHANGED ledger /\ (Ahead' <=> Ahead)
           /\ UNCHANGED sourceVars
  <1>. USE DEF Reading
  <1>0. UNCHANGED <<runVars, attempts>> /\ pc \in {"binding", "call"}
    BY DEF GatewayStep, routerVars
  <1>1. /\ UNCHANGED <<pc, round, tokens, observed, trace, transcript, bound, report>>
        /\ UNCHANGED call /\ UNCHANGED sourceVars
    BY <1>0 DEF GatewayStep, runVars, CheckSource, HashSource, LoadSource, RunTool, RecordReceipt
  <1>2. CASE pc = "binding"
    <2>1. call = NoCall /\ stage \in {"bind", "bound", "unbound"}
      BY <1>2 DEF Phases
    <2>2. CheckSource \/ HashSource
      BY <2>1 DEF GatewayStep, LoadSource, RunTool, RecordReceipt
    <2>3. stage' \in {"bind", "bound", "unbound"} /\ UNCHANGED ledger
      BY <2>1, <2>2 DEF CheckSource, HashSource
    <2>4. ~Ahead /\ ~Ahead' /\ ~RecordReceipt(InvestigationId)
      BY <1>1, <1>2, <2>1 DEF Ahead, RecordReceipt
    <2>. QED
      BY <1>0, <1>1, <1>2, <2>1, <2>3, <2>4 DEF Phases, Calling
  <1>3. CASE pc = "call"
    <2>1. PICK tool \in AllowedTools, arguments \in Arguments :
               call = ToolCall(round, tool, arguments)
      BY <1>3 DEF Calling
    <2>2. call # NoCall
      BY <1>3, CallIsNoNoCall
    <2>3. CASE CheckSource
      <3>1. Code(call) = "allowed" /\ UNCHANGED ledger /\ stage \in Reading
        BY <1>3, <2>3 DEF Calling, CheckSource
      <3>2. \/ stage' = stage
            \/ stage' = "append" /\ response' = Refusal("request_rejected")
        BY <2>2, <2>3 DEF CheckSource, Reject, Answer
      <3>3. ~RecordReceipt(InvestigationId) /\ ~Ahead /\ ~Ahead'
        BY <3>1, <3>2 DEF RecordReceipt, Ahead
      <3>. QED
        BY <1>0, <1>1, <1>3, <2>1, <3>1, <3>2, <3>3 DEF Calling, Phases, Fits
    <2>4. CASE HashSource
      <3>1. Code(call) = "allowed" /\ UNCHANGED ledger /\ stage \in Reading
        BY <1>3, <2>4 DEF Calling, HashSource
      <3>2. \/ stage' \in {stage, "load"}
            \/ stage' = "append" /\ response' = Success(seen, loaded, Refs(call.tool, loaded))
            \/ stage' = "append" /\ response' = Refusal("request_rejected")
        BY <2>2, <2>4 DEF HashSource, Reject, Answer
      <3>3. ~RecordReceipt(InvestigationId) /\ ~Ahead /\ ~Ahead'
        BY <3>1, <3>2 DEF RecordReceipt, Ahead
      <3>4. stage' = "append" => Fits(call, response')
        BY <3>1, <3>2 DEF Fits, Success
      <3>. QED
        BY <1>0, <1>1, <1>3, <2>1, <3>1, <3>2, <3>3, <3>4 DEF Calling, Phases
    <2>5. CASE LoadSource \/ RunTool
      <3>1. Code(call) = "allowed" /\ UNCHANGED ledger /\ stage \in {"load", "run"}
        BY <1>3, <2>5 DEF Calling, LoadSource, RunTool
      <3>2. \/ stage' \in {"load", "run", "rebind"}
            \/ stage' = "append" /\ response' = Refusal("request_rejected")
        BY <2>5 DEF LoadSource, RunTool, Reject, Answer
      <3>3. ~RecordReceipt(InvestigationId) /\ ~Ahead /\ ~Ahead'
        BY <3>1, <3>2 DEF RecordReceipt, Ahead
      <3>. QED
        BY <1>0, <1>1, <1>3, <2>1, <3>1, <3>2, <3>3 DEF Calling, Phases, Fits
    <2>6. CASE RecordReceipt(InvestigationId)
      <3>1. stage = "append" /\ stage' \in {"answered", "raised"} /\ UNCHANGED response
        BY <2>6 DEF RecordReceipt
      <3>2. ~Ahead
        BY <3>1 DEF Ahead
      <3>. QED
        BY <1>0, <1>1, <1>3, <2>1, <2>6, <3>1, <3>2 DEF Calling, Phases
    <2>. QED
      BY <2>3, <2>4, <2>5, <2>6 DEF GatewayStep
  <1>. QED
    BY <1>0, <1>2, <1>3

\* A receipt of this run is the next one.
LEMMA ReceiptStep ==
    ASSUME Recorded, NEW r, ledger' = Append(ledger, r), UNCHANGED <<pc, trace>>, Listed(trace),
           NEW l, l = Len(ledger), pc # "killed"
    PROVE  /\ Listed(ledger') /\ l \in Nat /\ Len(ledger') = l + 1 /\ ledger'[l + 1] = r
           /\ \A n \in 1..l : ledger'[n] = ledger[n] /\ ReceiptsUpTo(n)' = ReceiptsUpTo(n)
           /\ ReceiptsUpTo(l + 1)' = IF r.who = InvestigationId
                                     THEN ReceiptsUpTo(l) + 1 ELSE ReceiptsUpTo(l)
  <1>1. /\ Listed(ledger') /\ l \in Nat /\ Len(ledger') = l + 1 /\ ledger'[l + 1] = r
        /\ \A n \in 1..l : ledger'[n] = ledger[n]
    BY Appended DEF Recorded
  <1>2. \A m \in 0..l : ReceiptsUpTo(m)' = ReceiptsUpTo(m)
    BY <1>1, ReceiptsStay
  <1>3. PICK A : A = {i \in 1..l : ledger'[i].who = InvestigationId}
    OBVIOUS
  <1>4. PICK B : B = {i \in 1..(l + 1) : ledger'[i].who = InvestigationId}
    OBVIOUS
  <1>5. /\ ReceiptsUpTo(l)' = Cardinality(A) /\ ReceiptsUpTo(l + 1)' = Cardinality(B)
        /\ A \subseteq 1..l
    BY <1>3, <1>4 DEF ReceiptsUpTo
  <1>6. B = IF r.who = InvestigationId THEN A \cup {l + 1} ELSE A
    BY <1>1, <1>3, <1>4
  <1>7. Cardinality(A \cup {l + 1}) = Cardinality(A) + 1
    BY <1>1, <1>5, UpToNext
  <1>8. ReceiptsUpTo(l)' = ReceiptsUpTo(l)
    BY <1>1, <1>2
  <1>9. ReceiptsUpTo(l + 1)' = IF r.who = InvestigationId
                               THEN ReceiptsUpTo(l) + 1 ELSE ReceiptsUpTo(l)
    BY <1>5, <1>6, <1>7, <1>8
  <1>. QED
    BY <1>1, <1>2, <1>9

\* A receipt of another process changes nothing of the run's.
LEMMA OthersReceipt ==
    ASSUME Recorded, Listed(trace), NEW r, r.who # InvestigationId, ledger' = Append(ledger, r),
           UNCHANGED <<pc, trace, stage, call, response>>
    PROVE  Recorded'
  <1>0. Listed(ledger)
    BY DEF Recorded
  <1>1. CASE pc = "killed"
    BY <1>0, <1>1, Appended DEF Recorded
  <1>2. CASE pc # "killed"
    <2>1. PICK l : l = Len(ledger)
      OBVIOUS
    <2>2. /\ Listed(ledger') /\ l \in Nat /\ Len(ledger') = l + 1 /\ ledger'[l + 1] = r
          /\ \A n \in 1..l : ledger'[n] = ledger[n] /\ ReceiptsUpTo(n)' = ReceiptsUpTo(n)
      BY <1>2, <2>1, ReceiptStep
    <2>3. ReceiptsUpTo(l + 1)' = ReceiptsUpTo(l)
      BY <1>2, <2>1, ReceiptStep
    <2>4. PICK m : m = Len(ledger')
      OBVIOUS
    <2>5. ReceiptsUpTo(m)' = ReceiptsUpTo(l)
      BY <2>2, <2>3, <2>4
    <2>6. ReceiptsUpTo(Len(ledger))' = ReceiptsUpTo(Len(ledger))
      BY <2>1, <2>4, <2>5
    <2>7. (Ahead' <=> Ahead) /\ Entry' = Entry
      BY DEF Ahead, Entry, Normalized
    <2>8. /\ ReceiptsUpTo(Len(ledger)) \in {Len(trace), Len(trace) + 1}
          /\ pc \in {"begin", "binding", "ask", "call"} =>
               ReceiptsUpTo(Len(ledger)) = IF Ahead THEN Len(trace) + 1 ELSE Len(trace)
          /\ \A n \in 1..l :
               ledger[n].who = InvestigationId =>
                 /\ ReceiptsUpTo(n) <= Len(trace) => Records(ledger[n], trace[ReceiptsUpTo(n)])
                 /\ Ahead /\ ReceiptsUpTo(n) = Len(trace) + 1 => Records(ledger[n], Entry)
      BY <1>2, <2>1 DEF Recorded
    <2>9. ASSUME NEW n \in 1..Len(ledger'), ledger'[n].who = InvestigationId
          PROVE  /\ ReceiptsUpTo(n)' <= Len(trace')
                      => Records(ledger'[n], trace'[ReceiptsUpTo(n)'])
                 /\ Ahead' /\ ReceiptsUpTo(n)' = Len(trace') + 1 => Records(ledger'[n], Entry')
      <3>1. n \in 1..l
        BY <2>2, <2>9
      <3>. QED
        BY <2>2, <2>7, <2>8, <2>9, <3>1
    <2>. QED
      BY <2>2, <2>6, <2>7, <2>8, <2>9 DEF Recorded, Records
  <1>. QED
    BY <1>1, <1>2

\* The receipt of an answer is what the run will find in it.
LEMMA OwnReceipt ==
    ASSUME Recorded, Listed(trace), pc = "call", ~Ahead, stage' = "answered",
           ledger' = Append(ledger, Receipt(InvestigationId, call, response)),
           UNCHANGED <<pc, trace, call, response>>
    PROVE  Recorded'
  <1>1. PICK r : r = Receipt(InvestigationId, call, response)
    OBVIOUS
  <1>2. PICK l : l = Len(ledger)
    OBVIOUS
  <1>3. r.who = InvestigationId /\ Records(r, Entry) /\ Records(r, Entry')
    BY <1>1 DEF Receipt, Records, Entry, Normalized
  <1>4. /\ Listed(ledger') /\ l \in Nat /\ Len(ledger') = l + 1 /\ ledger'[l + 1] = r
        /\ \A n \in 1..l : ledger'[n] = ledger[n] /\ ReceiptsUpTo(n)' = ReceiptsUpTo(n)
    BY <1>1, <1>2, ReceiptStep
  <1>5. ReceiptsUpTo(l + 1)' = ReceiptsUpTo(l) + 1
    BY <1>1, <1>2, <1>3, ReceiptStep
  <1>6. /\ ReceiptsUpTo(l) = Len(trace) /\ Len(trace) \in Nat
        /\ \A n \in 1..l :
             ledger[n].who = InvestigationId =>
               (ReceiptsUpTo(n) <= Len(trace) => Records(ledger[n], trace[ReceiptsUpTo(n)]))
    BY <1>2, Appended DEF Recorded
  <1>7. \A n \in 1..l : ledger[n].who = InvestigationId => ReceiptsUpTo(n) <= Len(trace)
    <2>. SUFFICES ASSUME NEW n \in 1..l, ledger[n].who = InvestigationId
                  PROVE  ReceiptsUpTo(n) <= Len(trace)
      OBVIOUS
    <2>1. PICK A : A = {i \in 1..n : ledger[i].who = InvestigationId}
      OBVIOUS
    <2>2. PICK B : B = {i \in 1..l : ledger[i].who = InvestigationId}
      OBVIOUS
    <2>3. IsFiniteSet(B) /\ A \in SUBSET B
      BY <1>4, <2>1, <2>2, UpToIsFinite
    <2>4. Cardinality(A) <= Cardinality(B)
      BY <2>3, FS_Subset
    <2>. QED
      BY <1>6, <2>1, <2>2, <2>4 DEF ReceiptsUpTo
  <1>8. Ahead'
    BY DEF Ahead
  <1>9. PICK m : m = Len(ledger')
    OBVIOUS
  <1>10. ReceiptsUpTo(m)' = Len(trace) + 1
    BY <1>4, <1>5, <1>6, <1>9
  <1>11. ReceiptsUpTo(Len(ledger))' = Len(trace) + 1
    BY <1>9, <1>10
  <1>12. ASSUME NEW n \in 1..Len(ledger'), ledger'[n].who = InvestigationId
         PROVE  /\ ReceiptsUpTo(n)' <= Len(trace')
                     => Records(ledger'[n], trace'[ReceiptsUpTo(n)'])
                /\ Ahead' /\ ReceiptsUpTo(n)' = Len(trace') + 1 => Records(ledger'[n], Entry')
    <2>1. CASE n \in 1..l
      BY <1>4, <1>6, <1>7, <1>12, <2>1
    <2>2. CASE n = l + 1
      BY <1>3, <1>4, <1>5, <1>6, <2>2
    <2>. QED
      BY <1>4, <2>1, <2>2
  <1>. QED
    BY <1>4, <1>8, <1>11, <1>12 DEF Recorded, Records

LEMMA GatewayRun ==
    ASSUME Inv, RunInv, GatewayStep
    PROVE  RunInv'
  <1>0. /\ Phases /\ Calling /\ Traced /\ Transcribed /\ Reported /\ Recorded
        /\ Lineages
    BY DEF RunInv, Inv
  <1>1. /\ Calling' /\ Phases'
        /\ UNCHANGED <<runVars, attempts, call>> /\ pc \in {"binding", "call"}
        /\ ~RecordReceipt(InvestigationId) => UNCHANGED ledger /\ (Ahead' <=> Ahead)
        /\ UNCHANGED sourceVars
        /\ Ahead => UNCHANGED <<ledger, response, stage>>
    BY <1>0, GatewayCalling
  <1>2. /\ UNCHANGED <<pc, round, tokens, observed, trace, transcript, bound, report>>
    BY <1>1 DEF runVars
  <1>3. Traced'
    BY <1>0, <1>1, <1>2, SourcesGrow, TracedStays
  <1>4. Transcribed'
    BY <1>0, <1>1, <1>2, TranscribedStays
  <1>5. Reported'
    BY <1>0, <1>1, ReportedStays
  <1>6. Recorded'
    <2>1. CASE ~RecordReceipt(InvestigationId)
      BY <1>0, <1>1, <1>2, <2>1, RecordedStays DEF Ahead
    <2>2. CASE RecordReceipt(InvestigationId)
      <3>1. stage = "append" /\ UNCHANGED response /\ ~Ahead
        BY <2>2 DEF RecordReceipt, Ahead
      <3>2. pc = "call"
        BY <1>0, <1>1, <3>1 DEF Phases
      <3>3. Listed(trace)
        BY <1>0 DEF Traced
      <3>4. CASE Extend(Receipt(InvestigationId, call, response)) /\ stage' = "answered"
        BY <1>0, <1>1, <1>2, <3>1, <3>2, <3>3, <3>4, OwnReceipt DEF Extend
      <3>5. CASE stage' = "raised" /\ UNCHANGED ledger
        BY <1>0, <1>1, <1>2, <3>1, <3>2, <3>5, RecordedStays DEF Ahead
      <3>. QED
        BY <2>2, <3>4, <3>5 DEF RecordReceipt
    <2>. QED
      BY <2>1, <2>2
  <1>. QED
    BY <1>1, <1>3, <1>4, <1>5, <1>6 DEF RunInv

LEMMA SurroundingsRun ==
    ASSUME Inv, RunInv, Surroundings
    PROVE  RunInv'
  <1>0. /\ Phases /\ Calling /\ Traced /\ Transcribed /\ Reported /\ Recorded
        /\ Lineages
    BY DEF RunInv, Inv
  <1>1. /\ UNCHANGED <<runVars, attempts, call, stage, response>>
        /\ UNCHANGED sourceVars \/ \E a \in Artifacts : ReadUpstream(a) \/ Republish(a)
        /\ UNCHANGED ledger \/ \E request \in OtherRequests : OtherInvocation(request)
    BY DEF Surroundings, routerVars, sourceVars, ReadUpstream, Republish, OtherInvocation,
           OtherKilledWriting
  <1>2. /\ UNCHANGED <<pc, round, tokens, observed, trace, transcript, bound, report>>
    BY <1>1 DEF runVars
  <1>3. Traced'
    BY <1>0, <1>1, <1>2, SourcesGrow, TracedStays
  <1>4. Transcribed'
    BY <1>0, <1>1, <1>2, TranscribedStays
  <1>5. Reported'
    BY <1>0, <1>1, ReportedStays
  <1>6. Recorded'
    <2>1. CASE UNCHANGED ledger
      <3>1. CASE pc = "killed"
        BY <1>0, <1>2, <2>1, <3>1 DEF Recorded
      <3>2. CASE pc # "killed"
        BY <1>0, <1>1, <1>2, <2>1, <3>2, RecordedStays DEF Ahead
      <3>. QED
        BY <3>1, <3>2
    <2>2. ASSUME NEW request \in OtherRequests, OtherInvocation(request)
          PROVE  Recorded'
      <3>1. PICK r : ledger' = Append(ledger, r) /\ r.who = "another process"
        <4>1. PICK c, v : Extend(Receipt("another process", c, v))
          BY <2>2 DEF OtherInvocation
        <4>2. Receipt("another process", c, v).who = "another process"
          BY DEF Receipt
        <4>. QED
          BY <4>1, <4>2 DEF Extend
      <3>2. Listed(trace) /\ r.who # InvestigationId
        BY <1>0, <3>1 DEF Traced, InvestigationId
      <3>. QED
        BY <1>0, <1>1, <1>2, <3>1, <3>2, OthersReceipt
    <2>. QED
      BY <1>1, <2>1, <2>2
  <1>7. Phases' /\ Calling'
    BY <1>0, <1>1, <1>2 DEF Phases, Calling, Fits
  <1>. QED
    BY <1>3, <1>4, <1>5, <1>6, <1>7 DEF RunInv

-----------------------------------------------------------------------------
\* The run's own steps.

LEMMA NextCounts ==
    ASSUME NEW n \in Nat
    PROVE  /\ ProviderRound(n + 1)' = IF transcript'[n + 1].type = "provider_response"
                                      THEN ProviderRound(n)' + 1 ELSE ProviderRound(n)'
           /\ ResultsUpTo(n + 1)' = IF transcript'[n + 1].type = "tool_result"
                                    THEN ResultsUpTo(n)' + 1 ELSE ResultsUpTo(n)'
  <1>1. ASSUME NEW type
        PROVE  EventsUpTo(type, n + 1)' = IF transcript'[n + 1].type = type
                                          THEN EventsUpTo(type, n)' \cup {n + 1}
                                          ELSE EventsUpTo(type, n)'
    BY DEF EventsUpTo
  <1>2. ASSUME NEW type
        PROVE  Cardinality(EventsUpTo(type, n + 1)')
                 = IF transcript'[n + 1].type = type
                   THEN Cardinality(EventsUpTo(type, n)') + 1
                   ELSE Cardinality(EventsUpTo(type, n)')
    <2>1. PICK A : A = EventsUpTo(type, n)'
      OBVIOUS
    <2>2. A \subseteq 1..n
      BY <2>1 DEF EventsUpTo
    <2>3. Cardinality(A \cup {n + 1}) = Cardinality(A) + 1
      BY <2>2, UpToNext
    <2>. QED
      BY <1>1, <2>1, <2>3
  <1>. QED
    BY <1>2 DEF ProviderRound, ResultsUpTo

\* What was told stays told while the transcript and the trace grow.
LEMMA StillTold ==
    ASSUME Transcribed, pc # "accepted", NEW l \in Nat, l = Len(transcript), Len(trace) \in Nat,
           \A n \in 1..l : transcript'[n] = transcript[n],
           Len(trace') \in Nat, Len(trace) <= Len(trace'),
           \A i \in 1..Len(trace) : trace'[i] = trace[i],
           NEW n \in 1..l
    PROVE  Told(n)'
  <1>1. Told(n) /\ transcript'[n] = transcript[n]
    BY DEF Transcribed
  <1>2. ProviderRound(n)' = ProviderRound(n) /\ ResultsUpTo(n)' = ResultsUpTo(n)
    BY CountsStay
  <1>3. ASSUME transcript[n].type = "tool_result"
        PROVE  /\ ResultsUpTo(n) \in 1..Len(trace)
               /\ Reconstructs(n, trace)'
    <2>1. Reconstructs(n, trace)
      BY <1>1, <1>3 DEF Told, Decisions
    <2>2. ResultsUpTo(n) \in 1..Len(trace)
      BY <1>3, <2>1, CountsOfEvents DEF Reconstructs
    <2>3. trace'[ResultsUpTo(n)] = trace[ResultsUpTo(n)] /\ ResultsUpTo(n) <= Len(trace')
      BY <2>2
    <2>. QED
      BY <1>1, <1>2, <2>1, <2>2, <2>3 DEF Reconstructs
  <1>4. Paired(n) => Paired(n)'
    <2>1. n > 1 => transcript'[n - 1] = transcript[n - 1]
      OBVIOUS
    <2>. QED
      BY <1>1, <2>1 DEF Paired
  <1>5. transcript[n].type # "proposal_accepted"
    BY <1>1 DEF Told, Decisions
  <1>6. transcript[n].type = "tool_result" => trace'[ResultsUpTo(n)'] = trace[ResultsUpTo(n)]
    BY <1>2, <1>3
  <1>7. transcript[n].type = "tool_result" => transcript'[n].entry = trace'[ResultsUpTo(n)']
    BY <1>1, <1>6 DEF Told, Decisions
  <1>. QED
    BY <1>1, <1>2, <1>3, <1>4, <1>5, <1>7 DEF Told, Decisions

\* The provider has answered.
LEMMA Responding ==
    ASSUME Transcribed, pc = "ask", round \in Nat, Listed(trace), UNCHANGED trace,
           NEW l, l = Len(transcript),
           \E t, calls : /\ t = Append(transcript, Responded(calls))
                         /\ \A n \in 1..(l + 1) : transcript'[n] = t[n]
    PROVE  /\ l \in Nat
           /\ \A n \in 1..(l + 1) : Told(n)'
           /\ transcript'[l + 1].type = "provider_response"
           /\ ResultsUpTo(l + 1)' = Len(trace) /\ ProviderRound(l + 1)' = round
  <1>1. PICK t, calls : t = Append(transcript, Responded(calls))
                        /\ \A n \in 1..(l + 1) : transcript'[n] = t[n]
    OBVIOUS
  <1>2. /\ l \in Nat
        /\ t[l + 1] = Responded(calls)
        /\ \A n \in 1..l : t[n] = transcript[n]
    BY <1>1, Appended DEF Transcribed
  <1>3. /\ transcript'[l + 1] = Responded(calls)
        /\ \A n \in 1..l : transcript'[n] = transcript[n]
    BY <1>1, <1>2
  <1>4. Len(trace) \in Nat /\ Len(trace') = Len(trace)
    BY Appended
  <1>5. \A n \in 1..l : Told(n)'
    BY <1>2, <1>3, <1>4, StillTold
  <1>6. transcript'[l + 1].type = "provider_response"
    BY <1>3 DEF Responded
  <1>7. ProviderRound(l)' = ProviderRound(l) /\ ResultsUpTo(l)' = ResultsUpTo(l)
    BY <1>2, <1>3, CountsStay
  <1>8. /\ ProviderRound(l + 1)' = ProviderRound(l) + 1
        /\ ResultsUpTo(l + 1)' = ResultsUpTo(l)
    BY <1>2, <1>6, <1>7, NextCounts
  <1>9. ProviderRound(l) = round - 1 /\ ResultsUpTo(l) = Len(trace) /\ ProviderRound(l) \in Nat
    BY <1>2, CountsOfEvents DEF Transcribed
  <1>10. ProviderRound(l + 1)' = round
    <2>1. PICK p \in Nat : p = ProviderRound(l)
      BY <1>9
    <2>. QED
      BY <1>8, <1>9, <2>1
  <1>11. Told(l + 1)'
    BY <1>6 DEF Told, Decisions
  <1>12. \A n \in 1..(l + 1) : n = l + 1 \/ n \in 1..l
    BY <1>2
  <1>. QED
    BY <1>2, <1>5, <1>6, <1>8, <1>9, <1>10, <1>11, <1>12

LEMMA Asking ==
    ASSUME Inv, RunInv, pc = "ask", UNCHANGED <<trace, observed, bound, ledger, sourceVars>>,
           pc' \in {"ask", "call", "accepted", "failed"}, round' \in Nat,
           pc' = "call" => stage' # "answered"
    PROVE  Traced' /\ Phases' /\ Recorded'
  <1>0. /\ Traced /\ Phases /\ Recorded /\ Lineages
    BY DEF RunInv, Inv
  <1>1. Growing
    BY <1>0, SourcesGrow
  <1>2. Traced'
    BY <1>0, <1>1, TracedStays
  <1>3. Phases'
    BY DEF Phases, Ended
  <1>4. Recorded'
    BY <1>0, RecordedStays DEF Ahead
  <1>. QED
    BY <1>2, <1>3, <1>4

LEMMA NextRoundIs ==
    ASSUME round \in Nat, NextRound
    PROVE  round' \in Nat /\ pc' \in {"ask", "failed"} /\ (pc' = "ask" => round' = round + 1)
  BY InvestigationAssumption DEF NextRound, InvestigationAssumption

LEMMA EndingAsking ==
    ASSUME Inv, RunInv, NEW fault, RouteFails(fault) \/ Overspend
    PROVE  RunInv'
  <1>0. /\ Transcribed /\ Reported /\ Calling /\ Phases
    BY DEF RunInv
  <1>1. /\ pc = "ask" /\ pc' \in {"ask", "failed"} /\ round' = round
        /\ UNCHANGED <<trace, observed, bound, ledger, published, building, transcript, report>>
    BY DEF RouteFails, Overspend, Spend, gatewayVars
  <1>2. Traced' /\ Phases' /\ Recorded'
    BY <1>0, <1>1, Asking DEF Phases, sourceVars
  <1>3. Transcribed'
    BY <1>0, <1>1, TranscribedStays
  <1>. QED
    BY <1>1, <1>2, <1>3 DEF RunInv, Reported, Calling

LEMMA NudgeRun ==
    ASSUME Inv, RunInv, NEW calls, Nudge(calls)
    PROVE  RunInv'
  <1>0. /\ Transcribed /\ Phases /\ Traced /\ round \in Nat
    BY DEF RunInv, Phases
  <1>1. /\ pc = "ask" /\ NextRound /\ transcript' = Append(transcript, Responded(calls))
        /\ UNCHANGED <<trace, observed, bound, ledger, published, building, report>>
    BY DEF Nudge, Spend, gatewayVars
  <1>2. round' \in Nat /\ pc' \in {"ask", "failed"} /\ (pc' = "ask" => round' = round + 1)
    BY <1>0, <1>1, NextRoundIs
  <1>3. Traced' /\ Phases' /\ Recorded'
    BY <1>1, <1>2, Asking DEF sourceVars
  <1>4. PICK l : l = Len(transcript)
    OBVIOUS
  <1>5. Listed(transcript') /\ Len(transcript') = l + 1
    BY <1>0, <1>1, <1>4, Appended DEF Transcribed
  <1>6. Listed(trace)
    BY <1>0 DEF Traced
  <1>7. /\ l \in Nat
        /\ \A n \in 1..(l + 1) : Told(n)'
        /\ ResultsUpTo(l + 1)' = Len(trace) /\ ProviderRound(l + 1)' = round
    BY <1>0, <1>1, <1>4, <1>6, Responding
  <1>8. PICK m : m = Len(transcript')
    OBVIOUS
  <1>9. ResultsUpTo(m)' = Len(trace) /\ ProviderRound(m)' = round
    BY <1>5, <1>7, <1>8
  <1>10. ResultsUpTo(Len(transcript))' = Len(trace) /\ ProviderRound(Len(transcript))' = round
    BY <1>8, <1>9
  <1>11. \A n \in 1..Len(transcript') : Told(n)'
    BY <1>5, <1>7
  <1>12. Transcribed'
    BY <1>0, <1>1, <1>2, <1>5, <1>10, <1>11 DEF Transcribed
  <1>. QED
    BY <1>2, <1>3, <1>12 DEF RunInv, Reported, Calling

LEMMA CallRun ==
    ASSUME Inv, RunInv, NEW tool \in AllowedTools, NEW arguments \in Arguments,
           CallTool(tool, arguments)
    PROVE  RunInv'
  <1>0. /\ Transcribed /\ Phases /\ Traced /\ round \in Nat
    BY DEF RunInv, Phases
  <1>1. PICK c : c = ToolCall(round, tool, arguments)
    OBVIOUS
  <1>2. PICK calls : calls = <<[tool |-> tool, arguments |-> arguments]>>
    OBVIOUS
  <1>3. /\ pc = "ask" /\ transcript' = Append(transcript, Responded(calls))
        /\ UNCHANGED <<trace, observed, bound, report, round>>
        /\ \/ pc' = "failed" /\ UNCHANGED gatewayVars
           \/ pc' = "call" /\ Invoke(Role, c)
    BY <1>1, <1>2 DEF CallTool, Spend
  <1>4. /\ UNCHANGED <<ledger, published, building>>
    BY <1>3 DEF Invoke, gatewayVars, sourceVars
  <1>5. pc' = "call" =>
          /\ call' = c /\ stage' \in {"bind", "append", "raised"}
          /\ stage' = "bind" => Code(c) = "allowed"
          /\ stage' = "append" => Fits(c, response')
    BY <1>3 DEF Invoke, Bind, Reject, Answer, Code, Fits
  <1>6. Traced' /\ Phases' /\ Recorded'
    BY <1>0, <1>3, <1>4, <1>5, Asking DEF sourceVars
  <1>7. Calling'
    BY <1>1, <1>3, <1>5 DEF Calling, Reading
  <1>8. PICK l : l = Len(transcript)
    OBVIOUS
  <1>9. /\ Listed(transcript') /\ Len(transcript') = l + 1
        /\ transcript'[l + 1] = Responded(calls)
    BY <1>0, <1>3, <1>8, Appended DEF Transcribed
  <1>10. Listed(trace)
    BY <1>0 DEF Traced
  <1>11. /\ l \in Nat
         /\ \A n \in 1..(l + 1) : Told(n)'
         /\ ResultsUpTo(l + 1)' = Len(trace) /\ ProviderRound(l + 1)' = round
    BY <1>0, <1>3, <1>8, <1>10, Responding
  <1>12. PICK m : m = Len(transcript')
    OBVIOUS
  <1>13. ResultsUpTo(m)' = Len(trace) /\ ProviderRound(m)' = round
    BY <1>9, <1>11, <1>12
  <1>14. ResultsUpTo(Len(transcript))' = Len(trace) /\ ProviderRound(Len(transcript))' = round
    BY <1>12, <1>13
  <1>15. \A n \in 1..Len(transcript') : Told(n)'
    BY <1>9, <1>11
  <1>16. pc' = "call" =>
           /\ transcript' # <<>>
           /\ transcript'[Len(transcript')]
                = Responded(<<[tool |-> call'.tool, arguments |-> call'.arguments]>>)
    <2>1. c.tool = tool /\ c.arguments = arguments
      BY <1>1 DEF ToolCall
    <2>2. transcript' # <<>>
      BY <1>9, <1>11
    <2>. QED
      BY <1>2, <1>5, <1>9, <2>1, <2>2
  <1>17. Transcribed'
    BY <1>0, <1>3, <1>9, <1>14, <1>15, <1>16 DEF Transcribed, Responded
  <1>. QED
    BY <1>3, <1>6, <1>7, <1>17 DEF RunInv, Reported

\* A submission is answered at once: two events, or the end of the run.
LEMMA SubmitRun ==
    ASSUME Inv, RunInv, NEW p \in Proposals, Submit(p)
    PROVE  RunInv'
  <1>0. /\ Transcribed /\ Phases /\ Traced /\ round \in Nat
    BY DEF RunInv, Phases
  <1>1. PICK c : c = [tool |-> "submit", arguments |-> "fit"]
    OBVIOUS
  <1>2. PICK r : r = ReportOf(p, observed, bound, trace, attempts', tokens')
    OBVIOUS
  <1>3. PICK t : t = Append(transcript, Responded(<<c>>))
    OBVIOUS
  <1>4. /\ pc = "ask"
        /\ UNCHANGED <<trace, observed, bound, ledger, published, building>>
    BY DEF Submit, Spend, gatewayVars
  <1>5. PICK e : /\ transcript' = Append(t, e) /\ e.of = c
                 /\ \/ /\ e.type = "proposal_accepted" /\ e.report = r
                       /\ Accepted(r.verdict) /\ report' = r /\ pc' = "accepted" /\ UNCHANGED round
                    \/ e.type = "proposal_rejected" /\ NextRound /\ UNCHANGED report
    <2>1. \/ /\ Accepted(r.verdict) /\ report' = r /\ pc' = "accepted" /\ UNCHANGED round
             /\ transcript' = Append(t, [type |-> "proposal_accepted", of |-> c, report |-> r])
          \/ /\ NextRound /\ UNCHANGED report
             /\ transcript' =
                  Append(t, [type |-> "proposal_rejected", of |-> c, error |-> r.verdict])
      BY <1>1, <1>2, <1>3 DEF Submit
    <2>2. CASE transcript' = Append(t, [type |-> "proposal_accepted", of |-> c, report |-> r])
               /\ Accepted(r.verdict) /\ report' = r /\ pc' = "accepted" /\ UNCHANGED round
      <3>1. PICK e : e = [type |-> "proposal_accepted", of |-> c, report |-> r]
        OBVIOUS
      <3>2. e.type = "proposal_accepted" /\ e.of = c /\ e.report = r
        BY <3>1
      <3>. QED
        BY <2>2, <3>1, <3>2
    <2>3. CASE /\ NextRound /\ UNCHANGED report
               /\ transcript' =
                    Append(t, [type |-> "proposal_rejected", of |-> c, error |-> r.verdict])
      <3>1. PICK e : e = [type |-> "proposal_rejected", of |-> c, error |-> r.verdict]
        OBVIOUS
      <3>2. e.type = "proposal_rejected" /\ e.of = c
        BY <3>1
      <3>. QED
        BY <2>3, <3>1, <3>2
    <2>. QED
      BY <2>1, <2>2, <2>3
  <1>6. /\ round' \in Nat /\ pc' \in {"ask", "accepted", "failed"}
        /\ pc' = "ask" => round' = round + 1
    BY <1>0, <1>5, NextRoundIs
  <1>7. Traced' /\ Phases' /\ Recorded'
    BY <1>4, <1>6, Asking DEF sourceVars
  <1>8. PICK l : l = Len(transcript)
    OBVIOUS
  <1>9. /\ l \in Nat /\ Listed(t) /\ Len(t) = l + 1 /\ t[l + 1] = Responded(<<c>>)
    BY <1>0, <1>3, <1>8, Appended DEF Transcribed
  <1>10. /\ Listed(transcript') /\ Len(transcript') = l + 2
         /\ transcript'[l + 2] = e
         /\ \A n \in 1..(l + 1) : transcript'[n] = t[n]
    <2>1. /\ Listed(transcript') /\ Len(transcript') = (l + 1) + 1
          /\ transcript'[(l + 1) + 1] = e
          /\ \A n \in 1..(l + 1) : transcript'[n] = t[n]
      BY <1>5, <1>9, Appended
    <2>2. (l + 1) + 1 = l + 2
      BY <1>9
    <2>. QED
      BY <2>1, <2>2
  <1>11. Listed(trace)
    BY <1>0 DEF Traced
  <1>12. /\ \A n \in 1..(l + 1) : Told(n)'
         /\ ResultsUpTo(l + 1)' = Len(trace) /\ ProviderRound(l + 1)' = round
    BY <1>0, <1>3, <1>4, <1>8, <1>10, <1>11, Responding
  <1>13. /\ ResultsUpTo(l + 2)' = Len(trace)
         /\ ProviderRound(l + 2)' = round
    <2>1. PICK k \in Nat : k = l + 1
      BY <1>9
    <2>2. k + 1 = l + 2
      BY <1>9, <2>1
    <2>3. /\ transcript'[k + 1].type # "provider_response"
          /\ transcript'[k + 1].type # "tool_result"
      BY <1>5, <1>10, <2>2
    <2>4. ResultsUpTo(k + 1)' = ResultsUpTo(k)' /\ ProviderRound(k + 1)' = ProviderRound(k)'
      BY <2>3, NextCounts
    <2>. QED
      BY <1>12, <2>1, <2>2, <2>4
  <1>14. transcript'[l + 1] = Responded(<<c>>)
    BY <1>9, <1>10
  <1>15. Told(l + 2)'
    <2>1. Paired(l + 2)'
      <3>1. (l + 2) - 1 = l + 1 /\ l + 2 > 1
        BY <1>9
      <3>2. <<c>> \in Seq({c}) /\ Len(<<c>>) = 1 /\ Head(<<c>>) = c
        OBVIOUS
      <3>. QED
        BY <1>5, <1>10, <1>14, <3>1, <3>2 DEF Paired, Responded
    <2>2. c.tool = "submit"
      BY <1>1
    <2>3. e.type \in {"proposal_rejected", "proposal_accepted"}
      BY <1>5
    <2>4. e.type = "proposal_accepted" =>
            pc' = "accepted" /\ l + 2 = Len(transcript') /\ e.report = report'
      BY <1>5, <1>10
    <2>. QED
      BY <1>5, <1>10, <2>1, <2>2, <2>3, <2>4 DEF Told, Decisions
  <1>16. \A n \in 1..Len(transcript') : Told(n)'
    <2>1. \A n \in 1..Len(transcript') : n = l + 2 \/ n \in 1..(l + 1)
      BY <1>9, <1>10
    <2>. QED
      BY <1>12, <1>15, <2>1
  <1>17. PICK m : m = Len(transcript')
    OBVIOUS
  <1>18. ResultsUpTo(m)' = Len(trace) /\ ProviderRound(m)' = round
    BY <1>10, <1>13, <1>17
  <1>19. ResultsUpTo(Len(transcript))' = Len(trace) /\ ProviderRound(Len(transcript))' = round
    BY <1>17, <1>18
  <1>20. Transcribed'
    BY <1>0, <1>4, <1>6, <1>10, <1>16, <1>19 DEF Transcribed
  <1>21. Reported'
    <2>. SUFFICES ASSUME pc' = "accepted" PROVE Reported'
      BY DEF Reported
    <2>1. e.type = "proposal_accepted" /\ report' = r /\ Accepted(r.verdict)
      BY <1>0, <1>5, NextRoundIs
    <2>2. r.proposal = p
      BY <1>2 DEF ReportOf
    <2>3. transcript' # <<>> /\ transcript'[Len(transcript')].type = "proposal_accepted"
      BY <1>9, <1>10, <2>1
    <2>. QED
      BY <1>2, <1>4, <2>1, <2>2, <2>3 DEF Reported
  <1>22. Calling'
    BY <1>6 DEF Calling
  <1>. QED
    BY <1>7, <1>20, <1>21, <1>22 DEF RunInv

LEMMA LeavingRun ==
    ASSUME Inv, RunInv, pc \in {"binding", "call"}, pc' = "failed",
           UNCHANGED <<trace, observed, ledger, sourceVars, transcript, report, round>>,
           UNCHANGED bound \/ pc = "binding"
    PROVE  RunInv'
  <1>0. /\ Transcribed /\ Phases /\ Traced /\ Recorded /\ Lineages
    BY DEF RunInv, Inv
  <1>1. Growing
    BY <1>0, SourcesGrow
  <1>2. Traced'
    <2>1. CASE pc = "binding"
      BY <1>0, <2>1, UntracedRests DEF Phases
    <2>2. CASE UNCHANGED bound
      BY <1>0, <1>1, <2>2, TracedStays
    <2>. QED
      BY <2>1, <2>2
  <1>3. Transcribed'
    BY <1>0, TranscribedStays
  <1>4. Recorded'
    BY <1>0, RecordedStays
  <1>5. Phases'
    BY <1>0 DEF Phases, Ended
  <1>. QED
    BY <1>2, <1>3, <1>4, <1>5 DEF RunInv, Reported, Calling

\* An entry says what its call was answered.
LEMMA EntryIs ==
    ASSUME Inv, Calling, pc = "call", stage = "answered", SameLineage, NEW e, e = Entry
    PROVE  /\ Rests(e, bound)
           /\ e.id = call.id /\ e.tool = call.tool /\ e.arguments = Normalized(call)
           /\ IF e.status = "success"
              THEN Code(call) = "allowed" /\ e.code = "none"
              ELSE e.code = IF Code(call) = "allowed" THEN "request_rejected" ELSE Code(call)
           /\ e.status = response.status /\ e.refs = response.refs
           /\ e.status = "success" => Hashes(bound) /\ Len(bound) = N /\ OneCut(bound)
  <1>1. Fits(call, response)
    BY DEF Calling
  <1>2. /\ e.id = call.id /\ e.tool = call.tool /\ e.arguments = Normalized(call)
        /\ e.status = response.status /\ e.refs = response.refs /\ e.code = response.code
        /\ e.result = response.result
    BY DEF Entry
  <1>3. CASE response.status = "success"
    <2>1. /\ Code(call) = "allowed" /\ response.code = "none"
          /\ response.refs = Refs(call.tool, response.result)
      BY <1>1, <1>3, RefusalIs DEF Fits
    <2>2. /\ Hashes(response.sources) /\ Len(response.sources) = N
          /\ response.result = response.sources /\ OneCut(response.sources)
      BY <1>3 DEF Inv, Answered
    <2>3. response.sources = bound
      BY <1>3 DEF SameLineage
    <2>4. call.arguments = "fit"
      BY <2>1 DEF Code, Authorize
    <2>5. e.arguments # "none"
      BY <1>2, <2>1, <2>4 DEF Normalized, Code
    <2>. QED
      BY <1>2, <1>3, <2>1, <2>2, <2>3, <2>5 DEF Rests
  <1>4. CASE response.status # "success"
    <2>1. PICK code : code = IF Code(call) = "allowed" THEN "request_rejected" ELSE Code(call)
      OBVIOUS
    <2>2. response = Refusal(code)
      BY <1>1, <1>4, <2>1 DEF Fits
    <2>3. /\ response.status = "error" /\ response.code = code
          /\ response.result = <<>> /\ response.refs = {}
      BY <2>2, RefusalIs
    <2>4. Code(call) # "allowed" => e.arguments = "none"
      BY <1>2 DEF Normalized, Code
    <2>. QED
      BY <1>2, <2>1, <2>3, <2>4 DEF Rests
  <1>. QED
    BY <1>3, <1>4

LEMMA TakeRun ==
    ASSUME Inv, RunInv, TakeResult, SameLineage
    PROVE  RunInv'
  <1>0. /\ Transcribed /\ Phases /\ Traced /\ Recorded /\ Calling /\ round \in Nat /\ Lineages
    BY DEF RunInv, Phases, Inv
  <1>1. PICK e : e = Entry
    OBVIOUS
  <1>2. PICK c : c = [tool |-> call.tool, arguments |-> call.arguments]
    OBVIOUS
  <1>3. PICK v : v = [type |-> "tool_result", of |-> c, entry |-> e]
    OBVIOUS
  <1>4. /\ pc = "call" /\ stage = "answered" /\ stage' = "idle"
        /\ UNCHANGED <<bound, report, published, building, call, response, ledger>>
    BY DEF TakeResult, sourceVars
  <1>5. /\ Observe /\ trace' = Append(trace, e) /\ NextRound
        /\ transcript' = Append(transcript, v)
    BY <1>1, <1>2, <1>3 DEF TakeResult
  <1>6. round' \in Nat /\ pc' \in {"ask", "failed"} /\ (pc' = "ask" => round' = round + 1)
    BY <1>0, <1>5, NextRoundIs
  <1>7. /\ Rests(e, bound)
        /\ e.id = call.id /\ e.tool = call.tool /\ e.arguments = Normalized(call)
        /\ IF e.status = "success"
           THEN Code(call) = "allowed" /\ e.code = "none"
           ELSE e.code = IF Code(call) = "allowed" THEN "request_rejected" ELSE Code(call)
        /\ e.status = response.status /\ e.refs = response.refs
        /\ e.status = "success" => Hashes(bound) /\ Len(bound) = N /\ OneCut(bound)
    BY <1>0, <1>1, <1>4, EntryIs
  <1>8. PICK k : k = Len(trace)
    OBVIOUS
  <1>9. /\ k \in Nat /\ Listed(trace') /\ Len(trace') = k + 1 /\ trace'[k + 1] = e
        /\ \A i \in 1..k : trace'[i] = trace[i]
    BY <1>0, <1>5, <1>8, Appended DEF Traced
  <1>10. PICK l : l = Len(transcript)
    OBVIOUS
  <1>11. /\ l \in Nat /\ Listed(transcript') /\ Len(transcript') = l + 1 /\ transcript'[l + 1] = v
         /\ \A n \in 1..l : transcript'[n] = transcript[n]
    BY <1>0, <1>5, <1>10, Appended DEF Transcribed
  <1>12. v.type = "tool_result" /\ v.of = c /\ v.entry = e
    BY <1>3
  <1>13. Traced'
    <2>1. \A i \in 1..(k + 1) : i = k + 1 \/ i \in 1..k
      BY <1>9
    <2>2. \A i \in 1..Len(trace') : Rests(trace'[i], bound')
      BY <1>0, <1>4, <1>7, <1>8, <1>9, <2>1 DEF Traced
    <2>3. Succeeded(trace') = IF e.status = "success" THEN Succeeded(trace) \cup {k + 1}
                                                      ELSE Succeeded(trace)
      BY <1>8, <1>9, <2>1 DEF Succeeded
    <2>4. observed' = UNION {trace'[i].refs : i \in Succeeded(trace')}
      <3>1. observed' = IF e.status = "success" THEN observed \cup e.refs ELSE observed
        BY <1>5, <1>7 DEF Observe
      <3>2. observed = UNION {trace[i].refs : i \in Succeeded(trace)}
        BY <1>0 DEF Traced
      <3>3. \A i \in Succeeded(trace) : trace'[i] = trace[i]
        BY <1>8, <1>9 DEF Succeeded
      <3>4. ASSUME NEW x
            PROVE  x \in observed' <=> \E i \in Succeeded(trace') : x \in trace'[i].refs
        BY <1>9, <2>3, <3>1, <3>2, <3>3
      <3>. QED
        BY <3>4
    <2>5. Succeeded(trace') # {} => Hashes(bound) /\ Len(bound) = N /\ OneCut(bound)
      BY <1>0, <1>7, <2>3 DEF Traced
    <2>6. Succeeded(trace') # {} => (Hashes(bound) /\ Len(bound) = N /\ OneCut(bound))'
      BY <1>4, <2>5 DEF Hashes, OneCut, Version
    <2>. QED
      BY <1>9, <2>2, <2>4, <2>6 DEF Traced
  <1>14. \A n \in 1..l : Told(n)'
    BY <1>0, <1>4, <1>8, <1>9, <1>10, <1>11, StillTold
  <1>15. /\ ResultsUpTo(l) = k /\ ProviderRound(l) = round
         /\ transcript # <<>> /\ transcript[l] = Responded(<<c>>)
    BY <1>0, <1>2, <1>4, <1>8, <1>10 DEF Transcribed
  <1>16. l > 0
    <2>1. l # 0
      <3>1. PICK S : transcript \in Seq(S)
        BY <1>0 DEF Transcribed, Listed
      <3>. QED
        BY <1>10, <1>15, <3>1
    <2>. QED
      BY <1>11, <2>1
  <1>17. ResultsUpTo(l + 1)' = k + 1 /\ ProviderRound(l + 1)' = round
    <2>1. ResultsUpTo(l)' = ResultsUpTo(l) /\ ProviderRound(l)' = ProviderRound(l)
      BY <1>11, CountsStay
    <2>2. /\ ProviderRound(l + 1)' = ProviderRound(l)'
          /\ ResultsUpTo(l + 1)' = ResultsUpTo(l)' + 1
      BY <1>11, <1>12, NextCounts
    <2>. QED
      BY <1>15, <2>1, <2>2
  <1>18. Told(l + 1)'
    <2>1. Paired(l + 1)'
      <3>1. (l + 1) - 1 = l /\ l + 1 > 1
        BY <1>11, <1>16
      <3>2. Len(<<c>>) = 1 /\ Head(<<c>>) = c
        OBVIOUS
      <3>3. transcript'[l] = Responded(<<c>>)
        BY <1>11, <1>15, <1>16
      <3>. QED
        BY <1>11, <1>12, <3>1, <3>2, <3>3 DEF Paired, Responded
    <2>2. Reconstructs(l + 1, trace)'
      <3>1. PICK tool \in AllowedTools, arguments \in Arguments :
                 call = ToolCall(round, tool, arguments)
        BY <1>0, <1>4 DEF Calling
      <3>2. call = ToolCall(round, call.tool, call.arguments)
        BY <3>1 DEF ToolCall
      <3>3. call = ToolCall(round, v.of.tool, v.of.arguments)
        BY <1>2, <1>12, <3>2
      <3>4. trace'[k + 1] = e /\ k + 1 <= Len(trace')
        BY <1>9
      <3>. QED
        BY <1>7, <1>11, <1>17, <3>3, <3>4 DEF Reconstructs, Code
    <2>. QED
      BY <1>9, <1>11, <1>12, <1>17, <2>1, <2>2 DEF Told, Decisions
  <1>19. \A n \in 1..Len(transcript') : Told(n)'
    <2>1. \A n \in 1..Len(transcript') : n = l + 1 \/ n \in 1..l
      BY <1>11
    <2>. QED
      BY <1>14, <1>18, <2>1
  <1>20. PICK m : m = Len(transcript')
    OBVIOUS
  <1>21. ResultsUpTo(m)' = k + 1 /\ ProviderRound(m)' = round
    BY <1>11, <1>17, <1>20
  <1>22. ResultsUpTo(Len(transcript))' = Len(trace') /\ ProviderRound(Len(transcript))' = round
    BY <1>9, <1>20, <1>21
  <1>23. Transcribed'
    BY <1>0, <1>6, <1>11, <1>19, <1>22 DEF Transcribed
  <1>24. Recorded'
    <2>1. \A n : ReceiptsUpTo(n)' = ReceiptsUpTo(n)
      BY <1>4 DEF ReceiptsUpTo
    <2>2. Ahead /\ ~Ahead'
      BY <1>4 DEF Ahead
    <2>3. ReceiptsUpTo(Len(ledger)) = k + 1
      BY <1>0, <1>4, <1>8, <2>2 DEF Recorded
    <2>4. PICK w : w = Len(ledger')
      OBVIOUS
    <2>5. ReceiptsUpTo(w)' = k + 1
      BY <1>4, <2>1, <2>3, <2>4
    <2>6. ReceiptsUpTo(Len(ledger))' = Len(trace')
      BY <1>9, <2>4, <2>5
    <2>7. ASSUME NEW n \in 1..Len(ledger'), ledger'[n].who = InvestigationId
          PROVE  ReceiptsUpTo(n)' <= Len(trace') => Records(ledger'[n], trace'[ReceiptsUpTo(n)'])
      <3>1. n \in Nat /\ n > 0
        <4>1. Len(ledger) \in Nat
          BY <1>0, Appended DEF Recorded
        <4>. QED
          BY <1>4, <2>7, <4>1
      <3>2. ReceiptsUpTo(n) \in Nat /\ ReceiptsUpTo(n) >= 1
        BY <1>4, <2>7, <3>1, CountsOfReceipts
      <3>3. /\ ReceiptsUpTo(n) <= k => Records(ledger[n], trace[ReceiptsUpTo(n)])
            /\ ReceiptsUpTo(n) = k + 1 => Records(ledger[n], e)
        BY <1>0, <1>1, <1>4, <1>8, <2>2, <2>7 DEF Recorded
      <3>4. PICK q \in Nat : q = ReceiptsUpTo(n) /\ q >= 1
        BY <3>2
      <3>5. CASE q <= k
        BY <1>4, <1>9, <2>1, <3>3, <3>4, <3>5
      <3>6. CASE q = k + 1
        BY <1>4, <1>9, <2>1, <3>3, <3>4, <3>6
      <3>. QED
        BY <1>9, <2>1, <3>4, <3>5, <3>6
    <2>. QED
      BY <1>0, <1>4, <2>2, <2>6, <2>7 DEF Recorded, Records
  <1>25. Phases'
    BY <1>6 DEF Phases, Ended
  <1>. QED
    BY <1>6, <1>13, <1>23, <1>24, <1>25 DEF RunInv, Reported, Calling

LEMMA RunInvInit == Init => RunInv
  <1>. SUFFICES ASSUME Init PROVE RunInv
    OBVIOUS
  <1>1. /\ pc = "begin" /\ round = 1 /\ trace = <<>> /\ observed = {} /\ transcript = <<>>
        /\ ledger = <<>>
    BY DEF Init, GatewayInit
  <1>2. Phases /\ Calling /\ Reported
    BY <1>1 DEF Phases, Calling, Reported
  <1>3. Traced
    <2>1. Succeeded(trace) = {} /\ Len(trace) = 0
      BY <1>1 DEF Succeeded
    <2>. QED
      BY <1>1, <2>1, EmptyIsListed DEF Traced
  <1>4. Transcribed
    BY <1>1, NoEvents, EmptyIsListed DEF Transcribed
  <1>5. Recorded
    BY <1>1, NoEvents, EmptyIsListed DEF Recorded, Ahead
  <1>. QED
    BY <1>2, <1>3, <1>4, <1>5 DEF RunInv

LEMMA BindingRun ==
    ASSUME Inv, RunInv, BindRun
    PROVE  RunInv'
  <1>0. /\ Phases /\ Recorded
    BY DEF RunInv
  <1>1. /\ pc = "begin" /\ pc' = "binding" /\ call' = NoCall /\ stage' = "bind"
        /\ UNCHANGED <<round, observed, trace, transcript, ledger>>
    BY DEF BindRun, Bind
  <1>2. round = 1 /\ trace = <<>> /\ observed = {} /\ transcript = <<>>
    BY <1>0, <1>1 DEF Phases
  <1>3. Phases' /\ Calling' /\ Reported'
    BY <1>1, <1>2 DEF Phases, Calling, Reported
  <1>4. Traced' /\ Transcribed'
    BY <1>1, <1>2, UntracedRests, Untold
  <1>5. Recorded'
    BY <1>0, <1>1, RecordedStays DEF Ahead
  <1>. QED
    BY <1>3, <1>4, <1>5 DEF RunInv

LEMMA BoundRun ==
    ASSUME Inv, RunInv, RunBound
    PROVE  RunInv'
  <1>0. /\ Phases /\ Recorded
    BY DEF RunInv
  <1>1. /\ pc = "binding" /\ pc' \in {"ask", "failed"}
        /\ UNCHANGED <<round, observed, trace, transcript, ledger, report, published, building>>
    BY DEF RunBound, sourceVars
  <1>2. CASE pc' = "failed"
    BY <1>1, <1>2, LeavingRun DEF sourceVars
  <1>3. CASE pc' = "ask"
    <2>1. round = 1 /\ trace = <<>> /\ observed = {} /\ transcript = <<>>
      BY <1>0, <1>1 DEF Phases
    <2>2. Phases' /\ Calling' /\ Reported'
      BY <1>1, <1>3, <2>1 DEF Phases, Calling, Reported
    <2>3. Traced' /\ Transcribed'
      BY <1>1, <1>3, <2>1, UntracedRests, Untold
    <2>4. Recorded'
      <3>1. ~Ahead /\ ~Ahead'
        BY <1>1, <1>3 DEF Ahead
      <3>2. \A n : ReceiptsUpTo(n)' = ReceiptsUpTo(n)
        BY <1>1 DEF ReceiptsUpTo
      <3>. QED
        BY <1>0, <1>1, <1>3, <3>1, <3>2 DEF Recorded, Records
    <2>. QED
      BY <2>2, <2>3, <2>4 DEF RunInv
  <1>. QED
    BY <1>1, <1>2, <1>3

LEMMA KilledRun ==
    ASSUME Inv, RunInv, RunKilled
    PROVE  RunInv'
  <1>1. /\ pc' = "killed" /\ round' = 1 /\ observed' = {} /\ trace' = <<>> /\ transcript' = <<>>
        /\ UNCHANGED ledger
    BY DEF RunKilled, Killed
  <1>2. Phases' /\ Calling' /\ Reported'
    BY <1>1 DEF Phases, Calling, Reported, Ended
  <1>3. Traced' /\ Transcribed'
    BY <1>1, UntracedRests, Untold
  <1>4. Recorded'
    BY <1>1 DEF RunInv, Recorded
  <1>. QED
    BY <1>2, <1>3, <1>4 DEF RunInv

LEMMA StutterRun ==
    ASSUME Inv, RunInv, UNCHANGED vars
    PROVE  RunInv'
  <1>0. /\ Phases /\ Calling /\ Traced /\ Transcribed /\ Reported /\ Recorded /\ Lineages
    BY DEF RunInv, Inv
  <1>1. /\ UNCHANGED <<pc, round, trace, observed, bound, transcript, ledger, report>>
        /\ UNCHANGED <<call, stage, response, sourceVars, attempts, runVars>>
    BY DEF vars, gatewayVars, runVars, routerVars, sourceVars
  <1>2. Traced'
    BY <1>0, <1>1, SourcesGrow, TracedStays
  <1>3. Transcribed' /\ Reported'
    BY <1>0, <1>1, TranscribedStays, ReportedStays
  <1>4. Recorded'
    <2>1. CASE pc = "killed"
      BY <1>0, <1>1, <2>1 DEF Recorded
    <2>2. CASE pc # "killed"
      BY <1>0, <1>1, <2>2, RecordedStays DEF Ahead
    <2>. QED
      BY <2>1, <2>2
  <1>5. Phases' /\ Calling'
    BY <1>0, <1>1 DEF Phases, Calling, Fits
  <1>. QED
    BY <1>2, <1>3, <1>4, <1>5 DEF RunInv

LEMMA RunStepInv == Inv /\ RunInv /\ [Next]_vars => RunInv'
  <1>. SUFFICES ASSUME Inv, RunInv, [Next]_vars PROVE RunInv'
    OBVIOUS
  <1>1. CASE BindRun
    BY <1>1, BindingRun
  <1>2. CASE RunBound
    BY <1>2, BoundRun
  <1>3. CASE GatewayStep
    BY <1>3, GatewayRun
  <1>4. CASE TakeResult
    <2>1. CASE SameLineage
      BY <1>4, <2>1, TakeRun
    <2>2. CASE ~SameLineage
      BY <1>4, <2>2, LeavingRun DEF TakeResult
    <2>. QED
      BY <2>1, <2>2
  <1>5. CASE InvokeRaised
    BY <1>5, LeavingRun DEF InvokeRaised, gatewayVars, sourceVars
  <1>6. ASSUME NEW fault \in ProviderFaults, RouteFails(fault)
        PROVE  RunInv'
    BY <1>6, EndingAsking
  <1>7. CASE Overspend
    BY <1>7, EndingAsking
  <1>8. ASSUME NEW calls \in Unusable, Nudge(calls)
        PROVE  RunInv'
    BY <1>8, NudgeRun
  <1>9. ASSUME NEW p \in Proposals, Submit(p)
        PROVE  RunInv'
    BY <1>9, SubmitRun
  <1>10. ASSUME NEW tool \in AllowedTools, NEW arguments \in Arguments, CallTool(tool, arguments)
         PROVE  RunInv'
    BY <1>10, CallRun
  <1>11. CASE RunKilled
    BY <1>11, KilledRun
  <1>12. CASE Surroundings
    BY <1>12, SurroundingsRun
  <1>13. CASE UNCHANGED vars
    BY <1>13, StutterRun
  <1>. QED
    BY <1>1, <1>2, <1>3, <1>4, <1>5, <1>6, <1>7, <1>8, <1>9, <1>10, <1>11, <1>12, <1>13
    DEF Next, Run

\* Whatever its sources, its provider and the other writers of its ledger do,
\* a run stays within these two invariants.
THEOREM RunInvariance == Spec => [](Inv /\ RunInv)
  <1>1. Init => Inv /\ RunInv
    BY InvInit, RunInvInit
  <1>2. Inv /\ RunInv /\ [Next]_vars => (Inv /\ RunInv)'
    BY NextStep, RunStepInv
  <1>. QED
    BY <1>1, <1>2, PTL DEF Spec

\* An investigation goes on with a call only when its receipt is in the ledger.
THEOREM CallsAreRecorded == Spec => []EveryCallIsRecorded
  <1>1. Inv /\ RunInv => EveryCallIsRecorded
    <2>1. RunInv => Recorded /\ Listed(ledger)
      BY DEF RunInv, Recorded
    <2>2. Listed(ledger) => DOMAIN ledger = 1..Len(ledger)
      BY DEF Listed
    <2>. QED
      BY <2>1, <2>2 DEF Recorded, EveryCallIsRecorded
  <1>. QED
    BY <1>1, RunInvariance, PTL

\* The independent reader finds nothing to object to in what an accepted run exports.
LEMMA ReportsValidate == Inv /\ RunInv => AcceptedValidates
  <1>. SUFFICES ASSUME Inv, RunInv, pc = "accepted" PROVE ValidationIssues(report) = {}
    BY DEF AcceptedValidates
  <1>0. Transcribed /\ Reported /\ Listed(transcript)
    BY DEF RunInv, Transcribed
  <1>1. /\ report.proposal \in Proposals
        /\ report = ReportOf(report.proposal, observed, bound, trace, attempts, tokens)
        /\ transcript # <<>> /\ transcript[Len(transcript)].type = "proposal_accepted"
    BY <1>0 DEF Reported
  <1>2. report.observed = observed /\ report.sources = bound /\ report.trace = trace
        /\ report.attempts = attempts /\ report.tokens = tokens
    BY <1>1 DEF ReportOf
  <1>3. ReportReconstructs(report)
    BY <1>1, <1>2 DEF ReportReconstructs
  <1>4. PICK l : l = Len(transcript)
    OBVIOUS
  <1>5. l \in Nat /\ l > 0 /\ DOMAIN transcript = 1..l
    <2>1. PICK S : transcript \in Seq(S)
      BY <1>0 DEF Listed
    <2>. QED
      BY <1>1, <1>4, <2>1
  <1>6. \A n \in 1..l : Told(n)
    BY <1>0, <1>4 DEF Transcribed
  <1>7. TracesAgree(report)
    <2>1. ResultsUpTo(Len(transcript)) = Len(report.trace)
      BY <1>0, <1>2 DEF Transcribed
    <2>2. \A n \in EventsUpTo("tool_result", l) : transcript[n].entry = report.trace[ResultsUpTo(n)]
      BY <1>2, <1>6 DEF EventsUpTo, Told, Decisions
    <2>. QED
      BY <1>4, <2>1, <2>2 DEF TracesAgree
  <1>8. AcceptedOnce(report)
    <2>1. EventsUpTo("proposal_accepted", l) = {l}
      BY <1>1, <1>4, <1>5, <1>6 DEF EventsUpTo, Told, Decisions
    <2>2. transcript[l].report = report
      BY <1>1, <1>4, <1>5, <1>6 DEF Told, Decisions
    <2>. QED
      BY <1>4, <1>5, <2>1, <2>2 DEF AcceptedOnce
  <1>9. SemanticIssues(report) = {}
    <2>1. {n \in 1..l : transcript[n].type # "provider_response" /\ ~Paired(n)} = {}
      BY <1>6 DEF Told, Decisions
    <2>2. {n \in EventsUpTo("tool_result", l) : ~Reconstructs(n, report.trace)} = {}
      BY <1>2, <1>6 DEF EventsUpTo, Told, Decisions
    <2>3. {n \in EventsUpTo("proposal_rejected", l) \cup EventsUpTo("proposal_accepted", l) :
             transcript[n].of.tool # "submit"} = {}
      BY <1>6 DEF EventsUpTo, Told, Decisions
    <2>4. {k \in {ResultsUpTo(l)} : k # Len(report.trace)} = {}
      BY <1>4, <1>7 DEF TracesAgree
    <2>. QED
      BY <1>4, <2>1, <2>2, <2>3, <2>4 DEF SemanticIssues
  <1>. QED
    BY <1>3, <1>7, <1>8, <1>9 DEF ValidationIssues

THEOREM AcceptedReportsValidate == Spec => []AcceptedValidates
  BY ReportsValidate, RunInvariance, PTL

\* What one lineage is read from still stands: the reader can bind it.
LEMMA CutsBind ==
    ASSUME Inv, OneCut(CurrentHashes)
    PROVE  Bindable
  <1>. SUFFICES ASSUME NEW a \in Artifacts PROVE Validates(a)
    BY DEF Bindable
  <1>1. PICK i \in 1..N : Sources[i] = a
    BY GatewayAssumption DEF Artifacts, Range, N, GatewayAssumption
  <1>2. published[a][Version(a)] \in Build(a)
    BY DEF Inv, Lineages, Version
  <1>3. ASSUME NEW u \in UpstreamOf[a]
        PROVE  published[a][Version(a)][u] = Version(u)
    <2>1. PICK j \in 1..N : Sources[j] = u
      BY GatewayAssumption, <1>3 DEF Artifacts, Range, N, GatewayAssumption
    <2>2. CurrentHashes[i] = Version(a) /\ CurrentHashes[j] = Version(u)
      BY <1>1, <2>1, SourcesAre DEF CurrentHashes
    <2>. QED
      BY <1>1, <2>1, <2>2, SourcesAre DEF OneCut
  <1>. QED
    BY <1>2, <1>3 DEF Validates, VersionsOf, Build

\* An accepted report rests on one lineage, and its calls replay over it.
LEMMA ReportsReplay == Inv /\ RunInv => AcceptedReplays
  <1>. SUFFICES ASSUME Inv, RunInv, pc = "accepted"
                PROVE  /\ OneCut(report.sources)
                       /\ \A i \in Successes(report) : Replays(report.trace[i], report.sources)
                       /\ report.observed = UNION {Replayed(report.trace[i], report.sources).refs :
                                                     i \in Successes(report)}
                       /\ CurrentHashes = report.sources =>
                            \/ AuthoritativeReplay(report) = "replayed"
                            \/ \E i \in DOMAIN report.trace :
                                 report.trace[i].code = "request_rejected"
    BY DEF AcceptedReplays
  <1>0. Traced /\ Reported /\ Listed(trace)
    BY DEF RunInv, Traced
  <1>1. PICK p \in Proposals : p = report.proposal
    BY <1>0 DEF Reported
  <1>2. /\ report = ReportOf(p, observed, bound, trace, attempts, tokens)
        /\ Accepted(report.verdict)
    BY <1>0, <1>1 DEF Reported
  <1>3. report.observed = observed /\ report.sources = bound /\ report.trace = trace
        /\ report.verdict = ScoreProposal(p, observed)
    BY <1>2 DEF ReportOf
  <1>4. DOMAIN trace = 1..Len(trace) /\ Successes(report) = Succeeded(trace)
    <2>1. DOMAIN trace = 1..Len(trace)
      BY <1>0 DEF Listed
    <2>. QED
      BY <1>3, <2>1 DEF Successes, Succeeded
  <1>5. Succeeded(trace) # {}
    <2>1. p.cites \subseteq observed
      BY <1>2, <1>3 DEF Accepted, ScoreProposal
    <2>2. p.cites # {}
      BY InvestigationAssumption DEF InvestigationAssumption
    <2>. QED
      BY <1>0, <2>1, <2>2 DEF Traced
  <1>6. OneCut(bound)
    BY <1>0, <1>5 DEF Traced
  <1>7. \A i \in Succeeded(trace) :
          Replays(trace[i], bound) /\ Replayed(trace[i], bound).refs = trace[i].refs
    <2>. SUFFICES ASSUME NEW i \in Succeeded(trace)
                  PROVE  Replays(trace[i], bound) /\ Replayed(trace[i], bound).refs = trace[i].refs
      OBVIOUS
    <2>1. PICK e : e = trace[i]
      OBVIOUS
    <2>2. /\ e.status = "success" /\ e.code = "none" /\ e.arguments # "none"
          /\ e.result = bound /\ e.refs = Refs(e.tool, bound)
      BY <1>0, <2>1 DEF Traced, Succeeded, Rests
    <2>. QED
      BY <2>1, <2>2 DEF Replays, Outcome, Replayed
  <1>8. observed = UNION {Replayed(trace[i], bound).refs : i \in Succeeded(trace)}
    <2>1. observed = UNION {trace[i].refs : i \in Succeeded(trace)}
      BY <1>0 DEF Traced
    <2>. QED
      BY <1>7, <2>1
  <1>9. ASSUME CurrentHashes = bound,
               \A i \in 1..Len(trace) : trace[i].code # "request_rejected"
        PROVE  AuthoritativeReplay(report) = "replayed"
    <2>1. BoundTo(report)
      BY <1>3, <1>6, <1>9, CutsBind DEF BoundTo
    <2>2. ValidationIssues(report) = {}
      BY ReportsValidate DEF AcceptedValidates
    <2>3. \A i \in 1..Len(trace) : Replays(trace[i], bound)
      <3>. SUFFICES ASSUME NEW i \in 1..Len(trace) PROVE Replays(trace[i], bound)
        OBVIOUS
      <3>1. CASE i \in Succeeded(trace)
        BY <1>7, <3>1
      <3>2. CASE i \notin Succeeded(trace)
        <4>1. PICK e : e = trace[i]
          OBVIOUS
        <4>2. /\ e.status = "error" /\ e.result = <<>> /\ e.refs = {}
              /\ e.arguments = "none"
          BY <1>0, <1>9, <3>2, <4>1 DEF Traced, Succeeded, Rests
        <4>. QED
          BY <4>1, <4>2 DEF Replays, Outcome, Replayed
      <3>. QED
        BY <3>1, <3>2
    <2>. QED
      BY <1>3, <1>4, <1>8, <1>9, <2>1, <2>2, <2>3 DEF AuthoritativeReplay
  <1>. QED
    BY <1>3, <1>4, <1>6, <1>7, <1>8, <1>9

THEOREM AcceptedReportsReplay == Spec => []AcceptedReplays
  BY ReportsReplay, RunInvariance, PTL
=============================================================================
