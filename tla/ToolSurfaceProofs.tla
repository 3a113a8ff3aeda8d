-------------------------- MODULE ToolSurfaceProofs --------------------------
(***************************************************************************)
(* Theorems about the refresh, the examples, the allowlist and the tools   *)
(* that are served, for every set of tools, every sequence of releases and *)
(* every allowlist of the form ToolSurface describes.                      *)
(***************************************************************************)
EXTENDS ToolSurface, SequenceLemmas

(* The shape of the state. *)

Entry(n) ==
  [mutates : BOOLEAN, examples : {NoExamples} \cup [of : Tool, set : 1..n]]
Registries(n) == UNION {[tools -> Entry(n)] : tools \in SUBSET Tool}

SequentialJob(n) ==
  [script : {"sequential"}, queue : Seq(Tool), existing : Registries(n - 1),
   reuse : BOOLEAN, done : Nat, enriched : Registries(n)]
BatchJob(n) ==
  [script : {"batch"}, stage : {"split", "polling", "completed"},
   existing : Registries(n - 1)]
RefreshJob == {[script |-> "refresh"], [script |-> "reconcile"]}

TypeInv ==
  /\ sdk \in Release
  /\ generated \in Nat \ {0}
  /\ flat \in {Torn} \cup {Whole(Registry(release)) : release \in Release}
  /\ merged \in [whole : BOOLEAN, tools : Registries(generated)]
  /\ allowlist \in Seq(Line)
  /\ job \in {NoJob} \cup RefreshJob \cup SequentialJob(generated) \cup BatchJob(generated)
  /\ job # NoJob => flat.whole
  /\ DOMAIN server \subseteq Tool
  /\ consent \subseteq Tool

\* ExamplesBelongToOneTool, of any registry.
Own(tools) ==
  \A t \in DOMAIN tools : HasExamples(tools, t) =>
    /\ Renamed(tools[t].examples.of, t)
    /\ \A u \in DOMAIN tools : tools[u].examples = tools[t].examples => u = t

\* What example run n makes of the flat registry and the examples that it found.
EntryFromRun(entry, t, fresh, existing, n) ==
  /\ t \in DOMAIN fresh
  /\ entry.mutates = fresh[t]
  /\ \/ entry.examples = NoExamples
     \/ entry.examples = ExamplesFor(t, n)
     \/ HasExamples(existing, t) /\ entry.examples = existing[t].examples

FromRun(tools, fresh, existing, n) ==
  \A t \in DOMAIN tools : EntryFromRun(tools[t], t, fresh, existing, n)

\* The run that is under way.  One that does not reuse has the tools in its queue
\* that lack examples, and those only.
RunInv(run) ==
  /\ run.script \in {"sequential", "batch"} => Own(run.existing)
  /\ run.script = "sequential" =>
       /\ FromRun(run.enriched, flat.tools, run.existing, generated)
       /\ ToSet(run.queue) \subseteq DOMAIN flat.tools
       /\ run.done <= Len(run.queue)
       /\ ~run.reuse =>
            /\ ToSet(run.queue) = Missing(run.existing)
            /\ \A i \in 1..run.done : run.queue[i] \in DOMAIN run.enriched

\* The flags of a registry are those of one release.
OfOneRelease(tools) ==
  \E release \in Release :
    \A t \in DOMAIN tools :
      t \in DOMAIN Registry(release) /\ tools[t].mutates = Registry(release)[t]
-----------------------------------------------------------------------------
(* Sorted(ids): every id has its place. *)

LEMMA SortedProperties ==
  ASSUME NEW S, NEW ids \in SUBSET S, ids \subseteq Nat, IsFiniteSet(ids)
  PROVE  /\ Sorted(ids) \in Seq(S)
         /\ ToSet(Sorted(ids)) = ids
<1> DEFINE n == Cardinality(ids)
           below(id) == {other \in ids : other < id}
           rank == [id \in ids |-> Cardinality(below(id)) + 1]
<1>1. n \in Nat /\ IsFiniteSet(1..n) /\ Cardinality(1..n) = n
  BY FS_CardinalityType, FS_Interval
<1>2. ASSUME NEW id \in ids
      PROVE  /\ IsFiniteSet(below(id)) /\ below(id) \subseteq ids /\ id \notin below(id)
             /\ Cardinality(below(id)) \in Nat /\ Cardinality(below(id)) < n
  <2>1. below(id) \subseteq ids /\ id \notin below(id) /\ below(id) # ids
    OBVIOUS
  <2> HIDE DEF below
  <2> QED BY <2>1, FS_Subset, FS_CardinalityType
<1>3. ASSUME NEW a \in ids, NEW b \in ids, a < b
      PROVE  Cardinality(below(a)) < Cardinality(below(b))
  <2>1. /\ \A c \in ids : c < a => c < b
        /\ a < b /\ ~(a < a)
    <3>1. a \in Nat /\ b \in Nat /\ \A c \in ids : c \in Nat
      OBVIOUS
    <3> QED BY <1>3, <3>1
  <2>2. below(a) \subseteq below(b) /\ a \in below(b) /\ a \notin below(a)
    BY <2>1, Zenon
  <2>3. IsFiniteSet(below(b)) /\ below(a) # below(b)
    BY <1>2, <2>2
  <2> HIDE DEF below
  <2> QED BY <2>2, <2>3, FS_Subset, FS_CardinalityType
<1> HIDE DEF n, below
<1>4. rank \in Injection(ids, 1..n)
  <2>1. rank \in [ids -> 1..n]
    BY <1>1, <1>2
  <2>2. ASSUME NEW a \in ids, NEW b \in ids, rank[a] = rank[b] PROVE a = b
    <3>1. Cardinality(below(a)) = Cardinality(below(b))
      BY <1>2, <2>2
    <3>2. ~(a < b) /\ ~(b < a)
      BY <1>2, <1>3, <3>1
    <3> QED BY <3>2
  <2> QED BY <2>1, <2>2 DEF Injection, IsInjective
<1>5. \A k \in 1..n : \E id \in ids : rank[id] = k
  <2>1. rank \in Surjection(ids, 1..n)
    BY <1>1, <1>4, FS_Injection DEF n
  <2> QED BY <2>1 DEF Surjection
<1>6. ASSUME NEW k \in 1..n
      PROVE  Sorted(ids)[k] \in ids /\ Cardinality(below(Sorted(ids)[k])) = k - 1
  <2>1. \E id \in ids : Cardinality(below(id)) = k - 1
    BY <1>2, <1>5
  <2> QED BY <2>1 DEF Sorted, n, below
<1>7. Sorted(ids) \in [1..n -> ids] /\ DOMAIN Sorted(ids) = 1..n
  BY <1>6 DEF Sorted, n
<1>8. Sorted(ids) \in Seq(S)
  <2>1. Sorted(ids) \in [1..n -> S]
    BY <1>7
  <2> QED BY <1>1, <2>1, SeqDef
<1>9. ASSUME NEW id \in ids PROVE id \in ToSet(Sorted(ids))
  <2>1. rank[id] \in 1..n
    BY <1>4 DEF Injection
  <2> DEFINE k == rank[id]
             other == Sorted(ids)[k]
  <2>2. other \in ids /\ Cardinality(below(other)) = k - 1
    BY <1>6, <2>1
  <2>3. rank[other] = rank[id]
    BY <1>2, <2>1, <2>2
  <2>4. other = id
    BY <1>4, <2>2, <2>3 DEF Injection, IsInjective
  <2> QED BY <1>7, <2>1, <2>4 DEF ToSet
<1> QED BY <1>7, <1>8, <1>9 DEF ToSet
-----------------------------------------------------------------------------
(* Registries. *)

LEMMA RegistryFacts ==
  ASSUME NEW release \in Release
  PROVE  /\ DOMAIN Registry(release) \subseteq Tool
         /\ DOMAIN Registry(release) \subseteq Nat
         /\ IsFiniteSet(DOMAIN Registry(release))
         /\ \A t \in DOMAIN Registry(release) : Registry(release)[t] \in BOOLEAN
<1>1. /\ DOMAIN release \subseteq Tool /\ IsFiniteSet(DOMAIN release) /\ Tool \subseteq Nat
      /\ \A t \in DOMAIN release :
           release[t] \in [prefix : {"read", "mutate", "other"},
                          verb : BOOLEAN, deprecated : BOOLEAN]
  BY SurfaceConstants
<1>2. DOMAIN Registry(release) \subseteq DOMAIN release
  BY DEF Registry
<1>3. \A t \in DOMAIN Registry(release) : Registry(release)[t] \in BOOLEAN
  BY <1>1 DEF Registry, IsMutating
<1> QED BY <1>1, <1>2, <1>3, FS_Subset

\* The flat registry, torn or not.
LEMMA FlatFacts ==
  ASSUME TypeInv
  PROVE  /\ DOMAIN flat.tools \subseteq Tool
         /\ DOMAIN flat.tools \subseteq Nat
         /\ IsFiniteSet(DOMAIN flat.tools)
         /\ \A t \in DOMAIN flat.tools : flat.tools[t] \in BOOLEAN
         /\ flat.whole \in BOOLEAN
         /\ OfOneRelease([t \in DOMAIN flat.tools |-> [mutates |-> flat.tools[t]]])
<1>1. CASE flat = Torn
  <2>1. flat.whole = FALSE /\ DOMAIN flat.tools = {}
    BY <1>1 DEF Torn, EmptyDict
  <2>2. FirstRelease \in Release
    BY SurfaceConstants
  <2> QED BY <2>1, <2>2, FS_EmptySet DEF OfOneRelease
<1>2. ASSUME NEW release \in Release, flat = Whole(Registry(release))
      PROVE  /\ DOMAIN flat.tools \subseteq Tool
             /\ DOMAIN flat.tools \subseteq Nat
             /\ IsFiniteSet(DOMAIN flat.tools)
             /\ \A t \in DOMAIN flat.tools : flat.tools[t] \in BOOLEAN
             /\ flat.whole \in BOOLEAN
             /\ OfOneRelease([t \in DOMAIN flat.tools |-> [mutates |-> flat.tools[t]]])
  <2>1. flat.whole = TRUE /\ flat.tools = Registry(release)
    BY <1>2 DEF Whole
  <2> QED BY <2>1, RegistryFacts DEF OfOneRelease
<1> QED BY <1>1, <1>2 DEF TypeInv

LEMMA RegistriesFacts ==
  ASSUME NEW n \in Nat, NEW tools \in Registries(n)
  PROVE  /\ DOMAIN tools \subseteq Tool
         /\ \A t \in DOMAIN tools :
              /\ tools[t] \in Entry(n)
              /\ tools[t].mutates \in BOOLEAN
              /\ tools[t].examples \in {NoExamples} \cup [of : Tool, set : 1..n]
<1>1. PICK ids \in SUBSET Tool : tools \in [ids -> Entry(n)]
  BY DEF Registries
<1> QED BY <1>1 DEF Entry

LEMMA IsRegistry ==
  ASSUME NEW n \in Nat, NEW ids \in SUBSET Tool, NEW tools,
         tools = [t \in ids |-> tools[t]], \A t \in ids : tools[t] \in Entry(n)
  PROVE  tools \in Registries(n)
<1>1. tools \in [ids -> Entry(n)]
  OBVIOUS
<1> QED BY <1>1 DEF Registries

LEMMA EmptyRegistry ==
  ASSUME NEW n \in Nat
  PROVE  /\ EmptyDict \in Registries(n)
         /\ Own(EmptyDict)
         /\ OfOneRelease(EmptyDict)
<1>1. EmptyDict \in [{} -> Entry(n)] /\ DOMAIN EmptyDict = {}
  BY DEF EmptyDict
<1>2. FirstRelease \in Release
  BY SurfaceConstants
<1> QED BY <1>1, <1>2 DEF Registries, Own, OfOneRelease

LEMMA LaterRegistries ==
  ASSUME NEW n \in Nat, NEW tools \in Registries(n)
  PROVE  tools \in Registries(n + 1)
<1>1. PICK ids \in SUBSET Tool : tools \in [ids -> Entry(n)]
  BY DEF Registries
<1>2. Entry(n) \subseteq Entry(n + 1)
  <2>1. 1..n \subseteq 1..(n + 1)
    OBVIOUS
  <2> QED BY <2>1 DEF Entry
<1>3. tools \in [ids -> Entry(n + 1)]
  BY <1>1, <1>2
<1> QED BY <1>3 DEF Registries

\* Examples that were there before a run have an earlier number than those it writes.
LEMMA ExamplesDiffer ==
  ASSUME NEW n \in Nat \ {0}, NEW t \in Tool, NEW u \in Tool,
         NEW examples \in {NoExamples} \cup [of : Tool, set : 1..(n - 1)]
  PROVE  /\ ExamplesFor(t, n) # NoExamples
         /\ ExamplesFor(t, n) # examples
         /\ ExamplesFor(t, n) = ExamplesFor(u, n) => t = u
         /\ ExamplesFor(t, n) \in [of : Tool, set : 1..n]
         /\ ExamplesFor(t, n).of = t
<1>1. ExamplesFor(t, n).set = n /\ ExamplesFor(t, n).of = t /\ ExamplesFor(u, n).of = u
  BY DEF ExamplesFor
<1>2. NoExamples.set = 0
  BY DEF NoExamples
<1>3. examples.set # n
  BY <1>2
<1>4. ExamplesFor(t, n) \in [of : Tool, set : 1..n]
  BY DEF ExamplesFor
<1> HIDE DEF ExamplesFor, NoExamples
<1> QED BY <1>1, <1>2, <1>3, <1>4

\* A run writes for each tool, or leaves it the examples that only it had.
LEMMA RunOwns ==
  ASSUME NEW n \in Nat \ {0}, NEW existing \in Registries(n - 1), Own(existing),
         NEW fresh, DOMAIN fresh \subseteq Tool, NEW tools,
         FromRun(tools, fresh, existing, n)
  PROVE  Own(tools)
<1>1. SUFFICES ASSUME NEW t \in DOMAIN tools, HasExamples(tools, t)
               PROVE  /\ Renamed(tools[t].examples.of, t)
                      /\ \A u \in DOMAIN tools :
                           tools[u].examples = tools[t].examples => u = t
  BY DEF Own
<1>2. DOMAIN tools \subseteq Tool
  BY DEF FromRun, EntryFromRun
<1>3. tools[t].examples # NoExamples
  BY <1>1 DEF HasExamples
<1>4. \A u \in DOMAIN existing :
        existing[u].examples \in {NoExamples} \cup [of : Tool, set : 1..(n - 1)]
  BY RegistriesFacts
<1>5. CASE tools[t].examples = ExamplesFor(t, n)
  <2>1. Renamed(tools[t].examples.of, t)
    BY <1>2, <1>5 DEF Renamed, ExamplesFor
  <2>2. ASSUME NEW u \in DOMAIN tools, tools[u].examples = tools[t].examples
        PROVE  u = t
    <3>1. CASE tools[u].examples = ExamplesFor(u, n)
      BY <1>2, <1>5, <2>2, <3>1, ExamplesDiffer
    <3>2. CASE HasExamples(existing, u) /\ tools[u].examples = existing[u].examples
      BY <1>2, <1>4, <1>5, <2>2, <3>2, ExamplesDiffer DEF HasExamples
    <3> QED BY <1>3, <2>2, <3>1, <3>2 DEF FromRun, EntryFromRun
  <2> QED BY <2>1, <2>2
<1>6. CASE HasExamples(existing, t) /\ tools[t].examples = existing[t].examples
  <2>1. t \in DOMAIN existing
    BY <1>6 DEF HasExamples
  <2>2. Renamed(tools[t].examples.of, t)
    BY <1>6, <2>1 DEF Own
  <2>3. ASSUME NEW u \in DOMAIN tools, tools[u].examples = tools[t].examples
        PROVE  u = t
    <3>1. CASE tools[u].examples = ExamplesFor(u, n)
      BY <1>2, <1>4, <1>6, <2>1, <2>3, <3>1, ExamplesDiffer
    <3>2. CASE HasExamples(existing, u) /\ tools[u].examples = existing[u].examples
      BY <1>6, <2>1, <2>3, <3>2 DEF Own, HasExamples
    <3> QED BY <1>3, <2>3, <3>1, <3>2 DEF FromRun, EntryFromRun
  <2> QED BY <2>2, <2>3
<1> QED BY <1>1, <1>3, <1>5, <1>6 DEF FromRun, EntryFromRun
-----------------------------------------------------------------------------
(* 03_reconcile: examples that are carried and ported. *)

\* The tool whose examples t gets is t itself, or the one t is the new name of.
LEMMA MergeSource ==
  ASSUME NEW n \in Nat, NEW old \in Registries(n), NEW fresh, DOMAIN fresh \subseteq Tool,
         NEW t \in DOMAIN fresh, Merge(old, fresh)[t].examples # NoExamples
  PROVE  \E source \in DOMAIN old :
           /\ HasExamples(old, source)
           /\ Merge(old, fresh)[t].examples = old[source].examples
           /\ source = t \/ <<source, t>> \in Ports(old, fresh)
<1>1. CASE HasExamples(old, t)
  <2>1. t \in DOMAIN old /\ Merge(old, fresh)[t].examples = old[t].examples
    BY <1>1 DEF Merge, HasExamples
  <2> QED BY <1>1, <2>1
<1>2. CASE ~HasExamples(old, t)
  <2> DEFINE p == CHOOSE q \in Ports(old, fresh) : q[2] = t
  <2>1. /\ \E q \in Ports(old, fresh) : q[2] = t
        /\ Merge(old, fresh)[t].examples = old[p[1]].examples
    BY <1>2 DEF Merge
  <2>2. p \in Ports(old, fresh) /\ p[2] = t
    BY <2>1
  <2> HIDE DEF p
  <2>3. p = <<p[1], t>> /\ p[1] \in DOMAIN old /\ HasExamples(old, p[1])
    BY <2>2 DEF Ports, Vanished, Unexplained
  <2> QED BY <2>1, <2>2, <2>3
<1> QED BY <1>1, <1>2

LEMMA PortFacts ==
  ASSUME NEW old, NEW fresh, NEW s, NEW t, <<s, t>> \in Ports(old, fresh)
  PROVE  /\ s \notin DOMAIN fresh
         /\ <<s, t>> \in Similar
         /\ \A u : <<s, u>> \in Ports(old, fresh) => u = t
<1>1. s \notin DOMAIN fresh
  BY DEF Ports, Vanished
<1>2. \A u : <<s, u>> \in Ports(old, fresh) =>
        {v \in Unexplained(old, fresh) : <<s, v>> \in Similar} = {u}
  BY DEF Ports
<1> QED BY <1>1, <1>2

LEMMA MergeProperties ==
  ASSUME NEW n \in Nat, NEW old \in Registries(n), Own(old),
         NEW fresh, DOMAIN fresh \subseteq Tool, \A t \in DOMAIN fresh : fresh[t] \in BOOLEAN
  PROVE  /\ Merge(old, fresh) \in Registries(n)
         /\ Own(Merge(old, fresh))
         /\ DOMAIN Merge(old, fresh) = DOMAIN fresh
         /\ \A t \in DOMAIN fresh : Merge(old, fresh)[t].mutates = fresh[t]
<1> DEFINE new == Merge(old, fresh)
<1>1. /\ DOMAIN new = DOMAIN fresh
      /\ new = [t \in DOMAIN fresh |-> new[t]]
      /\ \A t \in DOMAIN fresh :
           /\ new[t].mutates = fresh[t]
           /\ new[t] = [mutates |-> new[t].mutates, examples |-> new[t].examples]
  BY DEF Merge
<1>2. ASSUME NEW t \in DOMAIN fresh PROVE new[t] \in Entry(n)
  <2>1. new[t].examples \in {NoExamples} \cup [of : Tool, set : 1..n]
    <3>1. SUFFICES ASSUME new[t].examples # NoExamples
                   PROVE  new[t].examples \in {NoExamples} \cup [of : Tool, set : 1..n]
      OBVIOUS
    <3>2. PICK source \in DOMAIN old :
                 /\ HasExamples(old, source) /\ new[t].examples = old[source].examples
                 /\ source = t \/ <<source, t>> \in Ports(old, fresh)
      BY <3>1, MergeSource
    <3> QED BY <3>2, RegistriesFacts
  <2> HIDE DEF new
  <2> QED BY <1>1, <2>1 DEF Entry
<1>3. new \in Registries(n)
  <2> HIDE DEF new
  <2> QED BY <1>1, <1>2, IsRegistry
<1>4. ASSUME NEW t \in DOMAIN fresh, new[t].examples # NoExamples
      PROVE  Renamed(new[t].examples.of, t)
  <2>1. PICK s \in DOMAIN old :
               /\ HasExamples(old, s) /\ new[t].examples = old[s].examples
               /\ s = t \/ <<s, t>> \in Ports(old, fresh)
    BY <1>4, MergeSource
  <2>2. Renamed(old[s].examples.of, s)
    BY <2>1 DEF Own
  <2>3. CASE <<s, t>> \in Ports(old, fresh)
    <3>1. <<s, t>> \in Similar
      BY <2>3, PortFacts
    <3> QED BY <2>1, <2>2, <3>1 DEF Renamed
  <2> HIDE DEF new
  <2> QED BY <2>1, <2>2, <2>3
<1>5. ASSUME NEW t \in DOMAIN fresh, NEW u \in DOMAIN fresh,
             new[t].examples # NoExamples, new[u].examples = new[t].examples
      PROVE  u = t
  <2>1. PICK s \in DOMAIN old :
               /\ HasExamples(old, s) /\ new[t].examples = old[s].examples
               /\ s = t \/ <<s, t>> \in Ports(old, fresh)
    BY <1>5, MergeSource
  <2>2. PICK r \in DOMAIN old :
               /\ HasExamples(old, r) /\ new[u].examples = old[r].examples
               /\ r = u \/ <<r, u>> \in Ports(old, fresh)
    BY <1>5, MergeSource
  <2> HIDE DEF new
  <2>3. r = s
    BY <1>5, <2>1, <2>2 DEF Own
  <2> QED BY <2>1, <2>2, <2>3, PortFacts
<1>6. Own(new)
  <2> HIDE DEF new
  <2> QED BY <1>1, <1>4, <1>5 DEF Own, HasExamples
<1> QED BY <1>1, <1>3, <1>6
-----------------------------------------------------------------------------
(* The example run: what it finds and what it makes. *)

\* The type of the run that is under way, by the name of its script.
LEMMA JobFacts ==
  ASSUME TypeInv
  PROVE  /\ job.script = "sequential" => job \in SequentialJob(generated)
         /\ job.script = "batch" => job \in BatchJob(generated)
         /\ job.script \in {"sequential", "batch", "refresh", "reconcile"} => flat.whole
         /\ NoJob.script = "none"
<1>1. NoJob.script = "none"
  BY DEF NoJob
<1>2. \A j \in RefreshJob : j.script \in {"refresh", "reconcile"}
  BY DEF RefreshJob
<1>3. \A j \in SequentialJob(generated) : j.script = "sequential"
  BY DEF SequentialJob
<1>4. \A j \in BatchJob(generated) : j.script = "batch"
  BY DEF BatchJob
<1> QED BY <1>1, <1>2, <1>3, <1>4, Zenon DEF TypeInv

LEMMA ReusedFacts ==
  ASSUME TypeInv, NEW existing \in Registries(generated - 1)
  PROVE  /\ DOMAIN Reused(existing) = DOMAIN flat.tools \ Missing(existing)
         /\ \A t \in DOMAIN flat.tools \ Missing(existing) :
              /\ HasExamples(existing, t)
              /\ Reused(existing)[t] \in Entry(generated)
              /\ Reused(existing)[t].mutates = flat.tools[t]
              /\ Reused(existing)[t].examples = existing[t].examples
         /\ Reused(existing) \in Registries(generated)
         /\ FromRun(Reused(existing), flat.tools, existing, generated)
<1>1. /\ DOMAIN Reused(existing) = DOMAIN flat.tools \ Missing(existing)
      /\ \A t \in DOMAIN flat.tools \ Missing(existing) :
           /\ HasExamples(existing, t)
           /\ Reused(existing)[t] = [mutates |-> flat.tools[t],
                                     examples |-> existing[t].examples]
           /\ Reused(existing)[t].mutates = flat.tools[t]
           /\ Reused(existing)[t].examples = existing[t].examples
      /\ Reused(existing) = [t \in DOMAIN flat.tools \ Missing(existing) |->
                               Reused(existing)[t]]
  BY DEF Reused, Missing
<1>2. generated - 1 \in Nat /\ generated \in Nat
  BY DEF TypeInv
<1>3. existing \in Registries(generated)
  BY <1>2, LaterRegistries
<1>4. ASSUME NEW t \in DOMAIN flat.tools \ Missing(existing)
      PROVE  Reused(existing)[t] \in Entry(generated)
  <2>1. existing[t].examples \in {NoExamples} \cup [of : Tool, set : 1..generated]
    BY <1>1, <1>2, <1>3, RegistriesFacts DEF HasExamples
  <2>2. flat.tools[t] \in BOOLEAN
    BY FlatFacts
  <2>3. [mutates |-> flat.tools[t], examples |-> existing[t].examples] \in Entry(generated)
    BY <2>1, <2>2 DEF Entry
  <2>4. Reused(existing)[t] = [mutates |-> flat.tools[t], examples |-> existing[t].examples]
    BY <1>1
  <2> QED BY <2>3, <2>4
<1>5. Reused(existing) \in Registries(generated)
  <2>1. DOMAIN flat.tools \ Missing(existing) \in SUBSET Tool
    BY FlatFacts
  <2> QED BY <1>1, <1>2, <1>4, <2>1, IsRegistry
<1>6. FromRun(Reused(existing), flat.tools, existing, generated)
  BY <1>1 DEF FromRun, EntryFromRun
<1> QED BY <1>1, <1>4, <1>5, <1>6

\* An entry of the run joins those it has.
LEMMA PutFromRun ==
  ASSUME NEW n \in Nat \ {0}, NEW tools \in Registries(n), NEW fresh, NEW existing,
         FromRun(tools, fresh, existing, n),
         NEW t \in Tool, NEW entry \in Entry(n), EntryFromRun(entry, t, fresh, existing, n)
  PROVE  /\ Put(tools, t, entry) \in Registries(n)
         /\ FromRun(Put(tools, t, entry), fresh, existing, n)
<1> DEFINE new == Put(tools, t, entry)
<1>1. /\ DOMAIN new = DOMAIN tools \cup {t}
      /\ \A u \in DOMAIN tools \cup {t} : new[u] = IF u = t THEN entry ELSE tools[u]
      /\ new = [u \in DOMAIN tools \cup {t} |-> new[u]]
  BY DEF Put
<1>2. /\ DOMAIN tools \cup {t} \in SUBSET Tool
      /\ \A u \in DOMAIN tools : tools[u] \in Entry(n)
  BY RegistriesFacts
<1> HIDE DEF new
<1>3. new \in Registries(n)
  BY <1>1, <1>2, IsRegistry
<1>4. FromRun(new, fresh, existing, n)
  BY <1>1 DEF FromRun, EntryFromRun
<1> QED BY <1>1, <1>3, <1>4 DEF new

LEMMA WrittenFacts ==
  ASSUME TypeInv, NEW t \in DOMAIN flat.tools, NEW parses \in BOOLEAN
  PROVE  /\ [mutates |-> flat.tools[t], examples |-> Written(t, parses)] \in Entry(generated)
         /\ Written(t, parses) \in {NoExamples, ExamplesFor(t, generated)}
<1>1. t \in Tool /\ flat.tools[t] \in BOOLEAN /\ generated \in Nat \ {0}
  BY FlatFacts DEF TypeInv
<1>2. ExamplesFor(t, generated) \in [of : Tool, set : 1..generated]
  BY <1>1, ExamplesDiffer
<1>3. Written(t, parses) \in {NoExamples, ExamplesFor(t, generated)}
  BY DEF Written
<1> QED BY <1>1, <1>2, <1>3 DEF Entry
-----------------------------------------------------------------------------
(* What every step leaves of the registries. *)

\* A rewritten registry is written to the end, or torn and so without a tool.
LEMMA RewriteMerged ==
  ASSUME TypeInv, generated' = generated, flat' = flat,
         NEW tools \in Registries(generated), Own(tools),
         NEW nextJob, Rewrite(merged, tools, nextJob)
  PROVE  /\ merged' \in [whole : BOOLEAN, tools : Registries(generated')]
         /\ Own(merged'.tools)
         /\ OfOneRelease(tools) => OfOneRelease(merged'.tools)
         /\ job' \in {nextJob, NoJob}
<1>1. generated \in Nat
  BY DEF TypeInv
<1>2. Whole(tools) \in [whole : BOOLEAN, tools : Registries(generated)]
      /\ Whole(tools).tools = tools
  BY DEF Whole
<1>3. Torn \in [whole : BOOLEAN, tools : Registries(generated)]
      /\ Torn.tools = EmptyDict
  BY <1>1, EmptyRegistry DEF Torn
<1>4. CASE merged' = Whole(tools) /\ job' = nextJob
  BY <1>2, <1>4
<1>5. CASE merged' = Torn /\ job' = NoJob
  BY <1>1, <1>3, <1>5, EmptyRegistry
<1> QED BY <1>4, <1>5 DEF Rewrite

\* Flags that come from the flat registry are those of the release it is of.
LEMMA FlatFlags ==
  ASSUME TypeInv, NEW tools, DOMAIN tools \subseteq DOMAIN flat.tools,
         \A t \in DOMAIN tools : tools[t].mutates = flat.tools[t]
  PROVE  OfOneRelease(tools)
<1>1. CASE flat = Torn
  <2>1. DOMAIN tools = {}
    BY <1>1 DEF Torn, EmptyDict
  <2>2. FirstRelease \in Release
    BY SurfaceConstants
  <2> QED BY <2>1, <2>2 DEF OfOneRelease
<1>2. ASSUME NEW release \in Release, flat = Whole(Registry(release))
      PROVE  OfOneRelease(tools)
  <2>1. flat.tools = Registry(release)
    BY <1>2 DEF Whole
  <2> QED BY <2>1 DEF OfOneRelease
<1> QED BY <1>1, <1>2 DEF TypeInv

\* What the example run writes.
LEMMA RunResult ==
  ASSUME TypeInv, NEW existing \in Registries(generated - 1), Own(existing),
         NEW tools, FromRun(tools, flat.tools, existing, generated)
  PROVE  Own(tools) /\ OfOneRelease(tools)
<1>1. generated \in Nat \ {0} /\ DOMAIN flat.tools \subseteq Tool
  BY FlatFacts DEF TypeInv
<1>2. Own(tools)
  BY <1>1, RunOwns
<1>3. OfOneRelease(tools)
  BY FlatFlags DEF FromRun, EntryFromRun
<1> QED BY <1>2, <1>3
-----------------------------------------------------------------------------
(* Types, examples and flags: the inductive invariant. *)

ExampleInv == RunInv(job) /\ Own(merged.tools) /\ OfOneRelease(merged.tools)

AllJobs(n) == {NoJob} \cup RefreshJob \cup SequentialJob(n) \cup BatchJob(n)

\* A step of a script that leaves the flat registry alone.
LEMMA ScriptStep ==
  ASSUME TypeInv, ExampleInv,
         UNCHANGED <<sdk, flat, server, generated>>,
         allowlist' \in Seq(Line), consent' \subseteq Tool,
         merged' \in [whole : BOOLEAN, tools : Registries(generated')],
         Own(merged'.tools), OfOneRelease(merged'.tools),
         job' \in AllJobs(generated), job' # NoJob => flat.whole, RunInv(job')
  PROVE  TypeInv' /\ ExampleInv'
<1>1. TypeInv'
  BY DEF TypeInv, AllJobs
<1>2. RunInv(job)'
  BY DEF RunInv, Missing
<1> QED BY <1>1, <1>2 DEF ExampleInv

\* The script ends or is killed.
LEMMA ScriptEnds ==
  ASSUME TypeInv, ExampleInv,
         UNCHANGED <<sdk, flat, server, generated>>,
         allowlist' \in Seq(Line), consent' \subseteq Tool,
         merged' \in [whole : BOOLEAN, tools : Registries(generated')],
         Own(merged'.tools), OfOneRelease(merged'.tools), job' = NoJob
  PROVE  TypeInv' /\ ExampleInv'
<1>1. RunInv(job') /\ job' \in AllJobs(generated)
  BY JobFacts DEF RunInv, AllJobs
<1> QED BY <1>1, ScriptStep

\* A step of people, of the server or of the package manager.
LEMMA OtherStep ==
  ASSUME TypeInv, ExampleInv, UNCHANGED <<flat, merged, job, generated>>,
         sdk' \in Release, DOMAIN server' \subseteq Tool,
         allowlist' \in Seq(Line), consent' \subseteq Tool
  PROVE  TypeInv' /\ ExampleInv'
<1>1. TypeInv'
  BY DEF TypeInv
<1>2. RunInv(job)'
  BY DEF RunInv, Missing, ExampleInv
<1> QED BY <1>1, <1>2 DEF ExampleInv

LEMMA BuildRegistryStep ==
  ASSUME TypeInv, ExampleInv, BuildRegistry
  PROVE  TypeInv' /\ ExampleInv'
<1>1. UNCHANGED <<sdk, merged, allowlist, server, generated, consent>>
  BY DEF BuildRegistry, bounds, history
<1>2. flat' \in {Torn} \cup {Whole(Registry(release)) : release \in Release}
  BY DEF BuildRegistry, Rewrite, TypeInv
<1>3. \/ job' = [script |-> "refresh"] /\ flat'.whole
      \/ job' = NoJob
  BY DEF BuildRegistry, Rewrite, Whole
<1>4. TypeInv'
  BY <1>1, <1>2, <1>3 DEF TypeInv, RefreshJob
<1>5. RunInv(job)'
  BY <1>3, JobFacts DEF RunInv
<1> QED BY <1>1, <1>4, <1>5 DEF ExampleInv

LEMMA MergeExamplesStep ==
  ASSUME TypeInv, ExampleInv, MergeExamples
  PROVE  TypeInv' /\ ExampleInv'
<1>1. UNCHANGED <<sdk, flat, allowlist, server, generated, consent>>
  BY DEF MergeExamples, bounds, history
<1>2. allowlist' \in Seq(Line) /\ consent' \subseteq Tool
  BY <1>1 DEF TypeInv
<1>3. CASE ~merged.whole
  <2>1. job' = NoJob /\ merged' = merged
    BY <1>3 DEF MergeExamples
  <2>2. merged' \in [whole : BOOLEAN, tools : Registries(generated')]
    BY <1>1, <2>1 DEF TypeInv
  <2>3. Own(merged'.tools) /\ OfOneRelease(merged'.tools)
    BY <2>1 DEF ExampleInv
  <2> QED BY <1>1, <1>2, <2>1, <2>2, <2>3, ScriptEnds
<1>4. CASE merged.whole
  <2> DEFINE tools == Merge(merged.tools, flat.tools)
             next == [script |-> "reconcile"]
  <2>1. Rewrite(merged, tools, next)
    BY <1>4 DEF MergeExamples
  <2>2. /\ merged.tools \in Registries(generated) /\ generated \in Nat
        /\ Own(merged.tools)
    BY DEF TypeInv, ExampleInv
  <2>3. /\ tools \in Registries(generated)
        /\ Own(tools)
        /\ DOMAIN tools = DOMAIN flat.tools
        /\ \A t \in DOMAIN flat.tools : tools[t].mutates = flat.tools[t]
    BY <2>2, FlatFacts, MergeProperties
  <2> HIDE DEF tools
  <2>4. OfOneRelease(tools)
    BY <2>3, FlatFlags
  <2>5. /\ merged' \in [whole : BOOLEAN, tools : Registries(generated')]
        /\ Own(merged'.tools)
        /\ OfOneRelease(merged'.tools)
        /\ job' \in {next, NoJob}
    BY <1>1, <2>1, <2>3, <2>4, RewriteMerged
  <2>6. flat.whole
    BY JobFacts DEF MergeExamples
  <2>7. RunInv(job') /\ job' \in AllJobs(generated)
    BY <2>5, JobFacts DEF RunInv, AllJobs, RefreshJob
  <2> QED BY <1>1, <1>2, <2>5, <2>6, <2>7, ScriptStep
<1>5. merged.whole \in BOOLEAN
  BY DEF TypeInv
<1> QED BY <1>3, <1>4, <1>5

\* The example run saves what it has.
LEMMA RunSaves ==
  ASSUME TypeInv, ExampleInv,
         UNCHANGED <<sdk, flat, allowlist, server, generated, consent>>,
         NEW existing \in Registries(generated - 1), Own(existing),
         NEW tools \in Registries(generated),
         FromRun(tools, flat.tools, existing, generated),
         NEW nextJob \in AllJobs(generated), RunInv(nextJob), flat.whole,
         Rewrite(merged, tools, nextJob)
  PROVE  TypeInv' /\ ExampleInv'
<1>1. allowlist' \in Seq(Line) /\ consent' \subseteq Tool
  BY DEF TypeInv
<1>2. Own(tools) /\ OfOneRelease(tools)
  BY RunResult
<1>3. /\ merged' \in [whole : BOOLEAN, tools : Registries(generated')]
      /\ Own(merged'.tools)
      /\ OfOneRelease(merged'.tools)
      /\ job' \in {nextJob, NoJob}
  BY <1>2, RewriteMerged
<1>4. RunInv(job') /\ job' \in AllJobs(generated)
  BY <1>3, JobFacts DEF RunInv, AllJobs
<1> QED BY <1>1, <1>3, <1>4, ScriptStep

\* A step of the example run that saves nothing.
LEMMA RunGoesOn ==
  ASSUME TypeInv, ExampleInv,
         UNCHANGED <<sdk, flat, merged, allowlist, server, generated, consent>>,
         job' \in AllJobs(generated), RunInv(job'), job' # NoJob => flat.whole
  PROVE  TypeInv' /\ ExampleInv'
<1>1. allowlist' \in Seq(Line) /\ consent' \subseteq Tool
  BY DEF TypeInv
<1>2. /\ merged' \in [whole : BOOLEAN, tools : Registries(generated')]
      /\ Own(merged'.tools)
      /\ OfOneRelease(merged'.tools)
  BY DEF TypeInv, ExampleInv
<1> QED BY <1>1, <1>2, ScriptStep

LEMMA NoJobIsFine == RunInv(NoJob) /\ NoJob \in AllJobs(generated)
BY DEF RunInv, AllJobs, NoJob

\* What is known while tools are done one by one.
LEMMA SequentialFacts ==
  ASSUME TypeInv, ExampleInv, job.script = "sequential"
  PROVE  /\ job \in SequentialJob(generated)
         /\ flat.whole
         /\ job.existing \in Registries(generated - 1) /\ Own(job.existing)
         /\ job.enriched \in Registries(generated)
         /\ FromRun(job.enriched, flat.tools, job.existing, generated)
         /\ job.queue \in Seq(Tool) /\ ToSet(job.queue) \subseteq DOMAIN flat.tools
         /\ job.done \in Nat /\ job.done <= Len(job.queue)
         /\ job.done < Len(job.queue) => job.queue[job.done + 1] \in DOMAIN flat.tools
         /\ generated \in Nat \ {0}
<1>1. job \in SequentialJob(generated) /\ flat.whole
  BY JobFacts
<1>2. /\ job.existing \in Registries(generated - 1) /\ job.enriched \in Registries(generated)
      /\ job.queue \in Seq(Tool) /\ job.done \in Nat
  BY <1>1 DEF SequentialJob
<1>3. /\ Own(job.existing)
      /\ FromRun(job.enriched, flat.tools, job.existing, generated)
      /\ ToSet(job.queue) \subseteq DOMAIN flat.tools
      /\ job.done <= Len(job.queue)
  BY DEF ExampleInv, RunInv
<1>4. ASSUME job.done < Len(job.queue)
      PROVE  job.queue[job.done + 1] \in DOMAIN flat.tools
  <2>1. job.done + 1 \in 1..Len(job.queue)
    BY <1>2, <1>4
  <2>2. job.queue[job.done + 1] \in ToSet(job.queue)
    BY <1>2, <2>1 DEF ToSet
  <2> QED BY <1>3, <2>2
<1> QED BY <1>1, <1>2, <1>3, <1>4 DEF TypeInv

\* The next tool of the queue is done.
LEMMA NextToolDone ==
  ASSUME TypeInv, ExampleInv, job.script = "sequential", job.done < Len(job.queue),
         NEW entry \in Entry(generated),
         EntryFromRun(entry, job.queue[job.done + 1], flat.tools, job.existing, generated),
         NEW enriched, enriched = Put(job.enriched, job.queue[job.done + 1], entry),
         NEW next, next = [job EXCEPT !.done = job.done + 1, !.enriched = enriched]
  PROVE  /\ enriched \in Registries(generated)
         /\ FromRun(enriched, flat.tools, job.existing, generated)
         /\ next \in AllJobs(generated)
         /\ RunInv(next)
<1> DEFINE t == job.queue[job.done + 1]
<1>1. /\ job \in SequentialJob(generated)
      /\ job.enriched \in Registries(generated)
      /\ FromRun(job.enriched, flat.tools, job.existing, generated)
      /\ t \in DOMAIN flat.tools
      /\ job.done \in Nat /\ job.queue \in Seq(Tool)
      /\ generated \in Nat \ {0}
  BY SequentialFacts
<1>2. /\ t \in Tool
      /\ EntryFromRun(entry, t, flat.tools, job.existing, generated)
      /\ enriched = Put(job.enriched, t, entry)
      /\ t = job.queue[job.done + 1]
  BY <1>1, FlatFacts
<1> HIDE DEF t
<1>3. /\ enriched \in Registries(generated)
      /\ FromRun(enriched, flat.tools, job.existing, generated)
      /\ DOMAIN enriched = DOMAIN job.enriched \cup {t}
  <2>1. Put(job.enriched, t, entry) \in Registries(generated)
    BY <1>1, <1>2, PutFromRun
  <2>2. FromRun(Put(job.enriched, t, entry), flat.tools, job.existing, generated)
    BY <1>1, <1>2, PutFromRun
  <2>3. DOMAIN Put(job.enriched, t, entry) = DOMAIN job.enriched \cup {t}
    BY DEF Put
  <2> QED BY <1>2, <2>1, <2>2, <2>3
<1>4. /\ next \in SequentialJob(generated)
      /\ next.script = "sequential" /\ next.queue = job.queue
      /\ next.existing = job.existing /\ next.reuse = job.reuse
      /\ next.done = job.done + 1 /\ next.enriched = enriched
  <2>1. job.done + 1 \in Nat
    BY <1>1
  <2>2. next \in SequentialJob(generated)
    BY <1>1, <1>3, <2>1 DEF SequentialJob
  <2>3. /\ next.script = job.script /\ next.queue = job.queue
        /\ next.existing = job.existing /\ next.reuse = job.reuse
        /\ next.done = job.done + 1 /\ next.enriched = enriched
    BY <1>1 DEF SequentialJob
  <2> QED BY <2>2, <2>3
<1>5. next.done <= Len(next.queue)
  BY <1>1, <1>4
<1>6. ASSUME ~job.reuse, NEW i \in 1..next.done PROVE job.queue[i] \in DOMAIN enriched
  <2>1. CASE i = job.done + 1
    BY <1>2, <1>3, <2>1
  <2>2. CASE i # job.done + 1
    <3>1. i \in 1..job.done
      BY <1>1, <1>4, <2>2
    <3> QED BY <1>3, <1>6, <3>1 DEF ExampleInv, RunInv
  <2> QED BY <2>1, <2>2
<1>7. RunInv(next)
  BY <1>3, <1>4, <1>5, <1>6 DEF RunInv, ExampleInv
<1> QED BY <1>3, <1>4, <1>7 DEF AllJobs

LEMMA ReuseExamplesStep ==
  ASSUME TypeInv, ExampleInv, ReuseExamples
  PROVE  TypeInv' /\ ExampleInv'
<1> DEFINE t == job.queue[job.done + 1]
           entry == Reused(job.existing)[t]
           enriched == Put(job.enriched, t, entry)
           next == [job EXCEPT !.done = job.done + 1, !.enriched = enriched]
<1>1. /\ UNCHANGED <<sdk, flat, merged, allowlist, server, generated, consent>>
      /\ job.script = "sequential" /\ job.done < Len(job.queue)
      /\ HasExamples(job.existing, t)
      /\ job' = next
  BY DEF ReuseExamples, bounds, files, history
<1>2. /\ job.existing \in Registries(generated - 1)
      /\ t \in DOMAIN flat.tools
      /\ flat.whole
  BY <1>1, SequentialFacts
<1>3. t \in DOMAIN flat.tools \ Missing(job.existing)
  BY <1>1, <1>2 DEF Missing
<1>4. entry \in Entry(generated)
      /\ EntryFromRun(entry, t, flat.tools, job.existing, generated)
  BY <1>2, <1>3, ReusedFacts DEF EntryFromRun
<1> HIDE DEF entry
<1>5. next \in AllJobs(generated) /\ RunInv(next)
  BY <1>1, <1>4, NextToolDone
<1> HIDE DEF next
<1> QED BY <1>1, <1>2, <1>5, RunGoesOn

LEMMA GenerateExamplesStep ==
  ASSUME TypeInv, ExampleInv, GenerateExamples
  PROVE  TypeInv' /\ ExampleInv'
<1> DEFINE t == job.queue[job.done + 1]
           entry(parses) == [mutates |-> flat.tools[t], examples |-> Written(t, parses)]
           enriched(parses) == Put(job.enriched, t, entry(parses))
           next(parses) ==
             [job EXCEPT !.done = job.done + 1, !.enriched = enriched(parses)]
<1>1. /\ UNCHANGED <<sdk, flat, allowlist, server, generated, consent>>
      /\ job.script = "sequential" /\ job.done < Len(job.queue)
  BY DEF GenerateExamples, bounds, history
<1>2. PICK parses \in BOOLEAN :
        \/ Rewrite(merged, enriched(parses), next(parses))
        \/ job' = next(parses) /\ UNCHANGED merged
  BY DEF GenerateExamples
<1>3. /\ job.existing \in Registries(generated - 1)
      /\ Own(job.existing)
      /\ t \in DOMAIN flat.tools
      /\ flat.whole
  BY <1>1, SequentialFacts
<1>4. entry(parses) \in Entry(generated)
      /\ Written(t, parses) \in {NoExamples, ExamplesFor(t, generated)}
  BY <1>3, WrittenFacts
<1>5. EntryFromRun(entry(parses), t, flat.tools, job.existing, generated)
  BY <1>3, <1>4 DEF EntryFromRun
<1> HIDE DEF entry
<1>6. /\ enriched(parses) \in Registries(generated)
      /\ FromRun(enriched(parses), flat.tools, job.existing, generated)
      /\ next(parses) \in AllJobs(generated)
      /\ RunInv(next(parses))
  BY <1>1, <1>4, <1>5, NextToolDone
<1> HIDE DEF enriched, next
<1>7. CASE Rewrite(merged, enriched(parses), next(parses))
  BY <1>1, <1>3, <1>6, <1>7, RunSaves
<1>8. CASE job' = next(parses) /\ UNCHANGED merged
  BY <1>1, <1>3, <1>6, <1>8, RunGoesOn
<1> QED BY <1>2, <1>7, <1>8

LEMMA LlmFailsStep ==
  ASSUME TypeInv, ExampleInv, LlmFails
  PROVE  TypeInv' /\ ExampleInv'
<1>1. /\ UNCHANGED <<sdk, flat, merged, allowlist, server, generated, consent>>
      /\ job' = NoJob
  BY DEF LlmFails, bounds, files, history
<1> QED BY <1>1, NoJobIsFine, RunGoesOn

LEMMA RunEntries ==
  ASSUME TypeInv, NEW existing, NEW ids \in SUBSET DOMAIN flat.tools, NEW tools,
         tools = [t \in ids |-> tools[t]],
         \A t \in ids : /\ tools[t] \in Entry(generated)
                        /\ EntryFromRun(tools[t], t, flat.tools, existing, generated)
  PROVE  /\ tools \in Registries(generated)
         /\ FromRun(tools, flat.tools, existing, generated)
<1>1. ids \in SUBSET Tool /\ generated \in Nat
  BY FlatFacts DEF TypeInv
<1>2. tools \in Registries(generated)
  BY <1>1, IsRegistry
<1>3. DOMAIN tools = ids
  OBVIOUS
<1> QED BY <1>2, <1>3 DEF FromRun

LEMMA EndSequentialStep ==
  ASSUME TypeInv, ExampleInv, EndSequential
  PROVE  TypeInv' /\ ExampleInv'
<1> DEFINE tools == [t \in DOMAIN flat.tools |->
                       IF t \in DOMAIN job.enriched THEN job.enriched[t]
                       ELSE Reused(job.existing)[t]]
<1>1. /\ UNCHANGED <<sdk, flat, allowlist, server, generated, consent>>
      /\ job.script = "sequential" /\ job.done = Len(job.queue)
      /\ \/ job' = NoJob /\ UNCHANGED merged
         \/ ~job.reuse /\ Rewrite(merged, tools, NoJob)
  BY DEF EndSequential, bounds, history
<1>2. CASE job' = NoJob /\ UNCHANGED merged
  BY <1>1, <1>2, NoJobIsFine, RunGoesOn
<1>3. CASE ~job.reuse /\ Rewrite(merged, tools, NoJob)
  <2>1. /\ flat.whole
        /\ job.existing \in Registries(generated - 1) /\ Own(job.existing)
        /\ job.enriched \in Registries(generated) /\ generated \in Nat
        /\ FromRun(job.enriched, flat.tools, job.existing, generated)
        /\ job.queue \in Seq(Tool)
    BY <1>1, SequentialFacts
  <2>2. /\ ToSet(job.queue) = Missing(job.existing)
        /\ \A i \in 1..Len(job.queue) : job.queue[i] \in DOMAIN job.enriched
    BY <1>1, <1>3 DEF ExampleInv, RunInv
  <2>3. Missing(job.existing) \subseteq DOMAIN job.enriched
    BY <2>1, <2>2 DEF ToSet
  <2>4. ASSUME NEW t \in DOMAIN flat.tools
        PROVE  /\ tools[t] \in Entry(generated)
               /\ EntryFromRun(tools[t], t, flat.tools, job.existing, generated)
    <3>1. CASE t \in DOMAIN job.enriched
      <4>1. tools[t] = job.enriched[t]
        BY <3>1
      <4> QED BY <2>1, <3>1, <4>1, RegistriesFacts DEF FromRun
    <3>2. CASE t \notin DOMAIN job.enriched
      <4>1. tools[t] = Reused(job.existing)[t] /\ t \notin Missing(job.existing)
        BY <2>3, <3>2
      <4> QED BY <2>1, <4>1, ReusedFacts DEF FromRun
    <3> QED BY <3>1, <3>2
  <2>5. tools = [t \in DOMAIN flat.tools |-> tools[t]]
    OBVIOUS
  <2> HIDE DEF tools
  <2>6. /\ tools \in Registries(generated)
        /\ FromRun(tools, flat.tools, job.existing, generated)
    BY <2>4, <2>5, RunEntries
  <2> QED BY <1>1, <1>3, <2>1, <2>6, NoJobIsFine, RunSaves
<1> QED BY <1>1, <1>2, <1>3

\* What is known while a batch is under way.
LEMMA BatchFacts ==
  ASSUME TypeInv, ExampleInv, job.script = "batch"
  PROVE  /\ job \in BatchJob(generated)
         /\ flat.whole
         /\ job.existing \in Registries(generated - 1) /\ Own(job.existing)
<1>1. job \in BatchJob(generated) /\ flat.whole
  BY JobFacts
<1>2. job.existing \in Registries(generated - 1)
  BY <1>1 DEF BatchJob
<1> QED BY <1>1, <1>2 DEF ExampleInv, RunInv

LEMMA NothingToGenerateStep ==
  ASSUME TypeInv, ExampleInv, NothingToGenerate
  PROVE  TypeInv' /\ ExampleInv'
<1>1. /\ UNCHANGED <<sdk, flat, allowlist, server, generated, consent>>
      /\ job.script = "batch"
      /\ Rewrite(merged, Reused(job.existing), NoJob)
  BY DEF NothingToGenerate, bounds, history
<1>2. /\ flat.whole /\ job.existing \in Registries(generated - 1)
      /\ Own(job.existing)
  BY <1>1, BatchFacts
<1>3. /\ Reused(job.existing) \in Registries(generated)
      /\ FromRun(Reused(job.existing), flat.tools, job.existing, generated)
  BY <1>2, ReusedFacts
<1> QED BY <1>1, <1>2, <1>3, NoJobIsFine, RunSaves

LEMMA FallBackIsFine ==
  ASSUME TypeInv, ExampleInv, job.script = "batch"
  PROVE  FallBackJob \in AllJobs(generated) /\ RunInv(FallBackJob)
<1> DEFINE missing == Missing(job.existing)
<1>1. /\ job.existing \in Registries(generated - 1) /\ Own(job.existing)
      /\ generated \in Nat
  BY BatchFacts DEF TypeInv
<1>2. missing \subseteq DOMAIN flat.tools
  BY DEF Missing
<1>3. /\ missing \in SUBSET Tool /\ missing \subseteq Nat /\ IsFiniteSet(missing)
  BY <1>2, FlatFacts, FS_Subset
<1>4. Sorted(missing) \in Seq(Tool) /\ ToSet(Sorted(missing)) = missing
  BY <1>3, SortedProperties
<1>5. EmptyDict \in Registries(generated) /\ DOMAIN EmptyDict = {}
  BY <1>1, EmptyRegistry DEF EmptyDict
<1> HIDE DEF missing
<1>6. FallBackJob = [script |-> "sequential", queue |-> Sorted(missing),
                     existing |-> job.existing, reuse |-> FALSE, done |-> 0,
                     enriched |-> EmptyDict]
  BY DEF FallBackJob, missing
<1>7. FallBackJob \in SequentialJob(generated)
  BY <1>1, <1>4, <1>5, <1>6 DEF SequentialJob
<1>8. FromRun(EmptyDict, flat.tools, job.existing, generated)
  BY <1>5 DEF FromRun
<1>9. 0 <= Len(Sorted(missing))
  BY <1>4
<1>10. RunInv(FallBackJob)
  BY <1>1, <1>2, <1>4, <1>6, <1>8, <1>9 DEF RunInv, missing
<1> QED BY <1>7, <1>10 DEF AllJobs

LEMMA BatchStageStep ==
  ASSUME TypeInv, ExampleInv, SubmitBatch \/ PollBatch
  PROVE  TypeInv' /\ ExampleInv'
<1>1. /\ UNCHANGED <<sdk, flat, merged, allowlist, server, generated, consent>>
      /\ job.script = "batch"
      /\ \/ \E stage \in {"polling", "completed"} : job' = [job EXCEPT !.stage = stage]
         \/ job' = FallBackJob
  BY DEF SubmitBatch, PollBatch, bounds, files, history
<1>2. job \in BatchJob(generated) /\ flat.whole /\ Own(job.existing)
  BY <1>1, BatchFacts
<1>3. ASSUME NEW stage \in {"polling", "completed"}, job' = [job EXCEPT !.stage = stage]
      PROVE  job' \in AllJobs(generated) /\ RunInv(job')
  <2>1. /\ job' \in BatchJob(generated) /\ job'.script = "batch"
        /\ job'.existing = job.existing
    BY <1>2, <1>3 DEF BatchJob
  <2> QED BY <1>2, <2>1 DEF RunInv, AllJobs
<1>4. CASE job' = FallBackJob
  BY <1>1, <1>2, <1>4, FallBackIsFine, RunGoesOn
<1> QED BY <1>1, <1>2, <1>3, <1>4, RunGoesOn

LEMMA ApplyResultsStep ==
  ASSUME TypeInv, ExampleInv, ApplyResults
  PROVE  TypeInv' /\ ExampleInv'
<1> DEFINE missing == Missing(job.existing)
           contents(results) == ResultsById(results, missing)
           entry(results, t) ==
             [mutates |-> flat.tools[t],
              examples |-> IF t \in DOMAIN contents(results)
                           THEN ExamplesFor(contents(results)[t], generated)
                           ELSE NoExamples]
           tools(results) == [t \in DOMAIN flat.tools |->
             IF t \notin missing THEN Reused(job.existing)[t] ELSE entry(results, t)]
<1>1. /\ UNCHANGED <<sdk, flat, allowlist, server, generated, consent>>
      /\ job.script = "batch"
  BY DEF ApplyResults, bounds, history
<1>2. PICK results : Rewrite(merged, tools(results), NoJob)
  BY DEF ApplyResults
<1>3. /\ flat.whole /\ job.existing \in Registries(generated - 1)
      /\ Own(job.existing)
  BY <1>1, BatchFacts
<1>4. ASSUME NEW t \in DOMAIN flat.tools
      PROVE  /\ tools(results)[t] \in Entry(generated)
             /\ EntryFromRun(tools(results)[t], t, flat.tools, job.existing, generated)
  <2>1. CASE t \notin missing
    <3>1. tools(results)[t] = Reused(job.existing)[t]
      BY <2>1
    <3> QED BY <1>3, <2>1, <3>1, ReusedFacts DEF FromRun
  <2>2. CASE t \in missing
    <3>1. tools(results)[t] = entry(results, t)
      BY <2>2
    <3>2. t \in DOMAIN contents(results) => contents(results)[t] = t
      BY DEF ResultsById
    <3>3. PICK parses \in BOOLEAN :
                 entry(results, t) = [mutates |-> flat.tools[t],
                                      examples |-> Written(t, parses)]
      <4>1. CASE t \in DOMAIN contents(results)
        <5>1. entry(results, t) = [mutates |-> flat.tools[t],
                                   examples |-> Written(t, TRUE)]
          BY <3>2, <4>1 DEF Written
        <5> HIDE DEF entry
        <5> QED BY <5>1
      <4>2. CASE t \notin DOMAIN contents(results)
        <5>1. entry(results, t) = [mutates |-> flat.tools[t],
                                   examples |-> Written(t, FALSE)]
          BY <4>2 DEF Written
        <5> HIDE DEF entry
        <5> QED BY <5>1
      <4> QED BY <4>1, <4>2
    <3> HIDE DEF tools, entry
    <3>4. entry(results, t) = [mutates |-> flat.tools[t], examples |-> Written(t, parses)]
      BY <3>3
    <3>5. /\ entry(results, t) \in Entry(generated)
          /\ Written(t, parses) \in {NoExamples, ExamplesFor(t, generated)}
      BY <3>4, WrittenFacts
    <3>6. EntryFromRun(entry(results, t), t, flat.tools, job.existing, generated)
      BY <3>4, <3>5 DEF EntryFromRun
    <3> QED BY <3>1, <3>5, <3>6
  <2> QED BY <2>1, <2>2
<1>5. tools(results) = [t \in DOMAIN flat.tools |-> tools(results)[t]]
  OBVIOUS
<1> HIDE DEF tools
<1>6. /\ tools(results) \in Registries(generated)
      /\ FromRun(tools(results), flat.tools, job.existing, generated)
  BY <1>4, <1>5, RunEntries
<1> QED BY <1>1, <1>2, <1>3, <1>6, NoJobIsFine, RunSaves

LEMMA StartExamplesStep ==
  ASSUME TypeInv, ExampleInv, StartExamples
  PROVE  TypeInv' /\ ExampleInv'
<1> DEFINE sequential == [script |-> "sequential", queue |-> Sorted(DOMAIN flat.tools),
                          existing |-> Existing, reuse |-> TRUE, done |-> 0,
                          enriched |-> EmptyDict]
           batch == [script |-> "batch", stage |-> "split", existing |-> Existing]
<1>1. /\ UNCHANGED <<sdk, flat, merged, allowlist, server, consent>>
      /\ flat.whole /\ generated' = generated + 1
      /\ job' \in {sequential, batch}
  BY DEF StartExamples, files, history
<1>2. /\ generated \in Nat \ {0} /\ generated' \in Nat \ {0}
      /\ generated' - 1 = generated
      /\ merged.tools \in Registries(generated)
  BY <1>1 DEF TypeInv
<1>3. merged' \in [whole : BOOLEAN, tools : Registries(generated')]
  <2>1. merged.tools \in Registries(generated')
    BY <1>1, <1>2, LaterRegistries
  <2> QED BY <1>1, <2>1 DEF TypeInv
<1>4. Existing \in Registries(generated' - 1) /\ Own(Existing)
  <2>1. Existing \in {merged.tools, EmptyDict}
    BY DEF Existing
  <2>2. Own(merged.tools)
    BY DEF ExampleInv
  <2> QED BY <1>2, <2>1, <2>2, EmptyRegistry
<1>5. Sorted(DOMAIN flat.tools) \in Seq(Tool)
      /\ ToSet(Sorted(DOMAIN flat.tools)) = DOMAIN flat.tools
  BY FlatFacts, SortedProperties
<1>6. /\ EmptyDict \in Registries(generated')
      /\ FromRun(EmptyDict, flat.tools, Existing, generated')
  <2>1. DOMAIN EmptyDict = {}
    BY DEF EmptyDict
  <2> QED BY <1>2, <2>1, EmptyRegistry DEF FromRun
<1>7. 0 <= Len(Sorted(DOMAIN flat.tools))
  BY <1>5
<1>8. CASE job' = sequential
  <2>1. job' \in SequentialJob(generated')
    BY <1>4, <1>5, <1>6, <1>8 DEF SequentialJob
  <2>2. TypeInv'
    BY <1>1, <1>2, <1>3, <2>1 DEF TypeInv
  <2>3. RunInv(job)'
    BY <1>1, <1>4, <1>5, <1>6, <1>7, <1>8 DEF RunInv
  <2> QED BY <1>1, <2>2, <2>3 DEF ExampleInv
<1>9. CASE job' = batch
  <2>1. job' \in BatchJob(generated')
    BY <1>4, <1>9 DEF BatchJob
  <2>2. TypeInv'
    BY <1>1, <1>2, <1>3, <2>1 DEF TypeInv
  <2>3. RunInv(job)'
    BY <1>4, <1>9 DEF RunInv
  <2> QED BY <1>1, <2>2, <2>3 DEF ExampleInv
<1> QED BY <1>1, <1>8, <1>9

LEMMA UpgradeStep ==
  ASSUME TypeInv, ExampleInv, NEW release \in Release, Upgrade(release)
  PROVE  TypeInv' /\ ExampleInv'
<1>1. /\ UNCHANGED <<flat, merged, job, generated, allowlist, server, consent>>
      /\ sdk' = release
  BY DEF Upgrade, files, history
<1> QED BY <1>1, OtherStep DEF TypeInv

LEMMA KillStep ==
  ASSUME TypeInv, ExampleInv, Kill
  PROVE  TypeInv' /\ ExampleInv'
<1>1. /\ UNCHANGED <<sdk, flat, merged, allowlist, server, generated, consent>>
      /\ job' = NoJob
  BY DEF Kill, bounds, files, history
<1> QED BY <1>1, NoJobIsFine, RunGoesOn

LEMMA StartServerStep ==
  ASSUME TypeInv, ExampleInv, StartServer
  PROVE  TypeInv' /\ ExampleInv'
<1>1. UNCHANGED <<flat, merged, job, generated, allowlist, sdk, consent>>
  BY DEF StartServer, files, bounds, history
<1>2. DOMAIN server' \subseteq Tool
  <2>1. DOMAIN merged.tools \subseteq Tool
    BY RegistriesFacts DEF TypeInv
  <2>2. DOMAIN server' \subseteq DOMAIN merged.tools
    BY DEF StartServer, Selected, EmptyDict
  <2> QED BY <2>1, <2>2
<1> QED BY <1>1, <1>2, OtherStep DEF TypeInv

LEMMA StutterStep ==
  ASSUME TypeInv, ExampleInv, UNCHANGED vars
  PROVE  TypeInv' /\ ExampleInv'
<1>1. UNCHANGED <<flat, merged, job, generated, allowlist, sdk, server, consent>>
  BY DEF vars, files, bounds, history
<1> QED BY <1>1, OtherStep DEF TypeInv

LEMMA ExampleSteps ==
  ASSUME TypeInv, ExampleInv, Examples
  PROVE  TypeInv' /\ ExampleInv'
BY StartExamplesStep, ReuseExamplesStep, GenerateExamplesStep, LlmFailsStep,
   EndSequentialStep, NothingToGenerateStep, BatchStageStep, ApplyResultsStep
   DEF Examples

LEMMA ExamplesInit == Init => ExampleInv
<1>1. SUFFICES ASSUME Init PROVE ExampleInv
  OBVIOUS
<1> DEFINE first == Registry(FirstRelease)
<1>2. /\ job = NoJob
      /\ DOMAIN merged.tools = DOMAIN first
      /\ \A t \in DOMAIN first : merged.tools[t].mutates = first[t]
                              /\ merged.tools[t].examples = ExamplesFor(t, 1)
  BY <1>1 DEF Init, Whole
<1>3. FirstRelease \in Release
  BY SurfaceConstants
<1> HIDE DEF first
<1>4. OfOneRelease(merged.tools)
  BY <1>2, <1>3 DEF OfOneRelease, first
<1>5. \A t, u : /\ ExamplesFor(t, 1).of = t
                /\ ExamplesFor(t, 1) = ExamplesFor(u, 1) => t = u
  BY DEF ExamplesFor
<1>6. \A t : Renamed(t, t)
  BY DEF Renamed
<1>7. Own(merged.tools)
  BY <1>2, <1>5, <1>6 DEF Own
<1> QED BY <1>2, <1>4, <1>7, NoJobIsFine DEF ExampleInv
-----------------------------------------------------------------------------
(* The lines of an allowlist. *)

LEMMA LineFacts ==
  /\ \A line \in Line :
       /\ line.kind \in {"tool", "rationale", "module", "deprecated", "staged", "garbled"}
       /\ IsTool(line) => /\ line \in [kind : {"tool"}, id : Tool, active : BOOLEAN]
                          /\ ~IsHeader(line)
       /\ line.kind = "rationale" => line.id \in Tool
  /\ \A id \in Tool, active \in BOOLEAN :
       /\ ToolLine(id, active) \in Line /\ IsTool(ToolLine(id, active))
       /\ ToolLine(id, active).id = id /\ ToolLine(id, active).active = active
       /\ ~IsHeader(ToolLine(id, active))
  /\ \A id \in Tool : Rationale(id) \in Line /\ Rationale(id).kind = "rationale"
  /\ DeprecatedHeader \in Line /\ DeprecatedHeader.kind = "deprecated"
  /\ StagedHeader \in Line /\ StagedHeader.kind = "staged"
BY DEF Line, IsTool, IsHeader, ToolLine, Rationale, DeprecatedHeader, StagedHeader

\* The lines that expose something are told apart by what they expose.
LEMMA ExposingFacts ==
  ASSUME NEW lines
  PROVE  /\ \A t : ToolLine(t, TRUE) \in Exposing(lines) <=> t \in ActiveIds(lines)
         /\ \A m : ModuleLine(m) \in Exposing(lines) <=> m \in Modules(lines)
<1>1. \A t : ToolLine(t, TRUE).kind = "tool" /\ ToolLine(t, TRUE).id = t
  BY DEF ToolLine
<1>2. \A m : ModuleLine(m).kind = "module" /\ ModuleLine(m).module = m
  BY DEF ModuleLine
<1>3. \A e : e \in Exposing(lines) <=> \/ \E u \in ActiveIds(lines) : e = ToolLine(u, TRUE)
                                       \/ \E n \in Modules(lines) : e = ModuleLine(n)
  BY DEF Exposing
<1>4. ASSUME NEW t PROVE ToolLine(t, TRUE) \in Exposing(lines) <=> t \in ActiveIds(lines)
  <2>1. ASSUME ToolLine(t, TRUE) \in Exposing(lines) PROVE t \in ActiveIds(lines)
    <3>1. \A n : ToolLine(t, TRUE) # ModuleLine(n)
      BY <1>1, <1>2
    <3>2. PICK u \in ActiveIds(lines) : ToolLine(t, TRUE) = ToolLine(u, TRUE)
      BY <1>3, <2>1, <3>1
    <3>3. ToolLine(t, TRUE).id = t /\ ToolLine(u, TRUE).id = u
      BY <1>1
    <3> QED BY <3>2, <3>3
  <2> QED BY <2>1, <1>3
<1>5. ASSUME NEW m PROVE ModuleLine(m) \in Exposing(lines) <=> m \in Modules(lines)
  <2>1. ASSUME ModuleLine(m) \in Exposing(lines) PROVE m \in Modules(lines)
    <3>1. \A u : ModuleLine(m) # ToolLine(u, TRUE)
      BY <1>1, <1>2
    <3>2. PICK n \in Modules(lines) : ModuleLine(m) = ModuleLine(n)
      BY <1>3, <2>1, <3>1
    <3> QED BY <3>2, <1>2
  <2> QED BY <2>1, <1>3
<1> QED BY <1>4, <1>5

\* What a cut leaves of a line is no header, no active tool where there was none, and
\* nothing but the name of what it exposes.
LEMMA RemnantFacts ==
  ASSUME NEW line \in Line, NEW r \in Remnants(line)
  PROVE  /\ r \in Line /\ ~IsHeader(r)
         /\ IsTool(r) /\ r.active => IsTool(line) /\ line.active /\ r = ToolLine(r.id, TRUE)
         /\ r.kind = "module" => r = ModuleLine(r.module)
<1>1. CASE r = Garbled
  BY <1>1 DEF Garbled, Line, IsHeader, IsTool
<1>2. CASE \E t \in Tool : IsTool(line) /\ r = ToolLine(t, line.active)
  <2>1. PICK t \in Tool : IsTool(line) /\ r = ToolLine(t, line.active)
    BY <1>2
  <2>2. line.active \in BOOLEAN
    BY <2>1, LineFacts
  <2>3. r \in Line /\ IsTool(r) /\ r.id = t /\ r.active = line.active /\ ~IsHeader(r)
    BY <2>1, <2>2, LineFacts
  <2>4. r.kind # "module"
    BY <2>3 DEF IsTool
  <2>5. r.active => r = ToolLine(r.id, TRUE)
    BY <2>1, <2>2, <2>3
  <2> QED BY <2>1, <2>3, <2>4, <2>5
<1>3. CASE \E m \in Module : r = ModuleLine(m)
  BY <1>3 DEF ModuleLine, Line, IsHeader, IsTool
<1> QED BY <1>1, <1>2, <1>3 DEF Remnants

LEMMA CommentedFacts ==
  ASSUME NEW line \in Line, IsTool(line)
  PROVE  /\ Commented(line) \in Line /\ Commented(line).kind = "tool"
         /\ Commented(line).id = line.id /\ Commented(line).active = FALSE
<1>1. line \in [kind : {"tool"}, id : Tool, active : BOOLEAN]
  BY LineFacts
<1>2. /\ Commented(line) \in [kind : {"tool"}, id : Tool, active : BOOLEAN]
      /\ Commented(line).id = line.id /\ Commented(line).active = FALSE
      /\ Commented(line).kind = "tool"
  BY <1>1 DEF Commented
<1> QED BY <1>2 DEF Line

\* What lines say depends on which there are, and not on where.
LEMMA SaidByLines ==
  ASSUME NEW lines
  PROVE  /\ \A id : id \in Mentioned(lines) <=>
                      \E line \in ToSet(lines) : IsTool(line) /\ line.id = id
         /\ \A id : id \in ActiveIds(lines) <=>
                      \E line \in ToSet(lines) : IsTool(line) /\ line.active /\ line.id = id
         /\ \A m : m \in Modules(lines) <=>
                     \E line \in ToSet(lines) : line.kind = "module" /\ line.module = m
BY DEF Mentioned, ActiveIds, Modules, ToSet

LEMMA MentionsTools ==
  ASSUME NEW lines \in Seq(Line)
  PROVE  Mentioned(lines) \subseteq Tool /\ ActiveIds(lines) \subseteq Mentioned(lines)
<1>1. \A line \in ToSet(lines) : line \in Line
  BY DEF ToSet
<1>2. \A line \in Line : IsTool(line) => line.id \in Tool
  BY LineFacts
<1> QED BY <1>1, <1>2, SaidByLines

LEMMA LinesInSeq ==
  ASSUME NEW lines \in Seq(Line)
  PROVE  /\ ToSet(lines) \subseteq Line
         /\ \A i \in 1..Len(lines) : lines[i] \in Line /\ lines[i] \in ToSet(lines)
         /\ \A line \in ToSet(lines) : \E i \in 1..Len(lines) : lines[i] = line
BY DEF ToSet
-----------------------------------------------------------------------------
(* LinesAt: the lines a loop keeps. *)

LEMMA LinesAtRecursion ==
  ASSUME NEW lines \in Seq(Line), NEW places
  PROVE  \E f \in [0..Len(lines) -> Seq(Line)] :
           /\ f[0] = <<>>
           /\ \A n \in 1..Len(lines) :
                f[n] = IF n \in places THEN Append(f[n - 1], lines[n]) ELSE f[n - 1]
           /\ LinesAt(lines, places) = f[Len(lines)]
<1> DEFINE N == Len(lines)
           step == [p \in Seq(Line) \X (1..N) |->
                      IF p[2] \in places THEN Append(p[1], lines[p[2]]) ELSE p[1]]
           Is(g) == g = [n \in 0..N |-> IF n = 0 THEN <<>>
                                        ELSE IF n \in places THEN Append(g[n - 1], lines[n])
                                        ELSE g[n - 1]]
           f == CHOOSE g : Is(g)
           base == <<>>
           S == Seq(Line)
<1>1. N \in Nat /\ base \in S
  OBVIOUS
<1>2. step \in [S \X (1..N) -> S]
  OBVIOUS
<1>3. \A s \in S, n \in 1..N :
        step[<<s, n>>] = IF n \in places THEN Append(s, lines[n]) ELSE s
  OBVIOUS
<1> HIDE DEF step, N, base, S
<1>4. PICK g : Solves(g, S, N, base, step)
  BY <1>1, <1>2, Recursion
<1>5. /\ 0 \in 0..N
      /\ \A n \in 1..N : n \in 0..N /\ n # 0 /\ n - 1 \in 0..N
      /\ \A n \in 0..N : n = 0 \/ n \in 1..N
  BY <1>1
<1>6. \A n \in 1..N : g[n - 1] \in S
  BY <1>4, <1>5 DEF Solves
<1>7. \A n \in 1..N : g[n] = IF n \in places THEN Append(g[n - 1], lines[n]) ELSE g[n - 1]
  BY <1>3, <1>4, <1>6 DEF Solves
<1>8. Is(g)
  <2>1. \A n \in 0..N : g[n] = IF n = 0 THEN base
                               ELSE IF n \in places THEN Append(g[n - 1], lines[n])
                               ELSE g[n - 1]
    BY <1>4, <1>5, <1>7 DEF Solves
  <2>2. DOMAIN g = 0..N /\ g = [n \in 0..N |-> g[n]]
    BY <1>4 DEF Solves
  <2> QED BY <2>1, <2>2 DEF base
<1>9. Is(f)
  BY <1>8
<1>10. LinesAt(lines, places) = f[N]
  BY DEF LinesAt, N
<1> HIDE DEF f
<1>11. /\ f[0] = base
       /\ f = [n \in 0..N |-> f[n]]
       /\ \A n \in 1..N : f[n] = IF n \in places THEN Append(f[n - 1], lines[n]) ELSE f[n - 1]
  <2>1. DOMAIN f = 0..N /\ f = [n \in 0..N |-> f[n]]
    BY <1>9
  <2>2. \A n \in 0..N : f[n] = IF n = 0 THEN base
                               ELSE IF n \in places THEN Append(f[n - 1], lines[n])
                               ELSE f[n - 1]
    BY <1>9 DEF base
  <2> QED BY <1>5, <2>1, <2>2
<1> DEFINE T == {n \in Nat : f[n] \in S}
<1>12. ASSUME NEW n \in 1..N, f[n - 1] \in S PROVE f[n] \in S
  <2>1. lines[n] \in Line
    BY DEF N
  <2>2. f[n] = IF n \in places THEN Append(f[n - 1], lines[n]) ELSE f[n - 1]
    BY <1>11
  <2> QED BY <1>12, <2>1, <2>2, AppendProperties DEF S
<1>13. \A n \in 0..N : n \in T
  <2>1. 0 \in T
    BY <1>1, <1>11
  <2>2. \A n \in 1..N : n - 1 \in T => n \in T
    BY <1>1, <1>12
  <2> HIDE DEF T
  <2> QED BY <1>1, <2>1, <2>2, BoundedInduction
<1>14. f \in [0..N -> S]
  BY <1>11, <1>13
<1> QED BY <1>10, <1>11, <1>14 DEF N, S, base

LEMMA LinesAtSet ==
  ASSUME NEW lines \in Seq(Line), NEW places
  PROVE  /\ LinesAt(lines, places) \in Seq(Line)
         /\ \A line : line \in ToSet(LinesAt(lines, places)) <=>
                        \E i \in 1..Len(lines) : i \in places /\ lines[i] = line
<1> DEFINE N == Len(lines)
<1>1. PICK f \in [0..N -> Seq(Line)] :
             /\ f[0] = <<>>
             /\ \A n \in 1..N :
                  f[n] = IF n \in places THEN Append(f[n - 1], lines[n]) ELSE f[n - 1]
             /\ LinesAt(lines, places) = f[N]
  BY LinesAtRecursion
<1> DEFINE Claim(n) == \A line : line \in ToSet(f[n]) <=>
                         \E i \in 1..n : i \in places /\ lines[i] = line
           T == {n \in Nat : Claim(n)}
<1>2. N \in Nat /\ \A n \in 1..N : lines[n] \in Line /\ n - 1 \in 0..N
  OBVIOUS
<1> HIDE DEF N
<1>3. 0 \in T
  BY <1>1 DEF ToSet
<1>4. ASSUME NEW n \in 1..N, n - 1 \in T PROVE n \in T
  <2>1. f[n - 1] \in Seq(Line) /\ lines[n] \in Line
    BY <1>1, <1>2
  <2>2. \A i : i \in 1..n <=> i \in 1..(n - 1) \/ i = n
    BY <1>2
  <2>3. CASE n \in places
    <3>1. f[n] = Append(f[n - 1], lines[n])
      BY <1>1, <2>3
    <3>2. ToSet(f[n]) = ToSet(f[n - 1]) \cup {lines[n]}
      BY <2>1, <3>1, AppendSet
    <3>3. Claim(n)
      BY <1>4, <2>2, <2>3, <3>2
    <3> QED BY <1>2, <3>3
  <2>4. CASE n \notin places
    <3>1. f[n] = f[n - 1]
      BY <1>1, <2>4
    <3>2. Claim(n)
      BY <1>4, <2>2, <2>4, <3>1
    <3> QED BY <1>2, <3>2
  <2> QED BY <2>3, <2>4
<1>5. \A n \in 0..N : n \in T
  <2> HIDE DEF T
  <2> QED BY <1>2, <1>3, <1>4, BoundedInduction
<1>6. Claim(N) /\ f[N] \in Seq(Line)
  BY <1>1, <1>2, <1>5
<1> QED BY <1>1, <1>6 DEF N

\* The places are those from a + 1 on that hold the lines of part.
Spells(lines, places, a, part) ==
  /\ a + Len(part) <= Len(lines)
  /\ \A i \in 1..Len(lines) : i \in places <=> a < i /\ i <= a + Len(part)
  /\ \A k \in 1..Len(part) : lines[a + k] = part[k]

LEMMA LinesAtRange ==
  ASSUME NEW lines \in Seq(Line), NEW places, NEW a \in Nat, NEW part \in Seq(Line),
         Spells(lines, places, a, part)
  PROVE  LinesAt(lines, places) = part
<1> DEFINE N == Len(lines)
           b == a + Len(part)
<1>1. PICK f \in [0..N -> Seq(Line)] :
             /\ f[0] = <<>>
             /\ \A n \in 1..N :
                  f[n] = IF n \in places THEN Append(f[n - 1], lines[n]) ELSE f[n - 1]
             /\ LinesAt(lines, places) = f[N]
  BY LinesAtRecursion
<1> DEFINE kept(n) == IF n <= a THEN 0 ELSE IF n <= b THEN n - a ELSE b - a
           Claim(n) == /\ Len(f[n]) = kept(n)
                       /\ \A k \in 1..kept(n) : f[n][k] = lines[a + k]
           T == {n \in Nat : Claim(n)}
<1>2. /\ N \in Nat /\ b \in Nat /\ a <= b /\ b <= N
      /\ \A n \in 1..N : lines[n] \in Line /\ n - 1 \in 0..N /\ n \in 0..N
      /\ \A n \in 1..N : n \in places <=> a < n /\ n <= b
  BY DEF Spells
<1>3. b - a = Len(part) /\ \A k \in 1..Len(part) : lines[a + k] = part[k]
  BY DEF Spells
<1> HIDE DEF N, b
<1>4. 0 \in T
  BY <1>1
<1>5. ASSUME NEW n \in 1..N, n - 1 \in T PROVE n \in T
  <2>1. f[n - 1] \in Seq(Line) /\ f[n] \in Seq(Line) /\ lines[n] \in Line
    BY <1>1, <1>2
  <2>2. /\ Len(f[n - 1]) = kept(n - 1)
        /\ \A k \in 1..kept(n - 1) : f[n - 1][k] = lines[a + k]
    BY <1>5
  <2>3. CASE a < n /\ n <= b
    <3>1. f[n] = Append(f[n - 1], lines[n])
      BY <1>1, <1>2, <2>3
    <3>2. kept(n) = n - a /\ kept(n - 1) = n - a - 1 /\ n - a \in Nat \ {0}
      BY <1>2, <2>3
    <3>3. /\ Len(f[n]) = Len(f[n - 1]) + 1
          /\ \A k \in 1..Len(f[n - 1]) : f[n][k] = f[n - 1][k]
          /\ f[n][Len(f[n - 1]) + 1] = lines[n]
      BY <2>1, <3>1, AppendProperties
    <3>4. ASSUME NEW k \in 1..(n - a) PROVE f[n][k] = lines[a + k]
      <4>1. CASE k = n - a
        <5>1. k = Len(f[n - 1]) + 1
          BY <1>2, <2>2, <3>2, <4>1
        <5>2. a + k = n
          BY <1>2, <4>1
        <5> QED BY <3>3, <5>1, <5>2
      <4>2. CASE k # n - a
        <5>1. k \in 1..(n - a - 1)
          BY <3>2, <4>2
        <5> QED BY <2>2, <3>2, <3>3, <5>1
      <4> QED BY <4>1, <4>2
    <3> QED BY <2>2, <3>2, <3>3, <3>4
  <2>4. CASE ~(a < n /\ n <= b)
    <3>1. f[n] = f[n - 1]
      BY <1>1, <1>2, <2>4
    <3>2. kept(n) = kept(n - 1)
      BY <1>2, <2>4
    <3> QED BY <2>2, <3>1, <3>2
  <2> QED BY <2>3, <2>4
<1>6. \A n \in 0..N : n \in T
  <2> HIDE DEF T
  <2> QED BY <1>2, <1>4, <1>5, BoundedInduction
<1>7. Claim(N)
  <2>1. N \in 0..N
    BY <1>2
  <2> HIDE DEF Claim
  <2> QED BY <1>6, <2>1
<1>8. kept(N) = b - a /\ f[N] \in Seq(Line)
  BY <1>1, <1>2
<1> HIDE DEF kept
<1>9. Len(f[N]) = Len(part) /\ \A k \in 1..Len(part) : f[N][k] = part[k]
  BY <1>3, <1>7, <1>8
<1>10. f[N] = part
  BY <1>8, <1>9, SeqEqual
<1> QED BY <1>1, <1>10
-----------------------------------------------------------------------------
(* Sections. *)

LEMMA MaxOfNaturals ==
  ASSUME NEW n \in Nat, NEW T, T \subseteq 0..n, T # {}
  PROVE  Max(T) \in T /\ \A y \in T : y <= Max(T)
<1> DEFINE U == {n - y : y \in T}
<1>1. U \subseteq Nat /\ U # {}
  <2>1. \A y \in T : n - y \in Nat
    OBVIOUS
  <2> QED BY <2>1, Zenon
<1>2. PICK u \in U : \A v \in U : u <= v
  BY <1>1, LeastNatural
<1>3. PICK x \in T : u = n - x
  BY <1>2
<1>4. ASSUME NEW y \in T PROVE y <= x
  <2>1. n - x <= n - y
    BY <1>2, <1>3
  <2> QED BY <2>1
<1>5. \E x1 \in T : \A y \in T : x1 >= y
  BY <1>4
<1>6. Max(T) \in T /\ \A y \in T : Max(T) >= y
  BY <1>5 DEF Max
<1>7. T \subseteq Int
  OBVIOUS
<1> QED BY <1>6, <1>7

\* A line is in the section whose header is the last one up to it.
IsLastHeader(lines, j, i) ==
  /\ j \in 1..i /\ IsHeader(lines[j])
  /\ \A m \in 1..i : IsHeader(lines[m]) => m <= j

LEMMA SectionFacts ==
  ASSUME NEW lines \in Seq(Line), NEW i \in 1..Len(lines)
  PROVE  /\ (\A m \in 1..i : ~IsHeader(lines[m])) => SectionOf(lines, i) = "live"
         /\ \A j : IsLastHeader(lines, j, i) => SectionOf(lines, i) = lines[j].kind
         /\ \/ \A m \in 1..i : ~IsHeader(lines[m])
            \/ \E j \in 1..i : IsLastHeader(lines, j, i)
         /\ SectionOf(lines, i) \in {"live", "deprecated", "staged"}
<1> DEFINE H == {j \in 1..i : IsHeader(lines[j])}
<1>1. SectionOf(lines, i) = IF H = {} THEN "live" ELSE lines[Max(H)].kind
  BY DEF SectionOf
<1>2. (\A m \in 1..i : ~IsHeader(lines[m])) => H = {}
  OBVIOUS
<1>3. H # {} => IsLastHeader(lines, Max(H), i)
  <2>1. SUFFICES ASSUME H # {} PROVE IsLastHeader(lines, Max(H), i)
    OBVIOUS
  <2>2. H \subseteq 0..Len(lines)
    OBVIOUS
  <2>3. Max(H) \in H /\ \A y \in H : y <= Max(H)
    <3> HIDE DEF H
    <3>1. Len(lines) \in Nat
      OBVIOUS
    <3> QED BY <2>1, <2>2, <3>1, MaxOfNaturals
  <2> QED BY <2>3 DEF IsLastHeader
<1>4. ASSUME NEW j, IsLastHeader(lines, j, i), H # {} PROVE j = Max(H)
  <2>1. j \in H /\ Max(H) \in H
    BY <1>3, <1>4 DEF IsLastHeader
  <2>2. j <= Max(H) /\ Max(H) <= j
    BY <1>3, <1>4, <2>1 DEF IsLastHeader
  <2>3. j \in Nat /\ Max(H) \in Nat
    BY <2>1
  <2> QED BY <2>2, <2>3
<1>5. \A j : IsLastHeader(lines, j, i) => H # {}
  BY DEF IsLastHeader
<1>6. H = {} => \A m \in 1..i : ~IsHeader(lines[m])
  OBVIOUS
<1>7. H # {} => lines[Max(H)].kind \in {"deprecated", "staged"}
  BY <1>3 DEF IsLastHeader, IsHeader
<1>8. H # {} => Max(H) \in 1..i
  BY <1>3 DEF IsLastHeader
<1> HIDE DEF H
<1> QED BY <1>1, <1>2, <1>3, <1>4, <1>5, <1>6, <1>7, <1>8
-----------------------------------------------------------------------------
(* The file that a reconcile writes: live lines, and two special sections. *)

File(live, deprecated, staged) ==
  live \o WithHeader(DeprecatedHeader, deprecated) \o WithHeader(StagedHeader, staged)

NoHeaders(lines) == \A line \in ToSet(lines) : ~IsHeader(line)

\* Section a consists of lines under their header, if there are any.
Headed(a, header, lines) ==
  \/ Len(a) = 0 /\ Len(lines) = 0
  \/ /\ Len(a) = Len(lines) + 1
     /\ a[1] = header
     /\ \A j \in 1..Len(lines) : a[j + 1] = lines[j]

LEMMA WithHeaderFacts ==
  ASSUME NEW lines \in Seq(Line), NEW header \in Line
  PROVE  /\ WithHeader(header, lines) \in Seq(Line)
         /\ Headed(WithHeader(header, lines), header, lines)
<1>1. CASE lines = <<>>
  BY <1>1 DEF WithHeader, Headed
<1>2. CASE lines # <<>>
  <2>1. <<header>> \in Seq(Line) /\ Len(<<header>>) = 1 /\ <<header>>[1] = header
    OBVIOUS
  <2>2. /\ <<header>> \o lines \in Seq(Line)
        /\ Len(<<header>> \o lines) = Len(<<header>>) + Len(lines)
        /\ \A i \in 1..(Len(<<header>>) + Len(lines)) :
             (<<header>> \o lines)[i] = IF i <= Len(<<header>>) THEN <<header>>[i]
                                        ELSE lines[i - Len(<<header>>)]
    BY <2>1, ConcatProperties
  <2>3. Len(lines) \in Nat /\ Len(<<header>>) + Len(lines) = Len(lines) + 1
    BY <2>1
  <2>4. WithHeader(header, lines) = <<header>> \o lines
    BY <1>2 DEF WithHeader
  <2>5. (<<header>> \o lines)[1] = header
    BY <2>1, <2>2, <2>3
  <2>6. ASSUME NEW j \in 1..Len(lines) PROVE (<<header>> \o lines)[j + 1] = lines[j]
    <3>1. j + 1 \in 1..(Len(lines) + 1) /\ ~(j + 1 <= 1) /\ (j + 1) - 1 = j
      OBVIOUS
    <3> QED BY <2>1, <2>2, <2>3, <3>1
  <2> QED BY <2>2, <2>3, <2>4, <2>5, <2>6 DEF Headed
<1> QED BY <1>1, <1>2

\* The places of the lines in file f: k live ones, d in DEPRECATED and g in the
\* staged section, with their headers.
Laid(f, live, deprecated, staged, k, d, g) ==
  /\ f \in Seq(Line) /\ Len(f) = k + d + g
  /\ k = Len(live) /\ \A i \in 1..k : f[i] = live[i]
  /\ \/ d = 0 /\ Len(deprecated) = 0
     \/ /\ d = Len(deprecated) + 1
        /\ f[k + 1] = DeprecatedHeader
        /\ \A j \in 1..Len(deprecated) : f[k + 1 + j] = deprecated[j]
  /\ \/ g = 0 /\ Len(staged) = 0
     \/ /\ g = Len(staged) + 1
        /\ f[k + d + 1] = StagedHeader
        /\ \A j \in 1..Len(staged) : f[k + d + 1 + j] = staged[j]

LEMMA FilePlaces ==
  ASSUME NEW live \in Seq(Line), NEW deprecated \in Seq(Line), NEW staged \in Seq(Line)
  PROVE  \E k, d, g \in Nat :
           Laid(File(live, deprecated, staged), live, deprecated, staged, k, d, g)
<1> DEFINE a == WithHeader(DeprecatedHeader, deprecated)
           b == WithHeader(StagedHeader, staged)
           c == live \o a
           f == c \o b
           k == Len(live)
           d == Len(a)
           g == Len(b)
           D == Len(deprecated)
           G == Len(staged)
<1>1. /\ a \in Seq(Line) /\ Headed(a, DeprecatedHeader, deprecated)
      /\ b \in Seq(Line) /\ Headed(b, StagedHeader, staged)
  BY LineFacts, WithHeaderFacts
<1>2. File(live, deprecated, staged) = f
  BY DEF File
<1> HIDE DEF a, b
<1>3. k \in Nat /\ d \in Nat /\ g \in Nat /\ D \in Nat /\ G \in Nat
  BY <1>1
<1>4. /\ k = Len(live) /\ d = Len(a) /\ g = Len(b)
      /\ D = Len(deprecated) /\ G = Len(staged)
  OBVIOUS
<1> HIDE DEF k, d, g, D, G
<1>5. /\ c \in Seq(Line) /\ Len(c) = k + d
      /\ \A i \in 1..(k + d) : c[i] = IF i <= k THEN live[i] ELSE a[i - k]
  <2>1. /\ c \in Seq(Line) /\ Len(c) = Len(live) + Len(a)
        /\ \A i \in 1..(Len(live) + Len(a)) :
             c[i] = IF i <= Len(live) THEN live[i] ELSE a[i - Len(live)]
    BY <1>1, ConcatProperties
  <2> QED BY <1>4, <2>1
<1> HIDE DEF c
<1>6. /\ f \in Seq(Line) /\ Len(f) = k + d + g
      /\ \A i \in 1..(k + d + g) : f[i] = IF i <= k + d THEN c[i] ELSE b[i - (k + d)]
  <2>1. /\ f \in Seq(Line) /\ Len(f) = Len(c) + Len(b)
        /\ \A i \in 1..(Len(c) + Len(b)) : f[i] = IF i <= Len(c) THEN c[i] ELSE b[i - Len(c)]
    BY <1>1, <1>5, ConcatProperties
  <2> QED BY <1>4, <1>5, <2>1
<1> HIDE DEF f
<1>7. ASSUME NEW i \in 1..k PROVE f[i] = live[i]
  <2>1. i \in 1..(k + d + g) /\ i \in 1..(k + d) /\ i <= k + d /\ i <= k
    BY <1>3
  <2> QED BY <1>5, <1>6, <2>1
<1>8. ASSUME NEW j \in 1..d PROVE f[k + j] = a[j]
  <2>1. /\ k + j \in 1..(k + d + g) /\ k + j \in 1..(k + d) /\ k + j <= k + d
        /\ ~(k + j <= k) /\ (k + j) - k = j
    BY <1>3
  <2> QED BY <1>5, <1>6, <2>1
<1>9. ASSUME NEW j \in 1..g PROVE f[k + d + j] = b[j]
  <2>1. /\ k + d + j \in 1..(k + d + g) /\ ~(k + d + j <= k + d)
        /\ (k + d + j) - (k + d) = j
    BY <1>3
  <2> QED BY <1>6, <2>1
<1>10. ASSUME NEW j \in 1..D, d = D + 1
       PROVE  j + 1 \in 1..d /\ k + (j + 1) = k + 1 + j
  BY <1>3, <1>10
<1>11. ASSUME NEW j \in 1..G, g = G + 1
       PROVE  j + 1 \in 1..g /\ k + d + (j + 1) = k + d + 1 + j
  BY <1>3, <1>11
<1>12. ASSUME d = D + 1, a[1] = DeprecatedHeader,
              \A j \in 1..D : a[j + 1] = deprecated[j]
       PROVE  f[k + 1] = DeprecatedHeader /\ \A j \in 1..D : f[k + 1 + j] = deprecated[j]
  <2>1. 1 \in 1..d
    BY <1>3, <1>12
  <2>2. ASSUME NEW j \in 1..D PROVE f[k + 1 + j] = deprecated[j]
    <3>1. f[k + (j + 1)] = a[j + 1]
      BY <1>8, <1>10, <1>12
    <3> QED BY <1>10, <1>12, <3>1
  <2> QED BY <1>8, <1>12, <2>1, <2>2
<1>13. ASSUME g = G + 1, b[1] = StagedHeader,
              \A j \in 1..G : b[j + 1] = staged[j]
       PROVE  f[k + d + 1] = StagedHeader /\ \A j \in 1..G : f[k + d + 1 + j] = staged[j]
  <2>1. 1 \in 1..g
    BY <1>3, <1>13
  <2>2. ASSUME NEW j \in 1..G PROVE f[k + d + 1 + j] = staged[j]
    <3>1. f[k + d + (j + 1)] = b[j + 1]
      BY <1>9, <1>11, <1>13
    <3> QED BY <1>11, <1>13, <3>1
  <2> QED BY <1>9, <1>13, <2>1, <2>2
<1>14. \/ d = 0 /\ D = 0
       \/ /\ d = D + 1 /\ f[k + 1] = DeprecatedHeader
          /\ \A j \in 1..D : f[k + 1 + j] = deprecated[j]
  BY <1>1, <1>4, <1>12 DEF Headed
<1>15. \/ g = 0 /\ G = 0
       \/ /\ g = G + 1 /\ f[k + d + 1] = StagedHeader
          /\ \A j \in 1..G : f[k + d + 1 + j] = staged[j]
  BY <1>1, <1>4, <1>13 DEF Headed
<1>16. Laid(f, live, deprecated, staged, k, d, g)
  BY <1>4, <1>6, <1>7, <1>14, <1>15 DEF Laid
<1> QED BY <1>2, <1>3, <1>16

\* Which of them are headers, and the section of each.
LEMMA FileSections ==
  ASSUME NEW live \in Seq(Line), NEW deprecated \in Seq(Line), NEW staged \in Seq(Line),
         NoHeaders(live), NoHeaders(deprecated), NoHeaders(staged),
         NEW k \in Nat, NEW d \in Nat, NEW g \in Nat, NEW f,
         Laid(f, live, deprecated, staged, k, d, g)
  PROVE  /\ \A i \in 1..(k + d + g) : IsHeader(f[i]) <=> i = k + 1 \/ i = k + d + 1
         /\ \A i \in 1..k : SectionOf(f, i) = "live"
         /\ \A i \in (k + 1)..(k + d) : SectionOf(f, i) = "deprecated"
         /\ \A i \in (k + d + 1)..(k + d + g) : SectionOf(f, i) = "staged"
<1>1. /\ f \in Seq(Line) /\ Len(f) = k + d + g
      /\ k = Len(live) /\ \A i \in 1..k : f[i] = live[i]
  BY DEF Laid
<1> DEFINE D == Len(deprecated)
           G == Len(staged)
<1>1a. /\ D \in Nat /\ G \in Nat
       /\ \A i \in 1..D : deprecated[i] \in ToSet(deprecated)
       /\ \A i \in 1..G : staged[i] \in ToSet(staged)
  BY LinesInSeq
<1>1b. /\ d # 0 => /\ d = D + 1 /\ f[k + 1] = DeprecatedHeader
                  /\ \A i \in 1..D : f[k + 1 + i] = deprecated[i]
       /\ g # 0 => /\ g = G + 1 /\ f[k + d + 1] = StagedHeader
                  /\ \A i \in 1..G : f[k + d + 1 + i] = staged[i]
  BY Zenon DEF Laid
<1> HIDE DEF D, G
<1>2. ASSUME NEW i \in 1..k PROVE ~IsHeader(f[i])
  BY <1>1 DEF NoHeaders, ToSet
<1>3. ASSUME NEW j \in 1..d
      PROVE  /\ j = 1 => f[k + j].kind = "deprecated"
             /\ j # 1 => ~IsHeader(f[k + j])
  <2>1. /\ d = D + 1 /\ f[k + 1] = DeprecatedHeader
        /\ \A i \in 1..D : f[k + 1 + i] = deprecated[i]
    <3>1. d # 0
      OBVIOUS
    <3> QED BY <1>1b, <3>1
  <2>2. CASE j = 1
    BY <2>1, <2>2, LineFacts
  <2>3. CASE j # 1
    <3>1. j - 1 \in 1..D /\ k + 1 + (j - 1) = k + j
      BY <1>1a, <2>1, <2>3
    <3>2. f[k + j] = deprecated[j - 1]
      BY <2>1, <3>1
    <3> QED BY <1>1a, <2>3, <3>1, <3>2 DEF NoHeaders
  <2> QED BY <2>2, <2>3
<1>4. ASSUME NEW j \in 1..g
      PROVE  /\ j = 1 => f[k + d + j].kind = "staged"
             /\ j # 1 => ~IsHeader(f[k + d + j])
  <2>1. /\ g = G + 1 /\ f[k + d + 1] = StagedHeader
        /\ \A i \in 1..G : f[k + d + 1 + i] = staged[i]
    <3>1. g # 0
      OBVIOUS
    <3> QED BY <1>1b, <3>1
  <2>2. CASE j = 1
    BY <2>1, <2>2, LineFacts
  <2>3. CASE j # 1
    <3>1. j - 1 \in 1..G /\ k + d + 1 + (j - 1) = k + d + j
      BY <1>1a, <2>1, <2>3
    <3>2. f[k + d + j] = staged[j - 1]
      BY <2>1, <3>1
    <3> QED BY <1>1a, <2>3, <3>1, <3>2 DEF NoHeaders
  <2> QED BY <2>2, <2>3
<1>5. ASSUME NEW i \in 1..(k + d + g)
      PROVE  \/ i \in 1..k
             \/ i - k \in 1..d /\ k + (i - k) = i
             \/ i - (k + d) \in 1..g /\ k + d + (i - (k + d)) = i
  OBVIOUS
<1>6. ASSUME NEW i \in 1..(k + d + g)
      PROVE  IsHeader(f[i]) <=> i = k + 1 \/ i = k + d + 1
  <2>1. CASE i \in 1..k
    BY <1>2, <2>1
  <2>2. CASE i - k \in 1..d /\ k + (i - k) = i
    <3>1. i = k + 1 <=> i - k = 1
      OBVIOUS
    <3>2. i # k + d + 1
      BY <2>2
    <3> QED BY <1>3, <2>2, <3>1, <3>2 DEF IsHeader
  <2>3. CASE i - (k + d) \in 1..g /\ k + d + (i - (k + d)) = i
    <3>1. i = k + d + 1 <=> i - (k + d) = 1
      OBVIOUS
    <3>2. i = k + 1 => i = k + d + 1
      BY <2>3
    <3> QED BY <1>4, <2>3, <3>1, <3>2 DEF IsHeader
  <2> QED BY <1>5, <2>1, <2>2, <2>3
<1>7. ASSUME NEW i \in 1..k PROVE SectionOf(f, i) = "live"
  <2>1. i \in 1..Len(f) /\ \A m \in 1..i : ~IsHeader(f[m])
    BY <1>1, <1>2
  <2> QED BY <1>1, <2>1, SectionFacts
<1>8. ASSUME NEW i \in (k + 1)..(k + d) PROVE SectionOf(f, i) = "deprecated"
  <2>1. /\ i \in 1..Len(f) /\ k + 1 \in 1..i /\ k + 1 \in 1..(k + d + g)
        /\ 1 \in 1..d
    BY <1>1
  <2>2. \A m \in 1..i : m \in 1..(k + d + g) /\ m # k + d + 1
    OBVIOUS
  <2>3. IsLastHeader(f, k + 1, i)
    <3>1. \A m \in 1..i : IsHeader(f[m]) => m <= k + 1
      BY <1>6, <2>2
    <3> QED BY <1>6, <2>1, <3>1 DEF IsLastHeader
  <2>4. f[k + 1].kind = "deprecated"
    BY <1>3, <2>1
  <2> QED BY <1>1, <2>1, <2>3, <2>4, SectionFacts
<1>9. ASSUME NEW i \in (k + d + 1)..(k + d + g) PROVE SectionOf(f, i) = "staged"
  <2>1. /\ i \in 1..Len(f) /\ k + d + 1 \in 1..i /\ k + d + 1 \in 1..(k + d + g)
        /\ 1 \in 1..g
    BY <1>1
  <2>2. \A m \in 1..i : m \in 1..(k + d + g)
    OBVIOUS
  <2>3. IsLastHeader(f, k + d + 1, i)
    <3>1. \A m \in 1..i : IsHeader(f[m]) => m <= k + d + 1
      BY <1>6, <2>2
    <3> QED BY <1>6, <2>1, <3>1 DEF IsLastHeader
  <2>4. f[k + d + 1].kind = "staged"
    BY <1>4, <2>1
  <2> QED BY <1>1, <2>1, <2>3, <2>4, SectionFacts
<1> QED BY <1>6, <1>7, <1>8, <1>9

\* The next reconcile reads back the parts that this one wrote.
LEMMA FileParts ==
  ASSUME NEW live \in Seq(Line), NEW deprecated \in Seq(Line), NEW staged \in Seq(Line),
         NoHeaders(live), NoHeaders(deprecated), NoHeaders(staged)
  PROVE  /\ File(live, deprecated, staged) \in Seq(Line)
         /\ Section(File(live, deprecated, staged), "live") = live
         /\ Section(File(live, deprecated, staged), "deprecated") = deprecated
         /\ Section(File(live, deprecated, staged), "staged") = staged
<1> DEFINE f == File(live, deprecated, staged)
           at(name) == {i \in DOMAIN f : SectionOf(f, i) = name /\ ~IsHeader(f[i])}
<1>1. PICK k \in Nat, d \in Nat, g \in Nat : Laid(f, live, deprecated, staged, k, d, g)
  BY FilePlaces
<1>2. /\ f \in Seq(Line) /\ Len(f) = k + d + g /\ DOMAIN f = 1..(k + d + g)
      /\ k = Len(live) /\ \A i \in 1..k : f[i] = live[i]
  BY <1>1 DEF Laid
<1>3. /\ \A i \in 1..(k + d + g) : IsHeader(f[i]) <=> i = k + 1 \/ i = k + d + 1
      /\ \A i \in 1..k : SectionOf(f, i) = "live"
      /\ \A i \in (k + 1)..(k + d) : SectionOf(f, i) = "deprecated"
      /\ \A i \in (k + d + 1)..(k + d + g) : SectionOf(f, i) = "staged"
  BY <1>1, FileSections
<1>4. \A name : Section(f, name) = LinesAt(f, at(name))
  BY DEF Section
<1>5. /\ (d = 0 /\ Len(deprecated) = 0) \/ d = Len(deprecated) + 1
      /\ (g = 0 /\ Len(staged) = 0) \/ g = Len(staged) + 1
      /\ Len(deprecated) \in Nat /\ Len(staged) \in Nat
  BY <1>1 DEF Laid
<1>6. /\ d # 0 => \A j \in 1..Len(deprecated) : f[k + 1 + j] = deprecated[j]
      /\ g # 0 => \A j \in 1..Len(staged) : f[k + d + 1 + j] = staged[j]
  BY <1>1 DEF Laid
<1> HIDE DEF f
<1>7. \A i \in 1..(k + d + g) :
        /\ i \in 1..k \/ i \in (k + 1)..(k + d) \/ i \in (k + d + 1)..(k + d + g)
        /\ (i = k + 1 => ~(i \in 1..k)) /\ (i = k + d + 1 => ~(i \in 1..k))
  OBVIOUS
<1>8. /\ \A i \in 1..(k + d + g) : i \in at("live") <=> i \in 1..k
      /\ \A i \in 1..(k + d + g) : i \in at("deprecated") <=>
                                     i \in (k + 1)..(k + d) /\ ~IsHeader(f[i])
      /\ \A i \in 1..(k + d + g) : i \in at("staged") <=>
                                     i \in (k + d + 1)..(k + d + g) /\ ~IsHeader(f[i])
  BY <1>2, <1>3, <1>7
<1> HIDE DEF at
<1>9. Section(f, "live") = live
  <2>1. /\ 0 + Len(live) = k /\ k <= k + d + g
        /\ \A i \in 1..(k + d + g) : i \in 1..k <=> 0 < i /\ i <= 0 + Len(live)
        /\ \A i \in 1..Len(live) : f[0 + i] = live[i]
    BY <1>2
  <2>3. Spells(f, at("live"), 0, live)
    BY <1>2, <1>8, <2>1 DEF Spells
  <2>2. LinesAt(f, at("live")) = live
    BY <1>2, <2>3, LinesAtRange
  <2> QED BY <1>4, <2>2
<1>10. Section(f, "deprecated") = deprecated
  <2> DEFINE a == IF d = 0 THEN 0 ELSE k + 1
             b == IF d = 0 THEN 0 ELSE k + d
             D == Len(deprecated)
  <2>1. a \in Nat /\ b \in Nat /\ a <= b /\ b <= k + d + g /\ b - a = D
    BY <1>5
  <2>2. ASSUME NEW i \in 1..(k + d + g) PROVE i \in at("deprecated") <=> a < i /\ i <= b
    <3>1. IsHeader(f[i]) <=> i = k + 1 \/ i = k + d + 1
      BY <1>3
    <3>2. i \in (k + 1)..(k + d) /\ ~(i = k + 1 \/ i = k + d + 1) <=> a < i /\ i <= b
      OBVIOUS
    <3> QED BY <1>8, <3>1, <3>2
  <2>3. ASSUME NEW j \in 1..D PROVE f[a + j] = deprecated[j]
    <3>1. d # 0 /\ a + j = k + 1 + j
      BY <1>5
    <3> QED BY <1>6, <3>1
  <2> HIDE DEF a, b
  <2>4. a + Len(deprecated) = b
    BY <2>1
  <2>5. Spells(f, at("deprecated"), a, deprecated)
    BY <1>2, <2>1, <2>2, <2>3, <2>4 DEF Spells
  <2>6. LinesAt(f, at("deprecated")) = deprecated
    BY <1>2, <2>1, <2>5, LinesAtRange
  <2> QED BY <1>4, <2>6
<1>11. Section(f, "staged") = staged
  <2> DEFINE a == IF g = 0 THEN 0 ELSE k + d + 1
             b == IF g = 0 THEN 0 ELSE k + d + g
             G == Len(staged)
  <2>1. a \in Nat /\ b \in Nat /\ a <= b /\ b <= k + d + g /\ b - a = G
    BY <1>5
  <2>2. ASSUME NEW i \in 1..(k + d + g) PROVE i \in at("staged") <=> a < i /\ i <= b
    <3>1. IsHeader(f[i]) <=> i = k + 1 \/ i = k + d + 1
      BY <1>3
    <3>2. i \in (k + d + 1)..(k + d + g) /\ ~(i = k + 1 \/ i = k + d + 1) <=> a < i /\ i <= b
      OBVIOUS
    <3> QED BY <1>8, <3>1, <3>2
  <2>3. ASSUME NEW j \in 1..G PROVE f[a + j] = staged[j]
    <3>1. g # 0 /\ a + j = k + d + 1 + j
      BY <1>5
    <3> QED BY <1>6, <3>1
  <2> HIDE DEF a, b
  <2>4. a + Len(staged) = b
    BY <2>1
  <2>5. Spells(f, at("staged"), a, staged)
    BY <1>2, <2>1, <2>2, <2>3, <2>4 DEF Spells
  <2>6. LinesAt(f, at("staged")) = staged
    BY <1>2, <2>1, <2>5, LinesAtRange
  <2> QED BY <1>4, <2>6
<1> QED BY <1>2, <1>9, <1>10, <1>11 DEF f

\* What is in a section, and that every line but a header is in one.
LEMMA SectionLines ==
  ASSUME NEW lines \in Seq(Line), NEW name
  PROVE  /\ Section(lines, name) \in Seq(Line)
         /\ \A line : line \in ToSet(Section(lines, name)) <=>
              \E i \in 1..Len(lines) :
                SectionOf(lines, i) = name /\ ~IsHeader(lines[i]) /\ lines[i] = line
         /\ NoHeaders(Section(lines, name))
         /\ ToSet(Section(lines, name)) \subseteq ToSet(lines)
<1> DEFINE places == {i \in DOMAIN lines : SectionOf(lines, i) = name /\ ~IsHeader(lines[i])}
<1>1. /\ LinesAt(lines, places) \in Seq(Line)
      /\ \A line : line \in ToSet(LinesAt(lines, places)) <=>
                     \E i \in 1..Len(lines) : i \in places /\ lines[i] = line
  <2> HIDE DEF places
  <2> QED BY LinesAtSet
<1>2. Section(lines, name) = LinesAt(lines, places)
  BY DEF Section
<1>3. \A line : line \in ToSet(Section(lines, name)) <=>
              \E i \in 1..Len(lines) :
                SectionOf(lines, i) = name /\ ~IsHeader(lines[i]) /\ lines[i] = line
  BY <1>1, <1>2
<1>4. NoHeaders(Section(lines, name))
  BY <1>3 DEF NoHeaders
<1>5. ToSet(Section(lines, name)) \subseteq ToSet(lines)
  BY <1>3, LinesInSeq
<1> QED BY <1>1, <1>2, <1>3, <1>4, <1>5

LEMMA EveryLineHasASection ==
  ASSUME NEW lines \in Seq(Line), NEW line \in ToSet(lines), ~IsHeader(line)
  PROVE  \/ line \in ToSet(Section(lines, "live"))
         \/ line \in ToSet(Section(lines, "deprecated"))
         \/ line \in ToSet(Section(lines, "staged"))
<1>1. PICK i \in 1..Len(lines) : lines[i] = line
  BY LinesInSeq
<1>2. SectionOf(lines, i) \in {"live", "deprecated", "staged"}
  BY SectionFacts
<1> QED BY <1>1, <1>2, SectionLines

LEMMA FileSet ==
  ASSUME NEW live \in Seq(Line), NEW deprecated \in Seq(Line), NEW staged \in Seq(Line)
  PROVE  /\ File(live, deprecated, staged) \in Seq(Line)
         /\ \A line : line \in ToSet(File(live, deprecated, staged)) =>
              \/ line \in ToSet(live) \/ line \in ToSet(deprecated)
              \/ line \in ToSet(staged) \/ IsHeader(line)
         /\ ToSet(live) \subseteq ToSet(File(live, deprecated, staged))
         /\ ToSet(deprecated) \subseteq ToSet(File(live, deprecated, staged))
         /\ ToSet(staged) \subseteq ToSet(File(live, deprecated, staged))
<1>1. ASSUME NEW header \in Line, IsHeader(header), NEW lines \in Seq(Line)
      PROVE  /\ WithHeader(header, lines) \in Seq(Line)
             /\ ToSet(lines) \subseteq ToSet(WithHeader(header, lines))
             /\ \A line \in ToSet(WithHeader(header, lines)) :
                  line \in ToSet(lines) \/ IsHeader(line)
  <2> DEFINE top == <<header>>
  <2>1. top \in Seq(Line) /\ ToSet(top) = {header}
    BY DEF ToSet
  <2>2. WithHeader(header, lines) \in {lines, top \o lines}
    BY DEF WithHeader
  <2> HIDE DEF top
  <2>3. top \o lines \in Seq(Line) /\ ToSet(top \o lines) = ToSet(top) \cup ToSet(lines)
    BY <2>1, ConcatSet
  <2> QED BY <1>1, <2>1, <2>2, <2>3
<1> DEFINE a == WithHeader(DeprecatedHeader, deprecated)
           b == WithHeader(StagedHeader, staged)
<1>2. /\ DeprecatedHeader \in Line /\ IsHeader(DeprecatedHeader)
      /\ StagedHeader \in Line /\ IsHeader(StagedHeader)
  BY LineFacts DEF IsHeader
<1>3. /\ a \in Seq(Line) /\ ToSet(deprecated) \subseteq ToSet(a)
      /\ \A line \in ToSet(a) : line \in ToSet(deprecated) \/ IsHeader(line)
  BY <1>1, <1>2
<1>4. /\ b \in Seq(Line) /\ ToSet(staged) \subseteq ToSet(b)
      /\ \A line \in ToSet(b) : line \in ToSet(staged) \/ IsHeader(line)
  BY <1>1, <1>2
<1> DEFINE c == live \o a
<1>5. File(live, deprecated, staged) = c \o b
  BY DEF File
<1> HIDE DEF a, b
<1>6. c \in Seq(Line) /\ ToSet(c) = ToSet(live) \cup ToSet(a)
  BY <1>3, ConcatSet
<1> HIDE DEF c
<1>7. c \o b \in Seq(Line) /\ ToSet(c \o b) = ToSet(c) \cup ToSet(b)
  BY <1>4, <1>6, ConcatSet
<1> QED BY <1>3, <1>4, <1>5, <1>6, <1>7
-----------------------------------------------------------------------------
(* The live lines: those that stay, and those that move to DEPRECATED. *)

Sorting == [kept : Seq(Line), dead : Seq(Line)]

\* What lies in DEPRECATED: tools that are commented out, and why they were.
Buried(line) == line.kind = "rationale" \/ (IsTool(line) /\ ~line.active)

\* A line stays, or it moves with the reason above it, if there is one.
Stays(r, line, kept, dead) == r.dead = dead /\ ToSet(r.kept) = ToSet(kept) \cup {line}

Moves(r, line, kept, dead) ==
  /\ \A other \in ToSet(kept) : other \in ToSet(r.kept) \/ other.kind = "rationale"
  /\ ToSet(r.kept) \subseteq ToSet(kept)
  /\ ToSet(dead) \cup {Commented(line)} \subseteq ToSet(r.dead)
  /\ \A other \in ToSet(r.dead) :
       other \in ToSet(dead) \/ other = Commented(line) \/ other.kind = "rationale"

LEMMA SortedLineFacts ==
  ASSUME NEW line \in Line, NEW kept \in Seq(Line), NEW dead \in Seq(Line), NEW registry
  PROVE  /\ SortedLine(line, kept, dead, registry) \in Sorting
         /\ ~IsDead(line, registry) =>
              Stays(SortedLine(line, kept, dead, registry), line, kept, dead)
         /\ IsDead(line, registry) =>
              Moves(SortedLine(line, kept, dead, registry), line, kept, dead)
<1> DEFINE r == SortedLine(line, kept, dead, registry)
<1>1. CASE ~IsDead(line, registry)
  <2>1. r = [kept |-> Append(kept, line), dead |-> dead]
    BY <1>1 DEF SortedLine
  <2>2. Append(kept, line) \in Seq(Line) /\ ToSet(Append(kept, line)) = ToSet(kept) \cup {line}
    BY AppendSet
  <2>3. r.kept = Append(kept, line) /\ r.dead = dead
    BY <2>1
  <2>4. r \in Sorting
    BY <2>1, <2>2 DEF Sorting
  <2> HIDE DEF r
  <2> QED BY <1>1, <2>2, <2>3, <2>4 DEF r, Stays
<1>2. CASE IsDead(line, registry)
  <2>1. Commented(line) \in Line
    BY <1>2, CommentedFacts DEF IsDead
  <2>2. CASE Annotated(kept)
    <3> DEFINE end == <<Last(kept), Commented(line)>>
    <3>1. r = [kept |-> Front(kept), dead |-> dead \o end]
      BY <1>2, <2>2 DEF SortedLine
    <3>2. /\ Front(kept) \in Seq(Line) /\ Last(kept) \in Line
          /\ ToSet(kept) = ToSet(Front(kept)) \cup {Last(kept)}
      BY <2>2, FrontLast DEF Annotated
    <3>3. end \in Seq(Line) /\ ToSet(end) = {Last(kept), Commented(line)}
      <4>1. end \in Seq(Line)
        BY <2>1, <3>2
      <4>2. ToSet(end) = {Last(kept), Commented(line)}
        <5>1. DOMAIN end = {1, 2} /\ end[1] = Last(kept) /\ end[2] = Commented(line)
          OBVIOUS
        <5> HIDE DEF end
        <5> QED BY <5>1 DEF ToSet
      <4> QED BY <4>1, <4>2
    <3> HIDE DEF end
    <3>4. dead \o end \in Seq(Line) /\ ToSet(dead \o end) = ToSet(dead) \cup ToSet(end)
      BY <3>3, ConcatSet
    <3>5. r.kept = Front(kept) /\ r.dead = dead \o end /\ r \in Sorting
      BY <3>1, <3>2, <3>4 DEF Sorting
    <3>6. Last(kept).kind = "rationale"
      BY <2>2 DEF Annotated
    <3> HIDE DEF r
    <3> QED BY <1>2, <3>2, <3>3, <3>4, <3>5, <3>6 DEF r, Moves
  <2>3. CASE ~Annotated(kept)
    <3>1. r = [kept |-> kept, dead |-> Append(dead, Commented(line))]
      BY <1>2, <2>3 DEF SortedLine
    <3>2. /\ Append(dead, Commented(line)) \in Seq(Line)
          /\ ToSet(Append(dead, Commented(line))) = ToSet(dead) \cup {Commented(line)}
      BY <2>1, AppendSet
    <3>3. r.kept = kept /\ r.dead = Append(dead, Commented(line)) /\ r \in Sorting
      BY <3>1, <3>2 DEF Sorting
    <3> HIDE DEF r
    <3> QED BY <1>2, <3>2, <3>3 DEF r, Moves
  <2> QED BY <2>2, <2>3
<1> QED BY <1>1, <1>2

LEMMA SortLiveRecursion ==
  ASSUME NEW lines \in Seq(Line), NEW registry
  PROVE  \E f \in [0..Len(lines) -> Sorting] :
           /\ f[0] = [kept |-> <<>>, dead |-> <<>>]
           /\ \A n \in 1..Len(lines) :
                f[n] = SortedLine(lines[n], f[n - 1].kept, f[n - 1].dead, registry)
           /\ SortLive(lines, registry) = f[Len(lines)]
<1> DEFINE N == Len(lines)
           step == [p \in Sorting \X (1..N) |->
                      SortedLine(lines[p[2]], p[1].kept, p[1].dead, registry)]
           base == [kept |-> <<>>, dead |-> <<>>]
           Is(g) == g = [n \in 0..N |->
                           IF n = 0 THEN base
                           ELSE SortedLine(lines[n], g[n - 1].kept, g[n - 1].dead, registry)]
           f == CHOOSE g : Is(g)
<1>1. N \in Nat /\ base \in Sorting
  BY DEF Sorting
<1>2. ASSUME NEW s \in Sorting, NEW n \in 1..N
      PROVE  SortedLine(lines[n], s.kept, s.dead, registry) \in Sorting
  <2>1. lines[n] \in Line /\ s.kept \in Seq(Line) /\ s.dead \in Seq(Line)
    BY DEF Sorting
  <2> QED BY <2>1, SortedLineFacts
<1>3. step \in [Sorting \X (1..N) -> Sorting]
  BY <1>2
<1>4. \A s \in Sorting, n \in 1..N :
        step[<<s, n>>] = SortedLine(lines[n], s.kept, s.dead, registry)
  OBVIOUS
<1> HIDE DEF step, N, base
<1>5. PICK g : Solves(g, Sorting, N, base, step)
  BY <1>1, <1>3, Recursion
<1>6. /\ 0 \in 0..N
      /\ \A n \in 1..N : n \in 0..N /\ n # 0 /\ n - 1 \in 0..N
      /\ \A n \in 0..N : n = 0 \/ n \in 1..N
  BY <1>1
<1>7. \A n \in 1..N : g[n - 1] \in Sorting
  BY <1>5, <1>6 DEF Solves
<1>8. \A n \in 1..N : g[n] = SortedLine(lines[n], g[n - 1].kept, g[n - 1].dead, registry)
  BY <1>4, <1>5, <1>7 DEF Solves
<1>9. Is(g)
  <2>1. \A n \in 0..N : g[n] =
          IF n = 0 THEN base
          ELSE SortedLine(lines[n], g[n - 1].kept, g[n - 1].dead, registry)
    BY <1>5, <1>6, <1>8 DEF Solves
  <2>2. DOMAIN g = 0..N /\ g = [n \in 0..N |-> g[n]]
    BY <1>5 DEF Solves
  <2> QED BY <2>1, <2>2
<1>10. Is(f)
  BY <1>9
<1>11. SortLive(lines, registry) = f[N]
  BY DEF SortLive, N, base
<1> HIDE DEF f
<1>12. /\ f[0] = base
       /\ f = [n \in 0..N |-> f[n]]
       /\ \A n \in 1..N :
            f[n] = SortedLine(lines[n], f[n - 1].kept, f[n - 1].dead, registry)
  <2>1. DOMAIN f = 0..N /\ f = [n \in 0..N |-> f[n]]
    BY <1>10
  <2>2. \A n \in 0..N : f[n] =
          IF n = 0 THEN base
          ELSE SortedLine(lines[n], f[n - 1].kept, f[n - 1].dead, registry)
    BY <1>10
  <2> QED BY <1>6, <2>1, <2>2
<1> DEFINE T == {n \in Nat : f[n] \in Sorting}
<1>13. \A n \in 0..N : n \in T
  <2>1. 0 \in T
    BY <1>1, <1>12
  <2>2. ASSUME NEW n \in 1..N, n - 1 \in T PROVE n \in T
    <3>1. f[n - 1] \in Sorting
      BY <2>2
    <3>2. f[n] \in Sorting
      BY <1>2, <1>12, <3>1
    <3>3. n \in Nat
      BY <1>1
    <3> QED BY <3>2, <3>3
  <2> HIDE DEF T
  <2> QED BY <1>1, <2>1, <2>2, BoundedInduction
<1>14. f \in [0..N -> Sorting]
  BY <1>12, <1>13
<1> QED BY <1>11, <1>12, <1>14 DEF N, base

\* What sorting the first n lines makes of them: lines that stay, none of them of a
\* tool that is gone, and lines that move, commented out; no tool line is lost.
Sorts(s, lines, n, registry) ==
  /\ \A line \in ToSet(s.kept) : line \in ToSet(lines) /\ ~IsDead(line, registry)
  /\ \A line \in ToSet(s.dead) : Buried(line)
  /\ \A i \in 1..n : IsTool(lines[i]) =>
       \/ IsDead(lines[i], registry) /\ Commented(lines[i]) \in ToSet(s.dead)
       \/ lines[i] \in ToSet(s.kept)

LEMMA SortsStep ==
  ASSUME NEW lines \in Seq(Line), NEW registry, NEW n \in 1..Len(lines),
         NEW s \in Sorting, Sorts(s, lines, n - 1, registry)
  PROVE  Sorts(SortedLine(lines[n], s.kept, s.dead, registry), lines, n, registry)
<1> DEFINE line == lines[n]
           r == SortedLine(line, s.kept, s.dead, registry)
<1>1. line \in Line /\ line \in ToSet(lines) /\ s.kept \in Seq(Line) /\ s.dead \in Seq(Line)
  BY LinesInSeq DEF Sorting
<1>2. \A i \in 1..n : i \in 1..(n - 1) \/ i = n
  OBVIOUS
<1>3. /\ \A other \in ToSet(s.kept) : other \in ToSet(lines) /\ ~IsDead(other, registry)
      /\ \A other \in ToSet(s.dead) : Buried(other)
      /\ \A i \in 1..(n - 1) : IsTool(lines[i]) =>
           \/ IsDead(lines[i], registry) /\ Commented(lines[i]) \in ToSet(s.dead)
           \/ lines[i] \in ToSet(s.kept)
  BY DEF Sorts
<1>4. CASE ~IsDead(line, registry)
  <2>1. ToSet(r.kept) = ToSet(s.kept) \cup {line} /\ r.dead = s.dead
    <3>1. Stays(r, line, s.kept, s.dead)
      BY <1>1, <1>4, SortedLineFacts
    <3> QED BY <3>1 DEF Stays
  <2> HIDE DEF r
  <2>2. \A other \in ToSet(r.kept) : other \in ToSet(lines) /\ ~IsDead(other, registry)
    BY <1>1, <1>3, <1>4, <2>1
  <2>3. \A other \in ToSet(r.dead) : Buried(other)
    BY <1>3, <2>1
  <2>4. ASSUME NEW i \in 1..n, IsTool(lines[i])
        PROVE  \/ IsDead(lines[i], registry) /\ Commented(lines[i]) \in ToSet(r.dead)
               \/ lines[i] \in ToSet(r.kept)
    BY <1>2, <1>3, <2>1, <2>4
  <2> QED BY <2>2, <2>3, <2>4 DEF Sorts, r
<1>5. CASE IsDead(line, registry)
  <2>1. /\ \A other \in ToSet(s.kept) : other \in ToSet(r.kept) \/ other.kind = "rationale"
        /\ ToSet(r.kept) \subseteq ToSet(s.kept)
        /\ ToSet(s.dead) \cup {Commented(line)} \subseteq ToSet(r.dead)
        /\ \A other \in ToSet(r.dead) :
             other \in ToSet(s.dead) \/ other = Commented(line) \/ other.kind = "rationale"
    <3>1. Moves(r, line, s.kept, s.dead)
      BY <1>1, <1>5, SortedLineFacts
    <3> QED BY <3>1 DEF Moves
  <2>2. Buried(Commented(line))
    BY <1>1, <1>5, CommentedFacts DEF Buried, IsDead, IsTool
  <2> HIDE DEF r
  <2>3. \A other \in ToSet(r.kept) : other \in ToSet(lines) /\ ~IsDead(other, registry)
    BY <1>3, <2>1
  <2>4. \A other \in ToSet(r.dead) : Buried(other)
    BY <1>3, <2>1, <2>2 DEF Buried
  <2>5. ASSUME NEW i \in 1..n, IsTool(lines[i])
        PROVE  \/ IsDead(lines[i], registry) /\ Commented(lines[i]) \in ToSet(r.dead)
               \/ lines[i] \in ToSet(r.kept)
    <3>1. lines[i].kind # "rationale"
      BY <2>5 DEF IsTool
    <3> QED BY <1>2, <1>3, <1>5, <2>1, <2>5, <3>1
  <2> QED BY <2>3, <2>4, <2>5 DEF Sorts, r
<1> QED BY <1>4, <1>5

LEMMA SortLiveFacts ==
  ASSUME NEW lines \in Seq(Line), NEW registry
  PROVE  /\ SortLive(lines, registry) \in Sorting
         /\ Sorts(SortLive(lines, registry), lines, Len(lines), registry)
<1> DEFINE N == Len(lines)
<1>1. PICK f \in [0..N -> Sorting] :
           /\ f[0] = [kept |-> <<>>, dead |-> <<>>]
           /\ \A n \in 1..N :
                f[n] = SortedLine(lines[n], f[n - 1].kept, f[n - 1].dead, registry)
           /\ SortLive(lines, registry) = f[N]
  BY SortLiveRecursion
<1> DEFINE T == {n \in Nat : Sorts(f[n], lines, n, registry)}
<1>2. /\ N \in Nat /\ N \in 0..N
      /\ \A n \in 1..N : n - 1 \in 0..N /\ n \in Nat
  OBVIOUS
<1>3. 0 \in T
  <2>1. f[0].kept = <<>> /\ f[0].dead = <<>>
    BY <1>1
  <2>2. ToSet(f[0].kept) = {} /\ ToSet(f[0].dead) = {}
    BY <2>1 DEF ToSet
  <2> QED BY <2>2 DEF Sorts
<1>4. ASSUME NEW n \in 1..N, n - 1 \in T PROVE n \in T
  <2>1. f[n - 1] \in Sorting /\ Sorts(f[n - 1], lines, n - 1, registry)
    BY <1>1, <1>2, <1>4
  <2>2. Sorts(SortedLine(lines[n], f[n - 1].kept, f[n - 1].dead, registry), lines, n, registry)
    BY <2>1, SortsStep
  <2>3. Sorts(f[n], lines, n, registry)
    BY <1>1, <2>2
  <2> QED BY <1>2, <2>3
<1>5. \A n \in 0..N : n \in T
  <2> HIDE DEF T, N
  <2> QED BY <1>2, <1>3, <1>4, BoundedInduction
<1>6. Sorts(f[N], lines, N, registry) /\ f[N] \in Sorting
  BY <1>1, <1>2, <1>5
<1> QED BY <1>1, <1>6

\* When no tool is gone, all stay, in their order.
LEMMA SortLiveStays ==
  ASSUME NEW lines \in Seq(Line), NEW registry,
         \A line \in ToSet(lines) : ~IsDead(line, registry)
  PROVE  SortLive(lines, registry).kept = lines /\ SortLive(lines, registry).dead = <<>>
<1> DEFINE N == Len(lines)
<1>1. PICK f \in [0..N -> Sorting] :
           /\ f[0] = [kept |-> <<>>, dead |-> <<>>]
           /\ \A n \in 1..N :
                f[n] = SortedLine(lines[n], f[n - 1].kept, f[n - 1].dead, registry)
           /\ SortLive(lines, registry) = f[N]
  BY SortLiveRecursion
<1> DEFINE Claim(n) == /\ f[n].dead = <<>> /\ Len(f[n].kept) = n
                       /\ \A k \in 1..n : f[n].kept[k] = lines[k]
           T == {n \in Nat : Claim(n)}
<1>2. /\ N \in Nat /\ N \in 0..N
      /\ \A n \in 1..N : n - 1 \in 0..N /\ n \in Nat /\ n \in 0..N
  OBVIOUS
<1>3. 0 \in T
  <2>1. f[0].kept = <<>> /\ f[0].dead = <<>>
    BY <1>1
  <2> QED BY <2>1
<1>4. ASSUME NEW n \in 1..N, n - 1 \in T PROVE n \in T
  <2>1. f[n - 1].kept \in Seq(Line) /\ lines[n] \in Line /\ lines[n] \in ToSet(lines)
    BY <1>1, <1>2, LinesInSeq DEF Sorting
  <2>2. f[n] = [kept |-> Append(f[n - 1].kept, lines[n]), dead |-> f[n - 1].dead]
    BY <1>1, <2>1 DEF SortedLine
  <2>3. f[n].kept = Append(f[n - 1].kept, lines[n]) /\ f[n].dead = f[n - 1].dead
    BY <2>2
  <2>4. f[n - 1].dead = <<>> /\ Len(f[n - 1].kept) = n - 1
        /\ \A k \in 1..(n - 1) : f[n - 1].kept[k] = lines[k]
    BY <1>4
  <2>5. /\ Len(f[n].kept) = (n - 1) + 1
        /\ \A k \in 1..(n - 1) : f[n].kept[k] = f[n - 1].kept[k]
        /\ f[n].kept[(n - 1) + 1] = lines[n]
    BY <2>1, <2>3, <2>4, AppendProperties
  <2>6. n \in Nat /\ (n - 1) + 1 = n /\ \A k \in 1..n : k \in 1..(n - 1) \/ k = n
    OBVIOUS
  <2>7. \A k \in 1..n : f[n].kept[k] = lines[k]
    BY <2>4, <2>5, <2>6
  <2> QED BY <2>3, <2>4, <2>5, <2>6, <2>7
<1>5. \A n \in 0..N : n \in T
  <2> HIDE DEF T, N
  <2> QED BY <1>2, <1>3, <1>4, BoundedInduction
<1>6. Claim(N) /\ f[N].kept \in Seq(Line)
  BY <1>1, <1>2, <1>5 DEF Sorting
<1>7. f[N].kept = lines
  BY <1>6, SeqEqual
<1> QED BY <1>1, <1>6, <1>7
-----------------------------------------------------------------------------
(* The staged lines: those whose tool is gone, those that wait, and new ones. *)

LEMMA DyingFacts ==
  ASSUME NEW staged \in Seq(Line), NEW registry
  PROVE  /\ Dying(staged, registry) \in Seq(Line)
         /\ \A line \in ToSet(Dying(staged, registry)) : Buried(line)
         /\ \A line \in ToSet(staged) : IsDead(line, registry) =>
              Commented(line) \in ToSet(Dying(staged, registry))
         /\ (\A line \in ToSet(staged) : ~IsDead(line, registry)) =>
              Dying(staged, registry) = <<>>
<1> DEFINE places == {i \in DOMAIN staged : IsDead(staged[i], registry)}
           dead == LinesAt(staged, places)
           d == [k \in DOMAIN dead |-> Commented(dead[k])]
<1>1. Dying(staged, registry) = d
  BY DEF Dying
<1>2. /\ dead \in Seq(Line)
      /\ \A line : line \in ToSet(dead) <=>
           \E i \in 1..Len(staged) : i \in places /\ staged[i] = line
  <2> HIDE DEF places
  <2> QED BY LinesAtSet
<1>3. \A i \in 1..Len(staged) : i \in places <=> IsDead(staged[i], registry)
  OBVIOUS
<1> HIDE DEF places, dead
<1>4. \A line : line \in ToSet(dead) <=> line \in ToSet(staged) /\ IsDead(line, registry)
  BY <1>2, <1>3, LinesInSeq
<1>5. ASSUME NEW k \in DOMAIN dead
      PROVE  dead[k] \in ToSet(dead) /\ Commented(dead[k]) \in Line /\ Buried(Commented(dead[k]))
  <2>1. dead[k] \in Line /\ dead[k] \in ToSet(dead)
    BY <1>2, LinesInSeq
  <2>2. IsTool(dead[k])
    BY <1>4, <2>1 DEF IsDead
  <2>3. Commented(dead[k]).kind = "tool" /\ Commented(dead[k]).active = FALSE
    BY <2>1, <2>2, CommentedFacts
  <2> QED BY <2>1, <2>2, <2>3, CommentedFacts DEF Buried, IsTool
<1>6. /\ Len(dead) \in Nat /\ DOMAIN dead = 1..Len(dead)
      /\ d \in [1..Len(dead) -> Line] /\ DOMAIN d = DOMAIN dead
      /\ \A k \in DOMAIN dead : d[k] = Commented(dead[k])
  BY <1>2, <1>5
<1>7. d \in Seq(Line)
  BY <1>6, SeqDef
<1> HIDE DEF d
<1>8. \A line \in ToSet(d) : Buried(line)
  BY <1>5, <1>6 DEF ToSet
<1>9. ASSUME NEW line \in ToSet(staged), IsDead(line, registry)
      PROVE  Commented(line) \in ToSet(d)
  <2>1. PICK k \in DOMAIN dead : dead[k] = line
    BY <1>4, <1>9 DEF ToSet
  <2> QED BY <1>6, <2>1 DEF ToSet
<1>10. ASSUME \A line \in ToSet(staged) : ~IsDead(line, registry) PROVE d = <<>>
  <2>1. ToSet(dead) = {}
    BY <1>4, <1>10
  <2>2. dead = <<>>
    <3>1. \A k \in 1..Len(dead) : dead[k] \in ToSet(dead)
      BY <1>2, LinesInSeq
    <3>2. Len(dead) = 0
      BY <1>6, <2>1, <3>1
    <3> QED BY <1>2, <3>2, EmptySeq
  <2>3. Len(d) = 0
    BY <1>6, <1>7, <2>2
  <2> QED BY <1>7, <2>3, EmptySeq
<1> QED BY <1>1, <1>7, <1>8, <1>9, <1>10

LEMMA WaitingFacts ==
  ASSUME NEW staged \in Seq(Line), NEW registry
  PROVE  /\ Waiting(staged, registry) \in Seq(Line)
         /\ \A line : line \in ToSet(Waiting(staged, registry)) <=>
                        line \in ToSet(staged) /\ ~IsDead(line, registry)
         /\ (\A line \in ToSet(staged) : ~IsDead(line, registry)) =>
              Waiting(staged, registry) = staged
<1> DEFINE places == {i \in DOMAIN staged : ~IsDead(staged[i], registry)}
<1>1. Waiting(staged, registry) = LinesAt(staged, places)
  BY DEF Waiting
<1>2. \A i \in 1..Len(staged) : i \in places <=> ~IsDead(staged[i], registry)
  OBVIOUS
<1> HIDE DEF places
<1>3. /\ LinesAt(staged, places) \in Seq(Line)
      /\ \A line : line \in ToSet(LinesAt(staged, places)) <=>
           \E i \in 1..Len(staged) : i \in places /\ staged[i] = line
  BY LinesAtSet
<1>4. \A line : line \in ToSet(LinesAt(staged, places)) <=>
                  line \in ToSet(staged) /\ ~IsDead(line, registry)
  BY <1>2, <1>3, LinesInSeq
<1>5. ASSUME \A line \in ToSet(staged) : ~IsDead(line, registry)
      PROVE  LinesAt(staged, places) = staged
  <2>1. \A i \in 1..Len(staged) : i \in places
    BY <1>2, <1>5, LinesInSeq
  <2>2. /\ 0 + Len(staged) = Len(staged)
        /\ \A i \in 1..Len(staged) : 0 < i /\ i <= Len(staged) /\ 0 + i = i
    OBVIOUS
  <2>3. Spells(staged, places, 0, staged)
    BY <2>1, <2>2 DEF Spells
  <2> QED BY <2>3, LinesAtRange
<1> QED BY <1>1, <1>3, <1>4, <1>5

\* The tools that nobody has heard of, and their lines.
NewIds(lines, registry) ==
  {t \in registry \ KnownIds(lines) : ModuleOf[t] \notin ExcludedModules}
LinesFor(batch) == [k \in DOMAIN batch |-> ToolLine(batch[k], FALSE)]

LEMMA LinesForFacts ==
  ASSUME NEW ids \in SUBSET Tool, IsFiniteSet(ids)
  PROVE  /\ LinesFor(Sorted(ids)) \in Seq(Line)
         /\ \A line \in ToSet(LinesFor(Sorted(ids))) :
              IsTool(line) /\ line.active = FALSE /\ line.id \in ids
         /\ \A id \in ids : ToolLine(id, FALSE) \in ToSet(LinesFor(Sorted(ids)))
         /\ ids = {} => LinesFor(Sorted(ids)) = <<>>
<1> DEFINE batch == Sorted(ids)
           l == LinesFor(batch)
<1>1. batch \in Seq(Tool) /\ ToSet(batch) = ids
  BY SortedProperties, SurfaceConstants
<1> HIDE DEF batch
<1>2. /\ Len(batch) \in Nat /\ DOMAIN batch = 1..Len(batch)
      /\ \A k \in DOMAIN batch : batch[k] \in Tool /\ batch[k] \in ids
      /\ \A id \in ids : \E k \in DOMAIN batch : batch[k] = id
  BY <1>1 DEF ToSet
<1>3. /\ DOMAIN l = DOMAIN batch
      /\ \A k \in DOMAIN batch : l[k] = ToolLine(batch[k], FALSE)
  BY DEF LinesFor
<1>4. \A k \in DOMAIN batch : /\ l[k] \in Line /\ IsTool(l[k])
                              /\ l[k].active = FALSE /\ l[k].id = batch[k]
  <2>1. \A id \in Tool : /\ ToolLine(id, FALSE) \in Line /\ IsTool(ToolLine(id, FALSE))
                         /\ ToolLine(id, FALSE).active = FALSE /\ ToolLine(id, FALSE).id = id
    BY LineFacts
  <2> HIDE DEF l
  <2>2. ASSUME NEW k \in DOMAIN batch
        PROVE  l[k] \in Line /\ IsTool(l[k]) /\ l[k].active = FALSE /\ l[k].id = batch[k]
    <3>1. l[k] = ToolLine(batch[k], FALSE) /\ batch[k] \in Tool
      BY <1>2, <1>3
    <3> QED BY <2>1, <3>1, Zenon
  <2> QED BY <2>2
<1>5. l \in Seq(Line)
  <2>1. l \in [1..Len(batch) -> Line]
    <3>1. \A k \in DOMAIN batch : ToolLine(batch[k], FALSE) \in Line
      BY <1>2, LineFacts
    <3> QED BY <1>2, <3>1 DEF LinesFor
  <2> QED BY <1>2, <2>1, SeqDef
<1> HIDE DEF l
<1>6. \A line \in ToSet(l) : IsTool(line) /\ line.active = FALSE /\ line.id \in ids
  BY <1>2, <1>3, <1>4 DEF ToSet
<1>7. \A id \in ids : ToolLine(id, FALSE) \in ToSet(l)
  BY <1>2, <1>3 DEF ToSet
<1>8. ids = {} => l = <<>>
  <2>1. SUFFICES ASSUME ids = {} PROVE l = <<>>
    OBVIOUS
  <2>2. Len(batch) = 0
    BY <1>2, <2>1
  <2>3. DOMAIN l = 1..0 /\ DOMAIN l = 1..Len(l) /\ Len(l) \in Nat
    BY <1>2, <1>3, <1>5, <2>2
  <2>4. Len(l) = 0
    BY <2>3
  <2> QED BY <1>5, <2>4, EmptySeq
<1> QED BY <1>5, <1>6, <1>7, <1>8 DEF l, batch
-----------------------------------------------------------------------------
(* The three parts of the file that reconcile_allowlist returns. *)

Kept(lines, registry) == SortLive(Section(lines, "live"), registry).kept
Gone(lines, registry) ==
  Section(lines, "deprecated") \o SortLive(Section(lines, "live"), registry).dead
    \o Dying(Section(lines, "staged"), registry)
Staged(lines, registry) ==
  Waiting(Section(lines, "staged"), registry) \o LinesFor(Sorted(NewIds(lines, registry)))

LEMMA ReconcileIsFile ==
  ASSUME NEW lines, NEW registry
  PROVE  Reconcile(lines, registry) =
           File(Kept(lines, registry), Gone(lines, registry), Staged(lines, registry))
BY DEF Reconcile, File, Kept, Gone, Staged, NewIds, LinesFor

LEMMA KeptFacts ==
  ASSUME NEW lines \in Seq(Line), NEW registry
  PROVE  /\ Kept(lines, registry) \in Seq(Line) /\ NoHeaders(Kept(lines, registry))
         /\ \A line \in ToSet(Kept(lines, registry)) :
              line \in ToSet(lines) /\ ~IsDead(line, registry)
<1> DEFINE live == Section(lines, "live")
           s == SortLive(live, registry)
<1>1. live \in Seq(Line) /\ NoHeaders(live) /\ ToSet(live) \subseteq ToSet(lines)
  BY SectionLines
<1> HIDE DEF live
<1>2. s \in Sorting /\ Sorts(s, live, Len(live), registry)
  BY <1>1, SortLiveFacts
<1> HIDE DEF s
<1>3. \A line \in ToSet(s.kept) : line \in ToSet(live) /\ ~IsDead(line, registry)
  BY <1>2 DEF Sorts
<1>4. Kept(lines, registry) = s.kept /\ s.kept \in Seq(Line)
  BY <1>2 DEF Kept, Sorting, s, live
<1> QED BY <1>1, <1>3, <1>4 DEF NoHeaders

LEMMA GoneFacts ==
  ASSUME NEW lines \in Seq(Line), NEW registry
  PROVE  /\ Gone(lines, registry) \in Seq(Line) /\ NoHeaders(Gone(lines, registry))
         /\ \A line \in ToSet(Gone(lines, registry)) :
              line \in ToSet(Section(lines, "deprecated")) \/ Buried(line)
         /\ ToSet(Section(lines, "deprecated")) \subseteq ToSet(Gone(lines, registry))
         /\ ToSet(SortLive(Section(lines, "live"), registry).dead)
              \subseteq ToSet(Gone(lines, registry))
         /\ ToSet(Dying(Section(lines, "staged"), registry)) \subseteq ToSet(Gone(lines, registry))
<1> DEFINE old == Section(lines, "deprecated")
           live == Section(lines, "live")
           staged == Section(lines, "staged")
           s == SortLive(live, registry)
           dying == Dying(staged, registry)
<1>1. /\ old \in Seq(Line) /\ NoHeaders(old)
      /\ live \in Seq(Line) /\ staged \in Seq(Line)
  BY SectionLines
<1> HIDE DEF live, staged, old
<1>2. s \in Sorting /\ Sorts(s, live, Len(live), registry)
  BY <1>1, SortLiveFacts
<1> HIDE DEF s
<1>3. s.dead \in Seq(Line) /\ \A line \in ToSet(s.dead) : Buried(line)
  BY <1>2 DEF Sorting, Sorts
<1>4. dying \in Seq(Line) /\ \A line \in ToSet(dying) : Buried(line)
  BY <1>1, DyingFacts
<1> HIDE DEF dying
<1>5. old \o s.dead \in Seq(Line) /\ ToSet(old \o s.dead) = ToSet(old) \cup ToSet(s.dead)
  BY <1>1, <1>3, ConcatSet
<1>6. /\ old \o s.dead \o dying \in Seq(Line)
      /\ ToSet(old \o s.dead \o dying) = ToSet(old \o s.dead) \cup ToSet(dying)
  <2> DEFINE c == old \o s.dead
  <2>1. c \in Seq(Line)
    BY <1>5
  <2> HIDE DEF c
  <2>2. c \o dying \in Seq(Line) /\ ToSet(c \o dying) = ToSet(c) \cup ToSet(dying)
    BY <1>4, <2>1, ConcatSet
  <2> QED BY <2>2 DEF c
<1>7. \A line : Buried(line) => ~IsHeader(line)
  BY DEF Buried, IsTool, IsHeader
<1>8. Gone(lines, registry) = old \o s.dead \o dying
  BY DEF Gone, old, s, live, dying, staged
<1> DEFINE g == old \o s.dead \o dying
<1>9. \A line \in ToSet(g) : line \in ToSet(old) \/ Buried(line)
  BY <1>3, <1>4, <1>5, <1>6
<1>10. NoHeaders(g)
  <2> HIDE DEF g
  <2> QED BY <1>1, <1>7, <1>9 DEF NoHeaders
<1>11. /\ ToSet(old) \subseteq ToSet(g) /\ ToSet(s.dead) \subseteq ToSet(g)
       /\ ToSet(dying) \subseteq ToSet(g)
  BY <1>5, <1>6
<1> QED BY <1>6, <1>8, <1>9, <1>10, <1>11 DEF old, s, live, dying, staged

LEMMA StagedFacts ==
  ASSUME NEW lines \in Seq(Line), NEW registry \in SUBSET Tool, IsFiniteSet(registry)
  PROVE  /\ Staged(lines, registry) \in Seq(Line) /\ NoHeaders(Staged(lines, registry))
         /\ \A line \in ToSet(Staged(lines, registry)) :
              /\ ~IsDead(line, registry)
              /\ line \in ToSet(lines) \/ (IsTool(line) /\ line.active = FALSE)
         /\ \A line \in ToSet(Section(lines, "staged")) :
              ~IsDead(line, registry) => line \in ToSet(Staged(lines, registry))
         /\ \A id \in NewIds(lines, registry) :
              ToolLine(id, FALSE) \in ToSet(Staged(lines, registry))
<1> DEFINE old == Section(lines, "staged")
           ids == NewIds(lines, registry)
           w == Waiting(old, registry)
           n == LinesFor(Sorted(ids))
<1>1. /\ old \in Seq(Line) /\ NoHeaders(old) /\ ToSet(old) \subseteq ToSet(lines)
  BY SectionLines
<1>2. ids \subseteq registry /\ ids \in SUBSET Tool /\ IsFiniteSet(ids)
  <2>1. ids \subseteq registry
    BY DEF NewIds
  <2> HIDE DEF ids
  <2> QED BY <2>1, FS_Subset
<1> HIDE DEF old, ids
<1>3. /\ w \in Seq(Line)
      /\ \A line : line \in ToSet(w) <=> line \in ToSet(old) /\ ~IsDead(line, registry)
  BY <1>1, WaitingFacts
<1>4. /\ n \in Seq(Line)
      /\ \A line \in ToSet(n) : IsTool(line) /\ line.active = FALSE /\ line.id \in ids
      /\ \A id \in ids : ToolLine(id, FALSE) \in ToSet(n)
  BY <1>2, LinesForFacts
<1> HIDE DEF w, n
<1>5. w \o n \in Seq(Line) /\ ToSet(w \o n) = ToSet(w) \cup ToSet(n)
  BY <1>3, <1>4, ConcatSet
<1>6. \A line \in ToSet(n) : ~IsDead(line, registry) /\ ~IsHeader(line)
  BY <1>2, <1>4 DEF IsDead, IsHeader, IsTool
<1>7. Staged(lines, registry) = w \o n
  BY DEF Staged, w, n, old, ids
<1>8. NoHeaders(w \o n)
  BY <1>1, <1>3, <1>5, <1>6 DEF NoHeaders
<1> QED BY <1>1, <1>3, <1>4, <1>5, <1>6, <1>7, <1>8 DEF old, ids
-----------------------------------------------------------------------------
(* What a reconcile does to the file. *)

LEMMA ReconcileType ==
  ASSUME NEW lines \in Seq(Line), NEW registry \in SUBSET Tool, IsFiniteSet(registry)
  PROVE  /\ Reconcile(lines, registry) \in Seq(Line)
         /\ Section(Reconcile(lines, registry), "live") = Kept(lines, registry)
         /\ Section(Reconcile(lines, registry), "deprecated") = Gone(lines, registry)
         /\ Section(Reconcile(lines, registry), "staged") = Staged(lines, registry)
         /\ \A line : line \in ToSet(Reconcile(lines, registry)) =>
              \/ line \in ToSet(Kept(lines, registry)) \/ line \in ToSet(Gone(lines, registry))
              \/ line \in ToSet(Staged(lines, registry)) \/ IsHeader(line)
         /\ ToSet(Kept(lines, registry)) \subseteq ToSet(Reconcile(lines, registry))
         /\ ToSet(Gone(lines, registry)) \subseteq ToSet(Reconcile(lines, registry))
         /\ ToSet(Staged(lines, registry)) \subseteq ToSet(Reconcile(lines, registry))
<1> DEFINE a == Kept(lines, registry)
           b == Gone(lines, registry)
           c == Staged(lines, registry)
           f == Reconcile(lines, registry)
<1>1. /\ a \in Seq(Line) /\ NoHeaders(a) /\ b \in Seq(Line) /\ NoHeaders(b)
      /\ c \in Seq(Line) /\ NoHeaders(c)
  BY KeptFacts, GoneFacts, StagedFacts
<1>2. f = File(a, b, c)
  BY ReconcileIsFile
<1> HIDE DEF a, b, c, f
<1>3. /\ Section(f, "live") = a /\ Section(f, "deprecated") = b /\ Section(f, "staged") = c
  BY <1>1, <1>2, FileParts
<1>4. f \in Seq(Line)
  BY <1>1, <1>2, FileSet
<1>5. \A line : line \in ToSet(File(a, b, c)) =>
              line \in ToSet(a) \/ line \in ToSet(b) \/ line \in ToSet(c) \/ IsHeader(line)
  BY <1>1, FileSet
<1>6. /\ ToSet(a) \subseteq ToSet(File(a, b, c)) /\ ToSet(b) \subseteq ToSet(File(a, b, c))
      /\ ToSet(c) \subseteq ToSet(File(a, b, c))
  BY <1>1, FileSet
<1> QED BY <1>2, <1>3, <1>4, <1>5, <1>6 DEF a, b, c, f

\* No tool line is lost,
LEMMA ReconcileKeepsTools ==
  ASSUME NEW lines \in Seq(Line), NEW registry \in SUBSET Tool, IsFiniteSet(registry),
         NEW line \in ToSet(lines), IsTool(line)
  PROVE  \/ line \in ToSet(Reconcile(lines, registry))
         \/ Commented(line) \in ToSet(Reconcile(lines, registry))
<1> DEFINE f == Reconcile(lines, registry)
           live == Section(lines, "live")
           staged == Section(lines, "staged")
           s == SortLive(live, registry)
<1>1. /\ ToSet(Kept(lines, registry)) \subseteq ToSet(f)
      /\ ToSet(Gone(lines, registry)) \subseteq ToSet(f)
      /\ ToSet(Staged(lines, registry)) \subseteq ToSet(f)
  BY ReconcileType
<1>2. /\ ToSet(Section(lines, "deprecated")) \subseteq ToSet(Gone(lines, registry))
      /\ ToSet(s.dead) \subseteq ToSet(Gone(lines, registry))
      /\ ToSet(Dying(staged, registry)) \subseteq ToSet(Gone(lines, registry))
  BY GoneFacts
<1>3. live \in Seq(Line) /\ staged \in Seq(Line)
  BY SectionLines
<1>4. Kept(lines, registry) = s.kept
  BY DEF Kept
<1>5. \A other \in ToSet(staged) :
        ~IsDead(other, registry) => other \in ToSet(Staged(lines, registry))
  BY StagedFacts
<1>6. \/ line \in ToSet(live) \/ line \in ToSet(Section(lines, "deprecated"))
      \/ line \in ToSet(staged)
  BY EveryLineHasASection DEF IsTool, IsHeader
<1> HIDE DEF f, live, staged
<1>7. CASE line \in ToSet(live)
  <2>1. Sorts(s, live, Len(live), registry)
    BY <1>3, SortLiveFacts
  <2> HIDE DEF s
  <2>2. PICK i \in 1..Len(live) : live[i] = line
    BY <1>3, <1>7, LinesInSeq
  <2>3. Commented(line) \in ToSet(s.dead) \/ line \in ToSet(s.kept)
    BY <2>1, <2>2 DEF Sorts
  <2> QED BY <1>1, <1>2, <1>4, <2>3 DEF f
<1>8. CASE line \in ToSet(Section(lines, "deprecated"))
  BY <1>1, <1>2, <1>8 DEF f
<1>9. CASE line \in ToSet(staged)
  <2>1. CASE ~IsDead(line, registry)
    BY <1>1, <1>5, <1>9, <2>1 DEF f
  <2>2. CASE IsDead(line, registry)
    <3>1. Commented(line) \in ToSet(Dying(staged, registry))
      BY <1>3, <1>9, <2>2, DyingFacts
    <3> QED BY <1>1, <1>2, <3>1 DEF f
  <2> QED BY <2>1, <2>2
<1> QED BY <1>6, <1>7, <1>8, <1>9

\* nothing that was mentioned is forgotten, and every tool is filed.
LEMMA ReconcileFiles ==
  ASSUME NEW lines \in Seq(Line), NEW registry \in SUBSET Tool, IsFiniteSet(registry)
  PROVE  /\ Mentioned(lines) \subseteq Mentioned(Reconcile(lines, registry))
         /\ \A t \in registry :
              ModuleOf[t] \notin ExcludedModules => t \in Mentioned(Reconcile(lines, registry))
<1> DEFINE f == Reconcile(lines, registry)
<1>1. ASSUME NEW id \in Mentioned(lines) PROVE id \in Mentioned(f)
  <2>1. PICK line \in ToSet(lines) : IsTool(line) /\ line.id = id
    BY SaidByLines
  <2>2. Commented(line).id = id /\ IsTool(Commented(line))
    BY <2>1, CommentedFacts, LinesInSeq DEF IsTool
  <2>3. line \in ToSet(f) \/ Commented(line) \in ToSet(f)
    BY <2>1, ReconcileKeepsTools
  <2> HIDE DEF f
  <2> QED BY <2>1, <2>2, <2>3, SaidByLines
<1>2. ASSUME NEW t \in registry, ModuleOf[t] \notin ExcludedModules PROVE t \in Mentioned(f)
  <2>1. CASE t \in Mentioned(lines)
    BY <1>1, <2>1
  <2>2. CASE t \notin Mentioned(lines)
    <3>1. t \in NewIds(lines, registry)
      BY <1>2, <2>2 DEF NewIds, KnownIds
    <3>2. ToolLine(t, FALSE) \in ToSet(f)
      BY <3>1, StagedFacts, ReconcileType
    <3>3. t \in Tool /\ IsTool(ToolLine(t, FALSE)) /\ ToolLine(t, FALSE).id = t
      <4>1. t \in Tool
        OBVIOUS
      <4> QED BY <4>1, LineFacts
    <3> HIDE DEF f
    <3> QED BY <3>2, <3>3, SaidByLines
  <2> QED BY <2>1, <2>2
<1> QED BY <1>1, <1>2

\* What is active afterwards was active before, and its tool is in the SDK; no
\* module is added.
LEMMA ReconcileExposesNothing ==
  ASSUME NEW lines \in Seq(Line), NEW registry \in SUBSET Tool, IsFiniteSet(registry),
         NothingDeprecatedIsActive(lines)
  PROVE  /\ ActiveIds(Reconcile(lines, registry)) \subseteq ActiveIds(lines) \cap registry
         /\ Modules(Reconcile(lines, registry)) \subseteq Modules(lines)
         /\ NothingDeprecatedIsActive(Reconcile(lines, registry))
<1> DEFINE f == Reconcile(lines, registry)
           old == Section(lines, "deprecated")
<1>1. \A line \in ToSet(old) : IsTool(line) => ~line.active
  BY SectionLines DEF NothingDeprecatedIsActive
<1>2. ToSet(old) \subseteq ToSet(lines)
  BY SectionLines
<1>3. \A line \in ToSet(Gone(lines, registry)) : line \in ToSet(old) \/ Buried(line)
  BY GoneFacts
<1>4. \A line \in ToSet(Gone(lines, registry)) : IsTool(line) => ~line.active
  BY <1>1, <1>3 DEF Buried, IsTool
<1>5. \A line \in ToSet(Kept(lines, registry)) :
        line \in ToSet(lines) /\ ~IsDead(line, registry)
  BY KeptFacts
<1>6. \A line \in ToSet(Staged(lines, registry)) :
        /\ ~IsDead(line, registry)
        /\ line \in ToSet(lines) \/ (IsTool(line) /\ line.active = FALSE)
  BY StagedFacts
<1>7. /\ f \in Seq(Line)
      /\ Section(f, "deprecated") = Gone(lines, registry)
      /\ \A line : line \in ToSet(f) =>
           \/ line \in ToSet(Kept(lines, registry)) \/ line \in ToSet(Gone(lines, registry))
           \/ line \in ToSet(Staged(lines, registry)) \/ IsHeader(line)
  BY ReconcileType
<1> HIDE DEF f, old
<1>8. ASSUME NEW line \in ToSet(f), IsTool(line), line.active
      PROVE  line \in ToSet(lines) /\ line.id \in registry
  <2>1. ~IsHeader(line)
    BY <1>8 DEF IsTool, IsHeader
  <2>2. line \notin ToSet(Gone(lines, registry))
    BY <1>4, <1>8
  <2>3. line \in ToSet(Kept(lines, registry)) \/ line \in ToSet(Staged(lines, registry))
    BY <1>7, <1>8, <2>1, <2>2
  <2>4. line \in ToSet(lines) /\ ~IsDead(line, registry)
    BY <1>5, <1>6, <1>8, <2>3
  <2> QED BY <1>8, <2>4 DEF IsDead
<1>9. ASSUME NEW line \in ToSet(f), line.kind = "module"
      PROVE  line \in ToSet(lines)
  <2>1. ~IsHeader(line) /\ ~Buried(line) /\ ~IsTool(line)
    BY <1>9 DEF IsTool, IsHeader, Buried
  <2> QED BY <1>2, <1>3, <1>5, <1>6, <1>7, <1>9, <2>1
<1>10. ASSUME NEW i \in 1..Len(f), IsTool(f[i]), f[i].active
       PROVE  SectionOf(f, i) # "deprecated"
  <2>1. SUFFICES ASSUME SectionOf(f, i) = "deprecated" PROVE FALSE
    OBVIOUS
  <2>2. ~IsHeader(f[i])
    BY <1>10 DEF IsTool, IsHeader
  <2>3. f[i] \in ToSet(Section(f, "deprecated"))
    BY <1>7, <2>1, <2>2, SectionLines
  <2> QED BY <1>4, <1>7, <1>10, <2>3
<1>11. ActiveIds(f) \subseteq ActiveIds(lines) \cap registry
  BY <1>8, SaidByLines
<1>12. Modules(f) \subseteq Modules(lines)
  BY <1>9, SaidByLines
<1>13. NothingDeprecatedIsActive(f)
  BY <1>7, <1>10 DEF NothingDeprecatedIsActive
<1> QED BY <1>11, <1>12, <1>13 DEF f

\* A second reconcile finds all in its place.
LEMMA ReconcileTwice ==
  ASSUME NEW lines \in Seq(Line), NEW registry \in SUBSET Tool, IsFiniteSet(registry)
  PROVE  Reconcile(Reconcile(lines, registry), registry) = Reconcile(lines, registry)
<1> DEFINE f == Reconcile(lines, registry)
           a == Kept(lines, registry)
           b == Gone(lines, registry)
           c == Staged(lines, registry)
<1>1. /\ f \in Seq(Line) /\ Section(f, "live") = a
      /\ Section(f, "deprecated") = b /\ Section(f, "staged") = c
  BY ReconcileType
<1>2. a \in Seq(Line) /\ \A line \in ToSet(a) : ~IsDead(line, registry)
  BY KeptFacts
<1>3. b \in Seq(Line)
  BY GoneFacts
<1>4. c \in Seq(Line) /\ \A line \in ToSet(c) : ~IsDead(line, registry)
  BY StagedFacts
<1>5. NewIds(f, registry) = {}
  BY ReconcileFiles DEF NewIds, KnownIds
<1>6. f = File(a, b, c)
  BY ReconcileIsFile
<1> HIDE DEF f, a, b, c
<1>7. Kept(f, registry) = a /\ SortLive(Section(f, "live"), registry).dead = <<>>
  BY <1>1, <1>2, SortLiveStays DEF Kept
<1>8. Gone(f, registry) = b
  <2>1. Dying(c, registry) = <<>>
    BY <1>4, DyingFacts
  <2>2. b \o <<>> = b
    BY <1>3, ConcatEmptySeq
  <2> QED BY <1>1, <1>7, <2>1, <2>2 DEF Gone
<1>9. Staged(f, registry) = c
  <2>1. Waiting(c, registry) = c
    BY <1>4, WaitingFacts
  <2>2. LinesFor(Sorted({})) = <<>>
    BY LinesForFacts, FS_EmptySet
  <2>3. c \o <<>> = c
    BY <1>4, ConcatEmptySeq
  <2> QED BY <1>1, <1>5, <2>1, <2>2, <2>3 DEF Staged
<1>10. Reconcile(f, registry) = f
  BY <1>6, <1>7, <1>8, <1>9, ReconcileIsFile
<1> QED BY <1>10 DEF f
-----------------------------------------------------------------------------
(* Edits, and a file that is cut short: the headers stay in their order. *)

\* Line j of r was line m[j] of s; up to line i, the headers of both are the same.
SameHeaders(r, s, m, i) ==
  /\ i \in 1..Len(r) /\ m[i] \in 1..Len(s)
  /\ \A j \in 1..i : IsHeader(r[j]) => m[j] \in 1..m[i] /\ s[m[j]] = r[j]
  /\ \A j \in 1..i : \A n \in 1..i : j <= n => m[j] <= m[n]
  /\ \A k \in 1..m[i] : IsHeader(s[k]) => \E j \in 1..i : IsHeader(r[j]) /\ m[j] = k

LEMMA SameSection ==
  ASSUME NEW r \in Seq(Line), NEW s \in Seq(Line), NEW m, NEW i, SameHeaders(r, s, m, i)
  PROVE  SectionOf(r, i) = SectionOf(s, m[i])
<1>1. /\ i \in 1..Len(r) /\ m[i] \in 1..Len(s)
      /\ \A j \in 1..i : IsHeader(r[j]) => m[j] \in 1..m[i] /\ s[m[j]] = r[j]
      /\ \A j \in 1..i : \A n \in 1..i : j <= n => m[j] <= m[n]
      /\ \A k \in 1..m[i] : IsHeader(s[k]) => \E j \in 1..i : IsHeader(r[j]) /\ m[j] = k
  BY DEF SameHeaders
<1> DEFINE h == m[i]
<1>2. h = m[i] /\ h \in 1..Len(s)
  BY <1>1
<1> HIDE DEF h
<1>3. CASE \A n \in 1..i : ~IsHeader(r[n])
  <2>1. \A k \in 1..h : ~IsHeader(s[k])
    BY <1>1, <1>2, <1>3
  <2>2. SectionOf(r, i) = "live"
    BY <1>1, <1>3, SectionFacts
  <2>3. SectionOf(s, h) = "live"
    BY <1>2, <2>1, SectionFacts
  <2> QED BY <1>2, <2>2, <2>3
<1>4. ASSUME NEW j \in 1..i, IsLastHeader(r, j, i) PROVE SectionOf(r, i) = SectionOf(s, h)
  <2>1. IsHeader(r[j]) /\ \A n \in 1..i : IsHeader(r[n]) => n <= j
    BY <1>4 DEF IsLastHeader
  <2>2. m[j] \in 1..h /\ s[m[j]] = r[j]
    BY <1>1, <1>2, <2>1
  <2>3. ASSUME NEW k \in 1..h, IsHeader(s[k]) PROVE k <= m[j]
    <3>1. PICK n \in 1..i : IsHeader(r[n]) /\ m[n] = k
      BY <1>1, <1>2, <2>3
    <3> QED BY <1>1, <2>1, <3>1
  <2>4. IsLastHeader(s, m[j], h)
    BY <2>1, <2>2, <2>3 DEF IsLastHeader
  <2>5. SectionOf(s, h) = s[m[j]].kind
    BY <1>2, <2>4, SectionFacts
  <2>6. SectionOf(r, i) = r[j].kind
    BY <1>1, <1>4, SectionFacts
  <2> QED BY <2>2, <2>5, <2>6
<1>5. \/ \A n \in 1..i : ~IsHeader(r[n])
      \/ \E j \in 1..i : IsLastHeader(r, j, i)
  BY <1>1, SectionFacts
<1> QED BY <1>2, <1>3, <1>4, <1>5

\* What every file says: no line of DEPRECATED is active; an active tool was chosen, a
\* module is one of the first file, or else their line is what a torn write left.
Consented(lines, chosen, left) ==
  /\ NothingDeprecatedIsActive(lines)
  /\ \A t \in ActiveIds(lines) : t \in chosen \/ ToolLine(t, TRUE) \in left
  /\ \A m \in Modules(lines) : m \in Modules(FirstAllowlist) \/ ModuleLine(m) \in left
  /\ chosen \subseteq Tool
  /\ left \subseteq Exposing(lines)

\* A file that exposes no more than another, besides what is chosen now.
LEMMA ConsentKept ==
  ASSUME NEW r, NEW s, NEW chosen, NEW left, NEW kept, Consented(s, chosen, left),
         NothingDeprecatedIsActive(r), Modules(r) \subseteq Modules(s),
         kept \subseteq Tool, ActiveIds(r) \subseteq ActiveIds(s) \cup kept,
         ActiveIds(r) \cap chosen \subseteq kept
  PROVE  Consented(r, kept, left \cap Exposing(r))
<1>1. ASSUME NEW t \in ActiveIds(r)
      PROVE  t \in kept \/ ToolLine(t, TRUE) \in left \cap Exposing(r)
  <2>1. ToolLine(t, TRUE) \in Exposing(r)
    BY ExposingFacts
  <2> QED BY <2>1 DEF Consented
<1>2. ASSUME NEW m \in Modules(r)
      PROVE  m \in Modules(FirstAllowlist) \/ ModuleLine(m) \in left \cap Exposing(r)
  <2>1. ModuleLine(m) \in Exposing(r)
    BY ExposingFacts
  <2> QED BY <2>1 DEF Consented
<1> QED BY <1>1, <1>2 DEF Consented

\* Fewer lines say less.
LEMMA ConsentedSubset ==
  ASSUME NEW r, NEW s, NEW chosen, NEW left, ToSet(r) \subseteq ToSet(s),
         NothingDeprecatedIsActive(r), Consented(s, chosen, left)
  PROVE  /\ Consented(r, chosen, left \cap Exposing(r))
         /\ Consented(r, chosen \cap ActiveIds(r), left \cap Exposing(r))
<1>1. ActiveIds(r) \subseteq ActiveIds(s) /\ Modules(r) \subseteq Modules(s)
  BY SaidByLines
<1>2. chosen \subseteq Tool
  BY DEF Consented
<1>3. Consented(r, chosen, left \cap Exposing(r))
  BY <1>1, <1>2, ConsentKept
<1>4. Consented(r, chosen \cap ActiveIds(r), left \cap Exposing(r))
  BY <1>1, <1>2, ConsentKept
<1> QED BY <1>3, <1>4

LEMMA PrefixFacts ==
  ASSUME NEW s \in Seq(Line), NEW k \in 0..Len(s), NothingDeprecatedIsActive(s)
  PROVE  /\ SubSeq(s, 1, k) \in Seq(Line)
         /\ ToSet(SubSeq(s, 1, k)) \subseteq ToSet(s)
         /\ NothingDeprecatedIsActive(SubSeq(s, 1, k))
<1> DEFINE r == SubSeq(s, 1, k)
           m == [j \in 1..k |-> j]
<1>1. r \in Seq(Line) /\ Len(r) = k /\ \A j \in 1..k : r[j] = s[j] /\ j \in 1..Len(s)
  OBVIOUS
<1> HIDE DEF r
<1>2. ToSet(r) \subseteq ToSet(s)
  BY <1>1 DEF ToSet
<1>3. ASSUME NEW i \in 1..k PROVE SectionOf(r, i) = SectionOf(s, i)
  <2>1. /\ \A j \in 1..k : m[j] = j
        /\ \A j \in 1..i : j \in 1..k
    OBVIOUS
  <2> HIDE DEF m
  <2>2. SameHeaders(r, s, m, i)
    BY <1>1, <2>1 DEF SameHeaders
  <2> QED BY <1>1, <2>1, <2>2, SameSection
<1>4. NothingDeprecatedIsActive(r)
  BY <1>1, <1>3 DEF NothingDeprecatedIsActive
<1> QED BY <1>1, <1>2, <1>4 DEF r

\* A file that is cut inside line k + 1.
LEMMA CutFacts ==
  ASSUME NEW s \in Seq(Line), NEW k \in 0..(Len(s) - 1), NEW remnant \in Remnants(s[k + 1]),
         NothingDeprecatedIsActive(s)
  PROVE  /\ Append(SubSeq(s, 1, k), remnant) \in Seq(Line)
         /\ ToSet(Append(SubSeq(s, 1, k), remnant)) \subseteq ToSet(s) \cup {remnant}
         /\ NothingDeprecatedIsActive(Append(SubSeq(s, 1, k), remnant))
<1> DEFINE r == Append(SubSeq(s, 1, k), remnant)
           m == [j \in 1..(k + 1) |-> j]
<1>1. k + 1 \in 1..Len(s) /\ s[k + 1] \in Line
  BY LinesInSeq
<1>2. /\ remnant \in Line /\ ~IsHeader(remnant)
      /\ IsTool(remnant) /\ remnant.active => IsTool(s[k + 1]) /\ s[k + 1].active
  BY <1>1, RemnantFacts
<1>3. /\ r \in Seq(Line) /\ Len(r) = k + 1 /\ r[k + 1] = remnant
      /\ \A j \in 1..k : r[j] = s[j] /\ j \in 1..Len(s)
  BY <1>1, <1>2
<1> HIDE DEF r
<1>4. ToSet(r) \subseteq ToSet(s) \cup {remnant}
  <2>1. \A j \in 1..(k + 1) : j \in 1..k \/ j = k + 1
    OBVIOUS
  <2> QED BY <1>3, <2>1 DEF ToSet
<1>5. ASSUME NEW i \in 1..(k + 1), IsTool(r[i]), r[i].active
      PROVE  SectionOf(r, i) # "deprecated"
  <2>1. /\ \A j \in 1..(k + 1) : m[j] = j
        /\ \A j \in 1..i : j \in 1..(k + 1) /\ j \in 1..Len(s)
        /\ \A j \in 1..(k + 1) : j \in 1..k \/ j = k + 1
    OBVIOUS
  <2> HIDE DEF m
  <2>2. IsTool(s[i]) /\ s[i].active /\ i \in 1..Len(s)
    BY <1>1, <1>2, <1>3, <1>5, <2>1
  <2>3. ~IsHeader(s[i]) /\ ~IsHeader(r[i])
    BY <1>5, <2>2 DEF IsHeader, IsTool
  <2>4. \A j \in 1..i : j = i \/ (r[j] = s[j] /\ j # k + 1)
    BY <1>3, <2>1
  <2>5. SameHeaders(r, s, m, i)
    BY <1>3, <2>1, <2>3, <2>4 DEF SameHeaders
  <2>6. SectionOf(r, i) = SectionOf(s, i)
    BY <1>3, <2>1, <2>5, SameSection
  <2> QED BY <2>2, <2>6 DEF NothingDeprecatedIsActive
<1>6. NothingDeprecatedIsActive(r)
  BY <1>3, <1>5 DEF NothingDeprecatedIsActive
<1> QED BY <1>3, <1>4, <1>6 DEF r

LEMMA RemoveFacts ==
  ASSUME NEW s \in Seq(Line), NEW k \in 1..Len(s), ~IsHeader(s[k]),
         NothingDeprecatedIsActive(s)
  PROVE  /\ RemoveAt(s, k) \in Seq(Line) /\ Len(RemoveAt(s, k)) = Len(s) - 1
         /\ ToSet(RemoveAt(s, k)) \subseteq ToSet(s)
         /\ NothingDeprecatedIsActive(RemoveAt(s, k))
<1> DEFINE r == RemoveAt(s, k)
           N == Len(s)
           m == [j \in 1..(N - 1) |-> IF j < k THEN j ELSE j + 1]
<1>1. /\ r \in Seq(Line) /\ Len(r) = N - 1
      /\ \A i \in 1..(N - 1) : r[i] = IF i < k THEN s[i] ELSE s[i + 1]
  BY RemoveAtProperties
<1>2. N \in Nat /\ k \in 1..N /\ Len(s) = N
  OBVIOUS
<1> HIDE DEF r, N
<1>3. \A j \in 1..(N - 1) : /\ m[j] = IF j < k THEN j ELSE j + 1
                            /\ m[j] \in 1..N /\ m[j] # k /\ r[j] = s[m[j]]
                            /\ m[j] \in Nat
  BY <1>1, <1>2
<1>4. \A j \in 1..(N - 1), n \in 1..(N - 1) : j <= n => m[j] <= m[n]
  BY <1>2, <1>3
<1>5. ASSUME NEW i \in 1..(N - 1), NEW h \in 1..m[i], h # k
      PROVE  \E j \in 1..i : m[j] = h
  <2>1. CASE h < k
    <3>1. h \in 1..i /\ h \in 1..(N - 1)
      BY <1>2, <1>3, <2>1
    <3> QED BY <1>3, <2>1, <3>1
  <2>2. CASE ~(h < k)
    <3>1. h - 1 \in 1..i /\ h - 1 \in 1..(N - 1) /\ ~(h - 1 < k) /\ (h - 1) + 1 = h
      BY <1>2, <1>3, <1>5, <2>2
    <3> QED BY <1>3, <3>1
  <2> QED BY <2>1, <2>2
<1> HIDE DEF m
<1>6. ASSUME NEW i \in 1..(N - 1) PROVE SectionOf(r, i) = SectionOf(s, m[i])
  <2>1. \A j \in 1..i : j \in 1..(N - 1) /\ j <= i /\ i \in 1..i
    BY <1>2
  <2>2. \A j \in 1..i : IsHeader(r[j]) => m[j] \in 1..m[i] /\ s[m[j]] = r[j]
    <3> SUFFICES ASSUME NEW j \in 1..i PROVE m[j] \in 1..m[i] /\ s[m[j]] = r[j]
      OBVIOUS
    <3>1. m[j] <= m[i] /\ m[j] \in 1..N /\ m[i] \in 1..N
      BY <1>3, <1>4, <2>1
    <3> QED BY <1>2, <1>3, <2>1, <3>1
  <2>3. \A h \in 1..m[i] : IsHeader(s[h]) => \E j \in 1..i : IsHeader(r[j]) /\ m[j] = h
    <3> SUFFICES ASSUME NEW h \in 1..m[i], IsHeader(s[h])
                 PROVE  \E j \in 1..i : IsHeader(r[j]) /\ m[j] = h
      OBVIOUS
    <3>1. PICK j \in 1..i : m[j] = h
      BY <1>5
    <3> QED BY <1>3, <2>1, <3>1
  <2>4. SameHeaders(r, s, m, i)
    BY <1>1, <1>2, <1>3, <1>4, <2>1, <2>2, <2>3 DEF SameHeaders
  <2> QED BY <1>1, <2>4, SameSection
<1>7. \A i \in 1..(N - 1) : m[i] \in DOMAIN s
  BY <1>2, <1>3
<1>8. NothingDeprecatedIsActive(r)
  BY <1>1, <1>3, <1>6, <1>7 DEF NothingDeprecatedIsActive
<1>9. ToSet(r) \subseteq ToSet(s)
  BY <1>1, <1>3, <1>7 DEF ToSet
<1> QED BY <1>1, <1>8, <1>9 DEF r, N

LEMMA InsertFacts ==
  ASSUME NEW s \in Seq(Line), NEW k \in 1..Len(s), NEW e \in Line,
         ~IsHeader(e), ~IsTool(e), NothingDeprecatedIsActive(s)
  PROVE  /\ InsertAt(s, k, e) \in Seq(Line)
         /\ ToSet(InsertAt(s, k, e)) \subseteq ToSet(s) \cup {e}
         /\ NothingDeprecatedIsActive(InsertAt(s, k, e))
<1> DEFINE r == InsertAt(s, k, e)
           N == Len(s)
           m == [j \in 1..(N + 1) |-> IF j <= k THEN j ELSE j - 1]
<1>1. /\ r \in Seq(Line) /\ Len(r) = N + 1 /\ r[k] = e
      /\ \A i \in 1..N : s[i] = r[IF i < k THEN i ELSE i + 1]
  BY InsertAtProperties
<1>2. N \in Nat /\ k \in 1..N /\ Len(s) = N
  OBVIOUS
<1> HIDE DEF r, N
<1>3. /\ \A j \in 1..(N + 1) : /\ m[j] = IF j <= k THEN j ELSE j - 1
                               /\ m[j] \in 1..N /\ m[j] \in Nat
      /\ \A j \in 1..(N + 1) : j = k \/ r[j] = s[m[j]]
  <2>1. \A j \in 1..(N + 1) : m[j] = IF j <= k THEN j ELSE j - 1
    BY <1>2
  <2> HIDE DEF m
  <2>2. \A j \in 1..(N + 1) : m[j] \in 1..N /\ m[j] \in Nat
    BY <1>2, <2>1
  <2>3. ASSUME NEW j \in 1..(N + 1), j # k PROVE r[j] = s[m[j]]
    <3>1. CASE j < k
      <4>1. j \in 1..N /\ m[j] = j
        BY <1>2, <2>1, <3>1
      <4> QED BY <1>1, <3>1, <4>1
    <3>2. CASE ~(j < k)
      <4>1. j - 1 \in 1..N /\ m[j] = j - 1 /\ ~(j - 1 < k) /\ (j - 1) + 1 = j
        BY <1>2, <2>1, <2>3, <3>2
      <4> QED BY <1>1, <4>1
    <3> QED BY <3>1, <3>2
  <2> QED BY <2>1, <2>2, <2>3
<1> HIDE DEF m
<1>4. \A j \in 1..(N + 1), n \in 1..(N + 1) : j <= n => m[j] <= m[n]
  BY <1>2, <1>3
<1>5. ASSUME NEW i \in 1..(N + 1), i # k, NEW h \in 1..m[i]
      PROVE  \E j \in 1..i : j # k /\ m[j] = h
  <2>1. CASE h < k
    <3>1. h \in 1..i /\ h \in 1..(N + 1) /\ h # k /\ h <= k
      BY <1>2, <1>3, <2>1
    <3> QED BY <1>3, <3>1
  <2>2. CASE ~(h < k)
    <3>1. h + 1 \in 1..i /\ h + 1 \in 1..(N + 1) /\ ~(h + 1 <= k) /\ (h + 1) - 1 = h /\ h + 1 # k
      BY <1>2, <1>3, <1>5, <2>2
    <3> QED BY <1>3, <3>1
  <2> QED BY <2>1, <2>2
<1>6. ASSUME NEW i \in 1..(N + 1), i # k PROVE SectionOf(r, i) = SectionOf(s, m[i])
  <2>1. \A j \in 1..i : j \in 1..(N + 1) /\ j <= i /\ i \in 1..i
    BY <1>2
  <2>2. \A j \in 1..i : IsHeader(r[j]) => m[j] \in 1..m[i] /\ s[m[j]] = r[j]
    <3> SUFFICES ASSUME NEW j \in 1..i, IsHeader(r[j])
                 PROVE  m[j] \in 1..m[i] /\ s[m[j]] = r[j]
      OBVIOUS
    <3>1. m[j] <= m[i] /\ m[j] \in 1..N /\ m[i] \in 1..N
      BY <1>3, <1>4, <2>1
    <3>2. j # k
      BY <1>1
    <3> QED BY <1>2, <1>3, <2>1, <3>1, <3>2
  <2>3. \A h \in 1..m[i] : IsHeader(s[h]) => \E j \in 1..i : IsHeader(r[j]) /\ m[j] = h
    <3> SUFFICES ASSUME NEW h \in 1..m[i], IsHeader(s[h])
                 PROVE  \E j \in 1..i : IsHeader(r[j]) /\ m[j] = h
      OBVIOUS
    <3>1. PICK j \in 1..i : j # k /\ m[j] = h
      BY <1>5, <1>6
    <3> QED BY <1>3, <2>1, <3>1
  <2>4. SameHeaders(r, s, m, i)
    BY <1>1, <1>2, <1>3, <1>4, <2>1, <2>2, <2>3 DEF SameHeaders
  <2> QED BY <1>1, <2>4, SameSection
<1>7. \A i \in 1..(N + 1) : m[i] \in DOMAIN s
  BY <1>2, <1>3
<1>8. NothingDeprecatedIsActive(r)
  <2>1. \A i \in 1..(N + 1) : IsTool(r[i]) => i # k
    BY <1>1
  <2> QED BY <1>1, <1>3, <1>6, <1>7, <2>1 DEF NothingDeprecatedIsActive
<1>9. ToSet(r) \subseteq ToSet(s) \cup {e}
  BY <1>1, <1>3, <1>7 DEF ToSet
<1> QED BY <1>1, <1>8, <1>9 DEF r

LEMMA PrependFacts ==
  ASSUME NEW s \in Seq(Line), NEW e \in Line, ~IsHeader(e), NothingDeprecatedIsActive(s)
  PROVE  /\ <<e>> \o s \in Seq(Line)
         /\ ToSet(<<e>> \o s) = ToSet(s) \cup {e}
         /\ NothingDeprecatedIsActive(<<e>> \o s)
<1> DEFINE r == <<e>> \o s
           N == Len(s)
           m == [j \in 1..(N + 1) |-> j - 1]
<1>1. /\ r \in Seq(Line) /\ Len(r) = N + 1 /\ r[1] = e
      /\ \A i \in 2..(N + 1) : r[i] = s[i - 1]
  <2>1. <<e>> \in Seq(Line) /\ Len(<<e>>) = 1 /\ <<e>>[1] = e
    OBVIOUS
  <2>2. /\ r \in Seq(Line) /\ Len(r) = Len(<<e>>) + Len(s)
        /\ \A i \in 1..(Len(<<e>>) + Len(s)) :
             r[i] = IF i <= Len(<<e>>) THEN <<e>>[i] ELSE s[i - Len(<<e>>)]
    BY <2>1, ConcatProperties
  <2> HIDE DEF r
  <2> QED BY <2>1, <2>2
<1>2. N \in Nat /\ Len(s) = N
  OBVIOUS
<1>3. <<e>> \in Seq(Line) /\ ToSet(<<e>>) = {e}
  BY DEF ToSet
<1>4. ToSet(r) = ToSet(s) \cup {e}
  <2> DEFINE top == <<e>>
  <2>1. top \in Seq(Line) /\ ToSet(top) = {e}
    BY <1>3
  <2> HIDE DEF top
  <2>2. ToSet(top \o s) = ToSet(top) \cup ToSet(s)
    BY <2>1, ConcatSet
  <2> QED BY <2>1, <2>2 DEF top
<1> HIDE DEF r, N
<1>5. \A j \in 1..(N + 1) : m[j] = j - 1
  BY <1>2
<1> HIDE DEF m
<1>6. ASSUME NEW i \in 2..(N + 1) PROVE SectionOf(r, i) = SectionOf(s, m[i])
  <2>1. \A j \in 1..i : /\ j \in 1..(N + 1) /\ j <= i /\ i \in 1..i
                        /\ j = 1 \/ j \in 2..(N + 1)
    BY <1>2
  <2>2. \A j \in 1..i : IsHeader(r[j]) => m[j] \in 1..m[i] /\ s[m[j]] = r[j]
    <3> SUFFICES ASSUME NEW j \in 1..i, IsHeader(r[j])
                 PROVE  m[j] \in 1..m[i] /\ s[m[j]] = r[j]
      OBVIOUS
    <3>1. j # 1
      BY <1>1
    <3> QED BY <1>1, <1>2, <1>5, <2>1, <3>1
  <2>3. \A h \in 1..m[i] : IsHeader(s[h]) => \E j \in 1..i : IsHeader(r[j]) /\ m[j] = h
    <3> SUFFICES ASSUME NEW h \in 1..m[i], IsHeader(s[h])
                 PROVE  \E j \in 1..i : IsHeader(r[j]) /\ m[j] = h
      OBVIOUS
    <3>1. m[i] = i - 1
      BY <1>2, <1>5
    <3>2. /\ h + 1 \in 1..i /\ h + 1 \in 2..(N + 1) /\ h + 1 \in 1..(N + 1)
          /\ (h + 1) - 1 = h
      BY <1>2, <3>1
    <3>3. m[h + 1] = h /\ r[h + 1] = s[h]
      BY <1>1, <1>5, <3>2
    <3> QED BY <3>2, <3>3
  <2>4. \A j \in 1..i : \A n \in 1..i : j <= n => m[j] <= m[n]
    BY <1>2, <1>5
  <2>5. i \in 1..Len(r) /\ m[i] \in 1..Len(s)
    BY <1>1, <1>2, <1>5
  <2>6. SameHeaders(r, s, m, i)
    BY <2>2, <2>3, <2>4, <2>5 DEF SameHeaders
  <2> QED BY <1>1, <2>6, SameSection
<1>7. ASSUME NEW i \in 2..(N + 1) PROVE m[i] \in DOMAIN s /\ r[i] = s[m[i]]
  BY <1>1, <1>2, <1>5
<1>8. SectionOf(r, 1) = "live"
  <2>1. 1 \in 1..Len(r) /\ \A j \in 1..1 : j = 1
    BY <1>1, <1>2
  <2>2. \A j \in 1..1 : ~IsHeader(r[j])
    BY <1>1, <2>1
  <2> QED BY <1>1, <2>1, <2>2, SectionFacts
<1>9. ASSUME NEW i \in DOMAIN r, IsTool(r[i]), r[i].active
      PROVE  SectionOf(r, i) # "deprecated"
  <2>1. i = 1 \/ i \in 2..(N + 1)
    BY <1>1, <1>2
  <2>2. CASE i = 1
    BY <1>8, <2>2
  <2>3. CASE i \in 2..(N + 1)
    <3>1. IsTool(s[m[i]]) /\ s[m[i]].active /\ m[i] \in DOMAIN s
      BY <1>7, <1>9, <2>3
    <3>2. SectionOf(s, m[i]) # "deprecated"
      BY <3>1 DEF NothingDeprecatedIsActive
    <3> QED BY <1>6, <2>3, <3>2
  <2> QED BY <2>1, <2>2, <2>3
<1> QED BY <1>1, <1>4, <1>9 DEF r, NothingDeprecatedIsActive

\* A line is uncommented, or commented out.
LEMMA SetActiveFacts ==
  ASSUME NEW s \in Seq(Line), NEW k \in 1..Len(s), IsTool(s[k]), NEW on \in BOOLEAN,
         NothingDeprecatedIsActive(s), on => SectionOf(s, k) # "deprecated"
  PROVE  /\ [s EXCEPT ![k].active = on] \in Seq(Line)
         /\ Len([s EXCEPT ![k].active = on]) = Len(s)
         /\ \A i \in 1..Len(s) : [s EXCEPT ![k].active = on][i].kind = s[i].kind
         /\ \A line \in ToSet([s EXCEPT ![k].active = on]) :
              line \in ToSet(s) \/ (IsTool(line) /\ line.active = on /\ line.id = s[k].id)
         /\ NothingDeprecatedIsActive([s EXCEPT ![k].active = on])
<1> DEFINE new == [s[k] EXCEPT !.active = on]
           r == [s EXCEPT ![k].active = on]
           m == [j \in 1..Len(s) |-> j]
<1>1. s[k] \in [kind : {"tool"}, id : Tool, active : BOOLEAN]
  BY LineFacts, LinesInSeq
<1>2. /\ new \in [kind : {"tool"}, id : Tool, active : BOOLEAN]
      /\ new.kind = "tool" /\ new.id = s[k].id /\ new.active = on
  BY <1>1
<1>3. new \in Line
  BY <1>2 DEF Line
<1>4. r = [s EXCEPT ![k] = new]
  OBVIOUS
<1> HIDE DEF new
<1>5. /\ r \in Seq(Line) /\ Len(r) = Len(s) /\ r[k] = new
      /\ \A i \in 1..Len(s) : i # k => r[i] = s[i]
  BY <1>3, <1>4
<1> HIDE DEF r
<1>6. \A i \in 1..Len(s) : r[i].kind = s[i].kind
  BY <1>1, <1>2, <1>5
<1>7. \A i \in 1..Len(s) : IsHeader(r[i]) <=> IsHeader(s[i])
  BY <1>6 DEF IsHeader
<1>8. ASSUME NEW i \in 1..Len(s) PROVE SectionOf(r, i) = SectionOf(s, i)
  <2>1. /\ \A j \in 1..Len(s) : m[j] = j
        /\ \A j \in 1..i : j \in 1..Len(s)
    OBVIOUS
  <2> HIDE DEF m
  <2>2. ASSUME NEW j \in 1..Len(s), IsHeader(r[j]) PROVE s[j] = r[j]
    <3>1. j # k
      BY <1>2, <1>5, <2>2 DEF IsHeader
    <3> QED BY <1>5, <3>1
  <2>3. SameHeaders(r, s, m, i)
    BY <1>5, <1>7, <2>1, <2>2 DEF SameHeaders
  <2> QED BY <1>5, <2>1, <2>3, SameSection
<1>9. NothingDeprecatedIsActive(r)
  <2>1. ASSUME NEW i \in 1..Len(s), IsTool(r[i]), r[i].active
        PROVE  SectionOf(s, i) # "deprecated"
    <3>1. CASE i = k
      BY <1>2, <1>5, <2>1, <3>1
    <3>2. CASE i # k
      BY <1>5, <2>1, <3>2 DEF NothingDeprecatedIsActive
    <3> QED BY <3>1, <3>2
  <2> QED BY <1>5, <1>8, <2>1 DEF NothingDeprecatedIsActive
<1>10. ASSUME NEW line \in ToSet(r)
       PROVE  line \in ToSet(s) \/ (IsTool(line) /\ line.active = on /\ line.id = s[k].id)
  <2>1. PICK i \in 1..Len(s) : r[i] = line
    BY <1>5 DEF ToSet
  <2>2. CASE i = k
    BY <1>2, <1>5, <2>1, <2>2 DEF IsTool
  <2>3. CASE i # k
    BY <1>5, <2>1, <2>3 DEF ToSet
  <2> QED BY <2>2, <2>3
<1> QED BY <1>5, <1>6, <1>9, <1>10 DEF r
-----------------------------------------------------------------------------
(* The steps of 03_reconcile and of people preserve all of it. *)

ConsentInv == Consented(allowlist, consent, remains)

\* The new text is a file of lines, and exposes no more than the old one.
LEMMA ReconciledText ==
  ASSUME TypeInv, ConsentInv
  PROVE  LET registry == DOMAIN flat.tools
             new == Reconcile(allowlist, registry)
         IN  /\ new \in Seq(Line) /\ NothingDeprecatedIsActive(new)
             /\ ActiveIds(new) \subseteq ActiveIds(allowlist) \cap registry
             /\ Modules(new) \subseteq Modules(allowlist)
             /\ consent \subseteq Tool
<1> DEFINE registry == DOMAIN flat.tools
<1>1. registry \in SUBSET Tool /\ IsFiniteSet(registry) /\ allowlist \in Seq(Line)
  BY FlatFacts DEF TypeInv
<1>2. NothingDeprecatedIsActive(allowlist) /\ consent \subseteq Tool
  BY DEF ConsentInv, Consented
<1> HIDE DEF registry
<1>3. Reconcile(allowlist, registry) \in Seq(Line)
  BY <1>1, ReconcileType
<1>4. /\ ActiveIds(Reconcile(allowlist, registry)) \subseteq ActiveIds(allowlist) \cap registry
      /\ Modules(Reconcile(allowlist, registry)) \subseteq Modules(allowlist)
      /\ NothingDeprecatedIsActive(Reconcile(allowlist, registry))
  BY <1>1, <1>2, ReconcileExposesNothing
<1> QED BY <1>2, <1>3, <1>4 DEF registry

LEMMA ReconcileStep ==
  ASSUME TypeInv, ExampleInv, ConsentInv, ReconcileAllowlist
  PROVE  TypeInv' /\ ExampleInv' /\ ConsentInv'
<1> DEFINE registry == DOMAIN flat.tools
           new == Reconcile(allowlist, registry)
<1>1. /\ UNCHANGED <<sdk, flat, merged, server, generated>> /\ job' = NoJob
      /\ allowlist' = new /\ consent' = consent \cap registry
      /\ remains' = remains \cap Exposing(new)
  BY DEF ReconcileAllowlist, bounds
<1>2. /\ new \in Seq(Line) /\ NothingDeprecatedIsActive(new)
      /\ ActiveIds(new) \subseteq ActiveIds(allowlist) \cap registry
      /\ Modules(new) \subseteq Modules(allowlist)
      /\ consent \subseteq Tool
  BY ReconciledText
<1> HIDE DEF registry, new
<1>3. Consented(new, consent \cap registry, remains \cap Exposing(new))
  BY <1>2, ConsentKept DEF ConsentInv
<1>4. ConsentInv'
  BY <1>1, <1>3 DEF ConsentInv
<1>5. TypeInv' /\ ExampleInv'
  BY <1>1, <1>2, ScriptEnds DEF TypeInv, ExampleInv
<1> QED BY <1>4, <1>5

\* The remnant of a line exposes only what it is remembered for.
LEMMA RemnantIsRemembered ==
  ASSUME TypeInv, ConsentInv, NEW new \in Seq(Line), NothingDeprecatedIsActive(new),
         ActiveIds(new) \subseteq ActiveIds(allowlist), Modules(new) \subseteq Modules(allowlist),
         NEW k \in 0..(Len(new) - 1), NEW remnant \in Remnants(new[k + 1])
  PROVE  LET cut == Append(SubSeq(new, 1, k), remnant)
         IN  Consented(cut, consent, (remains \cup {remnant}) \cap Exposing(cut))
<1> DEFINE cut == Append(SubSeq(new, 1, k), remnant)
<1>1. ToSet(cut) \subseteq ToSet(new) \cup {remnant} /\ NothingDeprecatedIsActive(cut)
  BY CutFacts
<1>2. k + 1 \in 1..Len(new) /\ new[k + 1] \in Line
  BY LinesInSeq
<1>3. /\ IsTool(remnant) /\ remnant.active => remnant = ToolLine(remnant.id, TRUE)
      /\ remnant.kind = "module" => remnant = ModuleLine(remnant.module)
  BY <1>2, RemnantFacts
<1>4. /\ \A t \in ActiveIds(allowlist) : t \in consent \/ ToolLine(t, TRUE) \in remains
      /\ \A m \in Modules(allowlist) : m \in Modules(FirstAllowlist) \/ ModuleLine(m) \in remains
      /\ consent \subseteq Tool
  BY DEF ConsentInv, Consented
<1> HIDE DEF cut
<1>5. ASSUME NEW t \in ActiveIds(cut)
      PROVE  t \in consent \/ ToolLine(t, TRUE) \in (remains \cup {remnant}) \cap Exposing(cut)
  <2>1. ToolLine(t, TRUE) \in Exposing(cut)
    BY ExposingFacts
  <2>2. t \in ActiveIds(new) \/ (IsTool(remnant) /\ remnant.active /\ remnant.id = t)
    BY <1>1, SaidByLines
  <2> QED BY <1>3, <1>4, <2>1, <2>2
<1>6. ASSUME NEW m \in Modules(cut)
      PROVE  \/ m \in Modules(FirstAllowlist)
             \/ ModuleLine(m) \in (remains \cup {remnant}) \cap Exposing(cut)
  <2>1. ModuleLine(m) \in Exposing(cut)
    BY ExposingFacts
  <2>2. m \in Modules(new) \/ (remnant.kind = "module" /\ remnant.module = m)
    BY <1>1, SaidByLines
  <2> QED BY <1>3, <1>4, <2>1, <2>2
<1>7. Consented(cut, consent, (remains \cup {remnant}) \cap Exposing(cut))
  BY <1>1, <1>4, <1>5, <1>6 DEF Consented
<1> QED BY <1>7 DEF cut

LEMMA TearStep ==
  ASSUME TypeInv, ExampleInv, ConsentInv, TearAllowlist
  PROVE  TypeInv' /\ ExampleInv' /\ ConsentInv'
<1> DEFINE new == Reconcile(allowlist, DOMAIN flat.tools)
<1>1. /\ UNCHANGED <<sdk, flat, merged, server, generated, consent>> /\ job' = NoJob
      /\ \E k \in 0..Len(new) :
           \/ allowlist' = SubSeq(new, 1, k) /\ remains' = remains \cap Exposing(allowlist')
           \/ /\ k < Len(new)
              /\ \E remnant \in Remnants(new[k + 1]) :
                   /\ allowlist' = Append(SubSeq(new, 1, k), remnant)
                   /\ remains' = (remains \cup {remnant}) \cap Exposing(allowlist')
  BY DEF TearAllowlist
<1>2. /\ new \in Seq(Line) /\ NothingDeprecatedIsActive(new)
      /\ ActiveIds(new) \subseteq ActiveIds(allowlist)
      /\ Modules(new) \subseteq Modules(allowlist)
      /\ consent \subseteq Tool
  BY ReconciledText
<1> HIDE DEF new
<1>3. PICK k \in 0..Len(new) :
           \/ allowlist' = SubSeq(new, 1, k) /\ remains' = remains \cap Exposing(allowlist')
           \/ /\ k < Len(new)
              /\ \E remnant \in Remnants(new[k + 1]) :
                   /\ allowlist' = Append(SubSeq(new, 1, k), remnant)
                   /\ remains' = (remains \cup {remnant}) \cap Exposing(allowlist')
  BY <1>1
<1>4. allowlist' \in Seq(Line) /\ Consented(allowlist', consent, remains')
  <2>1. CASE allowlist' = SubSeq(new, 1, k) /\ remains' = remains \cap Exposing(allowlist')
    <3>1. /\ allowlist' \in Seq(Line) /\ ToSet(allowlist') \subseteq ToSet(new)
          /\ NothingDeprecatedIsActive(allowlist')
      BY <1>2, <2>1, PrefixFacts
    <3>2. /\ ActiveIds(allowlist') \subseteq ActiveIds(new)
          /\ Modules(allowlist') \subseteq Modules(new)
      BY <3>1, SaidByLines
    <3>3. Consented(allowlist', consent, remains \cap Exposing(allowlist'))
      BY <1>2, <3>1, <3>2, ConsentKept DEF ConsentInv
    <3> QED BY <2>1, <3>1, <3>3
  <2>2. ASSUME k < Len(new), NEW remnant \in Remnants(new[k + 1]),
               allowlist' = Append(SubSeq(new, 1, k), remnant),
               remains' = (remains \cup {remnant}) \cap Exposing(allowlist')
        PROVE  allowlist' \in Seq(Line) /\ Consented(allowlist', consent, remains')
    <3>1. k \in 0..(Len(new) - 1)
      BY <1>2, <2>2
    <3>2. allowlist' \in Seq(Line)
      BY <1>2, <2>2, <3>1, CutFacts
    <3>3. Consented(allowlist', consent, (remains \cup {remnant}) \cap Exposing(allowlist'))
      BY <1>2, <2>2, <3>1, RemnantIsRemembered
    <3> QED BY <2>2, <3>2, <3>3
  <2> QED BY <1>3, <2>1, <2>2
<1>5. ConsentInv'
  BY <1>1, <1>4 DEF ConsentInv
<1>6. TypeInv' /\ ExampleInv'
  BY <1>1, <1>2, <1>4, ScriptEnds DEF TypeInv, ExampleInv
<1> QED BY <1>5, <1>6

LEMMA FailStep ==
  ASSUME TypeInv, ExampleInv, FailOnGarbled
  PROVE  TypeInv' /\ ExampleInv'
<1>1. /\ UNCHANGED <<sdk, flat, merged, allowlist, server, generated, consent>>
      /\ job' = NoJob
  BY DEF FailOnGarbled, bounds, files, history
<1> QED BY <1>1, NoJobIsFine, RunGoesOn

\* An edit of a file of lines that leaves a file that what was chosen accounts for.
LEMMA EditIsFine ==
  ASSUME TypeInv, ExampleInv, NEW lines \in Seq(Line), NEW chosen,
         Consented(lines, chosen, remains \cap Exposing(lines)), Edit(lines, chosen)
  PROVE  TypeInv' /\ ExampleInv' /\ ConsentInv'
<1>1. /\ UNCHANGED <<sdk, flat, merged, job, server, generated>>
      /\ allowlist' = lines /\ consent' = chosen
      /\ remains' = remains \cap Exposing(lines)
  BY DEF Edit
<1>2. chosen \subseteq Tool
  BY DEF Consented
<1>3. ConsentInv'
  BY <1>1 DEF ConsentInv
<1>4. TypeInv' /\ ExampleInv'
  BY <1>1, <1>2, OtherStep DEF TypeInv
<1> QED BY <1>3, <1>4

LEMMA WithoutRationaleFacts ==
  ASSUME NEW s \in Seq(Line), NEW i \in 1..Len(s), NothingDeprecatedIsActive(s)
  PROVE  /\ WithoutRationale(s, i) \in Seq(Line)
         /\ ToSet(WithoutRationale(s, i)) \subseteq ToSet(s)
         /\ NothingDeprecatedIsActive(WithoutRationale(s, i))
<1>1. CASE i > 1 /\ s[i - 1].kind = "rationale"
  <2>1. i - 1 \in 1..Len(s) /\ ~IsHeader(s[i - 1])
    BY <1>1 DEF IsHeader
  <2>2. WithoutRationale(s, i) = RemoveAt(s, i - 1)
    BY <1>1 DEF WithoutRationale
  <2> QED BY <2>1, <2>2, RemoveFacts
<1>2. CASE ~(i > 1 /\ s[i - 1].kind = "rationale")
  BY <1>2 DEF WithoutRationale
<1> QED BY <1>1, <1>2

LEMMA WithoutLineFacts ==
  ASSUME NEW s \in Seq(Line), NEW i \in 1..Len(s), ~IsHeader(s[i]),
         NothingDeprecatedIsActive(s)
  PROVE  /\ WithoutLine(s, i) \in Seq(Line)
         /\ ToSet(WithoutLine(s, i)) \subseteq ToSet(s)
         /\ NothingDeprecatedIsActive(WithoutLine(s, i))
<1> DEFINE r == RemoveAt(s, i)
<1>2. /\ r \in Seq(Line) /\ Len(r) = Len(s) - 1 /\ ToSet(r) \subseteq ToSet(s)
      /\ NothingDeprecatedIsActive(r)
  BY RemoveFacts
<1>3. \A j \in 1..(Len(s) - 1) : r[j] = IF j < i THEN s[j] ELSE s[j + 1]
  BY RemoveAtProperties
<1> HIDE DEF r
<1>4. CASE i > 1 /\ s[i - 1].kind = "rationale"
  <2>1. i - 1 \in 1..Len(r) /\ r[i - 1] = s[i - 1]
    <3>1. i - 1 \in 1..(Len(s) - 1) /\ i - 1 < i
      BY <1>4
    <3> QED BY <1>2, <1>3, <3>1
  <2>2. ~IsHeader(r[i - 1])
    BY <1>4, <2>1 DEF IsHeader
  <2>3. WithoutLine(s, i) = RemoveAt(r, i - 1)
    BY <1>4 DEF WithoutLine, r
  <2> QED BY <1>2, <2>1, <2>2, <2>3, RemoveFacts
<1>5. CASE ~(i > 1 /\ s[i - 1].kind = "rationale")
  <2>1. WithoutLine(s, i) = r
    BY <1>5 DEF WithoutLine, r
  <2> QED BY <1>2, <2>1
<1> QED BY <1>4, <1>5

LEMMA ExposeStep ==
  ASSUME TypeInv, ExampleInv, ConsentInv, NEW i \in DOMAIN allowlist, Expose(i)
  PROVE  TypeInv' /\ ExampleInv' /\ ConsentInv'
<1> DEFINE id == allowlist[i].id
           chosen == consent \cup {id}
           s == [allowlist EXCEPT ![i].active = TRUE]
           r == WithoutRationale(s, i)
<1>1. /\ IsTool(allowlist[i]) /\ SectionOf(allowlist, i) # "deprecated"
      /\ Edit(r, chosen)
  BY DEF Expose
<1>2. allowlist \in Seq(Line) /\ i \in 1..Len(allowlist)
  BY DEF TypeInv
<1>3. NothingDeprecatedIsActive(allowlist) /\ consent \subseteq Tool
  BY DEF ConsentInv, Consented
<1>4. /\ s \in Seq(Line) /\ Len(s) = Len(allowlist)
      /\ \A line \in ToSet(s) :
           line \in ToSet(allowlist) \/ (IsTool(line) /\ line.active = TRUE /\ line.id = id)
      /\ NothingDeprecatedIsActive(s)
  BY <1>1, <1>2, <1>3, SetActiveFacts
<1>5. id \in Tool
  BY <1>1, <1>2, LinesInSeq, LineFacts
<1> HIDE DEF s, id
<1>6. r \in Seq(Line) /\ ToSet(r) \subseteq ToSet(s) /\ NothingDeprecatedIsActive(r)
  BY <1>2, <1>4, WithoutRationaleFacts
<1> HIDE DEF r
<1>7. ActiveIds(r) \subseteq ActiveIds(allowlist) \cup chosen
  BY <1>4, <1>6, SaidByLines
<1>8. Modules(r) \subseteq Modules(allowlist)
  BY <1>4, <1>6, SaidByLines DEF IsTool
<1>9. Consented(r, chosen, remains \cap Exposing(r))
  BY <1>3, <1>5, <1>6, <1>7, <1>8, ConsentKept DEF ConsentInv
<1> HIDE DEF chosen
<1> QED BY <1>1, <1>6, <1>9, EditIsFine

LEMMA TriageStep ==
  ASSUME TypeInv, ExampleInv, ConsentInv, NEW i \in DOMAIN allowlist, Triage(i)
  PROVE  TypeInv' /\ ExampleInv' /\ ConsentInv'
<1> DEFINE id == allowlist[i].id
           chosen == consent \cup {id}
           top == ToolLine(id, TRUE)
           s == WithoutLine(allowlist, i)
           r == <<top>> \o s
<1>1. IsTool(allowlist[i]) /\ ~IsHeader(allowlist[i]) /\ Edit(r, chosen)
  BY DEF Triage, IsTool, IsHeader
<1>2. allowlist \in Seq(Line) /\ i \in 1..Len(allowlist)
  BY DEF TypeInv
<1>3. NothingDeprecatedIsActive(allowlist) /\ consent \subseteq Tool
  BY DEF ConsentInv, Consented
<1>4. s \in Seq(Line) /\ ToSet(s) \subseteq ToSet(allowlist) /\ NothingDeprecatedIsActive(s)
  BY <1>1, <1>2, <1>3, WithoutLineFacts
<1>5. id \in Tool
  BY <1>1, <1>2, LinesInSeq, LineFacts
<1> HIDE DEF s, id
<1>6. /\ top \in Line /\ IsTool(top) /\ top.id = id /\ ~IsHeader(top)
  BY <1>5, LineFacts
<1> HIDE DEF top
<1>7. /\ r \in Seq(Line) /\ ToSet(r) = ToSet(s) \cup {top} /\ NothingDeprecatedIsActive(r)
  BY <1>4, <1>6, PrependFacts
<1> HIDE DEF r
<1>8. ActiveIds(r) \subseteq ActiveIds(allowlist) \cup chosen
  BY <1>4, <1>6, <1>7, SaidByLines
<1>9. Modules(r) \subseteq Modules(allowlist)
  BY <1>4, <1>6, <1>7, SaidByLines DEF IsTool
<1>10. Consented(r, chosen, remains \cap Exposing(r))
  BY <1>3, <1>5, <1>7, <1>8, <1>9, ConsentKept DEF ConsentInv
<1> HIDE DEF chosen
<1> QED BY <1>1, <1>7, <1>10, EditIsFine

LEMMA HideStep ==
  ASSUME TypeInv, ExampleInv, ConsentInv, NEW i \in DOMAIN allowlist, NEW reason \in BOOLEAN,
         Hide(i, reason)
  PROVE  TypeInv' /\ ExampleInv' /\ ConsentInv'
<1> DEFINE id == allowlist[i].id
           s == [allowlist EXCEPT ![i].active = FALSE]
           chosen == consent \cap ActiveIds(s)
           r == IF reason THEN InsertAt(s, i, Rationale(id)) ELSE s
<1>1. IsTool(allowlist[i]) /\ Edit(r, chosen)
  BY DEF Hide
<1>2. allowlist \in Seq(Line) /\ i \in 1..Len(allowlist)
  BY DEF TypeInv
<1>3. NothingDeprecatedIsActive(allowlist) /\ consent \subseteq Tool
  BY DEF ConsentInv, Consented
<1>4. /\ s \in Seq(Line) /\ Len(s) = Len(allowlist)
      /\ \A line \in ToSet(s) :
           line \in ToSet(allowlist) \/ (IsTool(line) /\ line.active = FALSE /\ line.id = id)
      /\ NothingDeprecatedIsActive(s)
  BY <1>1, <1>2, <1>3, SetActiveFacts
<1>5. id \in Tool
  BY <1>1, <1>2, LinesInSeq, LineFacts
<1> HIDE DEF s, id
<1>6. ActiveIds(s) \subseteq ActiveIds(allowlist)
  BY <1>4, SaidByLines
<1>7. Modules(s) \subseteq Modules(allowlist)
  BY <1>4, SaidByLines DEF IsTool
<1>8. /\ Rationale(id) \in Line /\ Rationale(id).kind = "rationale"
      /\ ~IsHeader(Rationale(id)) /\ ~IsTool(Rationale(id))
  BY <1>5, LineFacts DEF IsHeader, IsTool
<1>9. /\ r \in Seq(Line) /\ ToSet(r) \subseteq ToSet(s) \cup {Rationale(id)}
      /\ NothingDeprecatedIsActive(r)
  <2>1. CASE reason
    <3>1. r = InsertAt(s, i, Rationale(id)) /\ i \in 1..Len(s)
      BY <1>2, <1>4, <2>1
    <3> HIDE DEF r
    <3> QED BY <1>4, <1>8, <3>1, InsertFacts
  <2>2. CASE ~reason
    BY <1>4, <2>2
  <2> QED BY <2>1, <2>2
<1> HIDE DEF r
<1>10. ActiveIds(r) \subseteq ActiveIds(s) /\ Modules(r) \subseteq Modules(s)
  BY <1>8, <1>9, SaidByLines
<1>11. Consented(r, chosen, remains \cap Exposing(r))
  BY <1>3, <1>6, <1>7, <1>9, <1>10, ConsentKept DEF ConsentInv
<1> HIDE DEF chosen
<1> QED BY <1>1, <1>9, <1>11, EditIsFine

LEMMA DeleteStep ==
  ASSUME TypeInv, ExampleInv, ConsentInv, NEW i \in DOMAIN allowlist, Delete(i)
  PROVE  TypeInv' /\ ExampleInv' /\ ConsentInv'
<1> DEFINE r == WithoutLine(allowlist, i)
<1>1. ~IsHeader(allowlist[i]) /\ Edit(r, consent \cap ActiveIds(r))
  BY DEF Delete, IsHeader
<1>2. allowlist \in Seq(Line) /\ i \in 1..Len(allowlist)
  BY DEF TypeInv
<1>3. NothingDeprecatedIsActive(allowlist) /\ Consented(allowlist, consent, remains)
  BY DEF ConsentInv, Consented
<1>4. r \in Seq(Line) /\ ToSet(r) \subseteq ToSet(allowlist) /\ NothingDeprecatedIsActive(r)
  BY <1>1, <1>2, <1>3, WithoutLineFacts
<1> HIDE DEF r
<1>5. Consented(r, consent \cap ActiveIds(r), remains \cap Exposing(r))
  BY <1>3, <1>4, ConsentedSubset
<1> QED BY <1>1, <1>4, <1>5, EditIsFine
-----------------------------------------------------------------------------
(* The inductive invariant. *)

SurfaceInv == TypeInv /\ ExampleInv /\ ConsentInv

LEMMA TypeInit == Init => TypeInv
<1>1. SUFFICES ASSUME Init PROVE TypeInv
  OBVIOUS
<1> DEFINE first == Registry(FirstRelease)
           tools == [t \in DOMAIN first |->
                       [mutates |-> first[t], examples |-> ExamplesFor(t, 1)]]
<1>2. /\ sdk = FirstRelease /\ flat = Torn /\ merged = Whole(tools)
      /\ allowlist = FirstAllowlist /\ job = NoJob /\ server = EmptyDict
      /\ generated = 1 /\ consent = ActiveIds(FirstAllowlist)
  BY <1>1 DEF Init
<1>3. FirstRelease \in Release
  BY SurfaceConstants
<1>4. /\ DOMAIN first \in SUBSET Tool
      /\ \A t \in DOMAIN first : first[t] \in BOOLEAN
  BY <1>3, RegistryFacts
<1> HIDE DEF first
<1>5. ASSUME NEW t \in DOMAIN first
      PROVE  [mutates |-> first[t], examples |-> ExamplesFor(t, 1)] \in Entry(1)
  <2>1. ExamplesFor(t, 1) \in [of : Tool, set : 1..1]
    BY <1>4 DEF ExamplesFor
  <2> QED BY <1>4, <2>1 DEF Entry
<1>6. tools \in Registries(1)
  <2>1. tools \in [DOMAIN first -> Entry(1)]
    BY <1>5
  <2> QED BY <1>4, <2>1 DEF Registries
<1> HIDE DEF tools
<1>7. merged \in [whole : BOOLEAN, tools : Registries(generated)]
  BY <1>2, <1>6 DEF Whole
<1>8. FirstAllowlist \in Seq(Line) /\ ActiveIds(FirstAllowlist) \subseteq Tool
  BY FirstAllowlistIsOne, MentionsTools
<1>9. DOMAIN server \subseteq Tool
  BY <1>2 DEF EmptyDict
<1> QED BY <1>2, <1>3, <1>7, <1>8, <1>9 DEF TypeInv

LEMMA ConsentInit == Init => ConsentInv
<1>1. FirstAllowlist \in Seq(Line) /\ NothingDeprecatedIsActive(FirstAllowlist)
  BY FirstAllowlistIsOne
<1>2. ActiveIds(FirstAllowlist) \subseteq Tool
  BY <1>1, MentionsTools
<1>3. Consented(FirstAllowlist, ActiveIds(FirstAllowlist), {})
  BY <1>1, <1>2 DEF Consented
<1> QED BY <1>3 DEF Init, ConsentInv

LEMMA SurfaceInit == Init => SurfaceInv
BY TypeInit, ExamplesInit, ConsentInit DEF SurfaceInv

LEMMA ConsentUnchanged ==
  ASSUME ConsentInv, UNCHANGED <<allowlist, history>>
  PROVE  ConsentInv'
BY DEF ConsentInv, history

LEMMA ExamplesLeaveConsent ==
  ASSUME Examples
  PROVE  UNCHANGED <<allowlist, history>>
<1>1. CASE StartExamples
  BY <1>1 DEF StartExamples, files
<1>2. CASE ReuseExamples
  BY <1>2 DEF ReuseExamples, files
<1>3. CASE GenerateExamples
  BY <1>3 DEF GenerateExamples
<1>4. CASE LlmFails
  BY <1>4 DEF LlmFails, files
<1>5. CASE EndSequential
  BY <1>5 DEF EndSequential
<1>6. CASE NothingToGenerate
  BY <1>6 DEF NothingToGenerate
<1>7. CASE SubmitBatch
  BY <1>7 DEF SubmitBatch, files
<1>8. CASE PollBatch
  BY <1>8 DEF PollBatch, files
<1>9. CASE ApplyResults
  BY <1>9 DEF ApplyResults
<1> QED BY <1>1, <1>2, <1>3, <1>4, <1>5, <1>6, <1>7, <1>8, <1>9 DEF Examples

LEMMA SurfaceStep ==
  ASSUME SurfaceInv, [Next]_vars
  PROVE  SurfaceInv'
<1>1. TypeInv /\ ExampleInv /\ ConsentInv
  BY DEF SurfaceInv
<1>2. ASSUME NEW release \in Release, Upgrade(release) PROVE SurfaceInv'
  <2>1. UNCHANGED <<allowlist, history>>
    BY <1>2 DEF Upgrade, files
  <2> QED BY <1>1, <1>2, <2>1, UpgradeStep, ConsentUnchanged DEF SurfaceInv
<1>3. CASE BuildRegistry
  <2>1. UNCHANGED <<allowlist, history>>
    BY <1>3 DEF BuildRegistry
  <2> QED BY <1>1, <1>3, <2>1, BuildRegistryStep, ConsentUnchanged DEF SurfaceInv
<1>4. CASE MergeExamples
  <2>1. UNCHANGED <<allowlist, history>>
    BY <1>4 DEF MergeExamples
  <2> QED BY <1>1, <1>4, <2>1, MergeExamplesStep, ConsentUnchanged DEF SurfaceInv
<1>5. CASE ReconcileAllowlist
  BY <1>1, <1>5, ReconcileStep DEF SurfaceInv
<1>6. CASE TearAllowlist
  BY <1>1, <1>6, TearStep DEF SurfaceInv
<1>12. CASE FailOnGarbled
  <2>1. UNCHANGED <<allowlist, history>>
    BY <1>12 DEF FailOnGarbled, files
  <2> QED BY <1>1, <1>12, <2>1, FailStep, ConsentUnchanged DEF SurfaceInv
<1>7. CASE Examples
  BY <1>1, <1>7, ExampleSteps, ExamplesLeaveConsent, ConsentUnchanged DEF SurfaceInv
<1>8. CASE Kill
  <2>1. UNCHANGED <<allowlist, history>>
    BY <1>8 DEF Kill, files
  <2> QED BY <1>1, <1>8, <2>1, KillStep, ConsentUnchanged DEF SurfaceInv
<1>9. CASE StartServer
  <2>1. UNCHANGED <<allowlist, history>>
    BY <1>9 DEF StartServer, files
  <2> QED BY <1>1, <1>9, <2>1, StartServerStep, ConsentUnchanged DEF SurfaceInv
<1>10. CASE EditStep
  <2>1. PICK i \in DOMAIN allowlist :
          Expose(i) \/ Triage(i) \/ Delete(i) \/ \E reason \in BOOLEAN : Hide(i, reason)
    BY <1>10 DEF EditStep
  <2> QED BY <1>1, <2>1, ExposeStep, TriageStep, DeleteStep, HideStep DEF SurfaceInv
<1>11. CASE UNCHANGED vars
  <2>1. UNCHANGED <<allowlist, history>>
    BY <1>11 DEF vars, files
  <2> QED BY <1>1, <1>11, <2>1, StutterStep, ConsentUnchanged DEF SurfaceInv
<1> QED BY <1>2, <1>3, <1>4, <1>5, <1>6, <1>7, <1>8, <1>9, <1>10, <1>11, <1>12
   DEF Next, Refresh

\* What the theorems rest on: the shape of the files and of the running script, who owns
\* which examples, that all flags are of one release, and that what the allowlist exposes
\* was chosen, or is remembered as what a write torn inside a line left of it.
THEOREM InductiveInvariant == Spec => []SurfaceInv
BY SurfaceInit, SurfaceStep, PTL DEF Spec
-----------------------------------------------------------------------------
(* The theorems. *)

\* The three files, the running script and the server hold what their readers
\* expect, after any sequence of refreshes, runs, edits and crashes.
THEOREM SurfaceTypes == Spec => []TypeOK
<1>1. ASSUME SurfaceInv PROVE TypeOK
  <2>1. TypeInv
    BY <1>1 DEF SurfaceInv
  <2>2. generated \in Nat /\ merged.tools \in Registries(generated) /\ merged.whole \in BOOLEAN
    BY <2>1 DEF TypeInv
  <2>3. /\ DOMAIN merged.tools \subseteq Tool
        /\ \A t \in DOMAIN merged.tools :
             /\ merged.tools[t].mutates \in BOOLEAN
             /\ merged.tools[t].examples \in {NoExamples} \cup [of : Tool, set : 1..generated]
    BY <2>2, RegistriesFacts
  <2>4. Mentioned(allowlist) \subseteq Tool
    BY <2>1, MentionsTools DEF TypeInv
  <2>5. remains \subseteq Exposing(allowlist)
    BY <1>1 DEF SurfaceInv, ConsentInv, Consented
  <2> QED BY <2>1, <2>2, <2>3, <2>4, <2>5, FlatFacts, JobFacts DEF TypeOK, TypeInv
<1> QED BY <1>1, InductiveInvariant, PTL

\* port_examples, the carrying by id, and the two ways of 02 to write examples never
\* give the examples of one tool to another, whatever was torn, resumed or reordered.
THEOREM ExamplesStayWithTheirTool == Spec => []ExamplesBelongToOneTool
<1>1. ASSUME SurfaceInv PROVE ExamplesBelongToOneTool
  BY <1>1 DEF SurfaceInv, ExampleInv, Own, ExamplesBelongToOneTool
<1> QED BY <1>1, InductiveInvariant, PTL

\* The mutates flags of tools.registry.with_examples.json are those of one release,
\* whatever 02 and 03 were killed in, and whatever they resumed from.
THEOREM FlagsAreOfOneRelease == Spec => []RegistryIsOfOneRelease
<1>1. ASSUME SurfaceInv PROVE RegistryIsOfOneRelease
  BY <1>1 DEF SurfaceInv, ExampleInv, OfOneRelease, RegistryIsOfOneRelease
<1> QED BY <1>1, InductiveInvariant, PTL

\* reconcile_allowlist is idempotent on every file that people, crashes and earlier
\* reconciles can leave, lines that were cut short included.
THEOREM ReconcilingTwiceIsOnce == Spec => []ReconcileIsIdempotent
<1>1. ASSUME SurfaceInv PROVE ReconcileIsIdempotent
  <2>1. allowlist \in Seq(Line) /\ sdk \in Release
    BY <1>1 DEF SurfaceInv, TypeInv
  <2>2. DOMAIN Registry(sdk) \in SUBSET Tool /\ IsFiniteSet(DOMAIN Registry(sdk))
    BY <2>1, RegistryFacts
  <2> QED BY <2>1, <2>2, ReconcileTwice DEF ReconcileIsIdempotent
<1> QED BY <1>1, InductiveInvariant, PTL

\* A refresh that ends has filed every tool of the registry that is not excluded, and
\* forgets no tool that the file named before.
THEOREM RefreshFilesEveryTool == Spec => EveryToolIsFiled
<1>1. ASSUME SurfaceInv, [Next]_vars
      PROVE  [ReconcileAllowlist =>
                /\ Mentioned(allowlist) \subseteq Mentioned(allowlist')
                /\ \A t \in DOMAIN flat.tools :
                     ModuleOf[t] \notin ExcludedModules => t \in Mentioned(allowlist')]_vars
  <2>1. TypeInv
    BY <1>1 DEF SurfaceInv
  <2>2. ASSUME ReconcileAllowlist
        PROVE  /\ Mentioned(allowlist) \subseteq Mentioned(allowlist')
               /\ \A t \in DOMAIN flat.tools :
                    ModuleOf[t] \notin ExcludedModules => t \in Mentioned(allowlist')
    <3> DEFINE registry == DOMAIN flat.tools
    <3>1. allowlist' = Reconcile(allowlist, registry)
      BY <2>2 DEF ReconcileAllowlist
    <3>2. registry \in SUBSET Tool /\ IsFiniteSet(registry) /\ allowlist \in Seq(Line)
      BY <2>1, FlatFacts DEF TypeInv
    <3> HIDE DEF registry
    <3>3. /\ Mentioned(allowlist) \subseteq Mentioned(Reconcile(allowlist, registry))
          /\ \A t \in registry : ModuleOf[t] \notin ExcludedModules =>
                                   t \in Mentioned(Reconcile(allowlist, registry))
      BY <3>2, ReconcileFiles
    <3> QED BY <3>1, <3>3 DEF registry
  <2> QED BY <2>2
<1> QED BY <1>1, InductiveInvariant, PTL DEF Spec, EveryToolIsFiled

\* No sequence of refreshes, edits and crashes makes a server that starts offer a tool
\* that nobody chose to expose, but for what a write torn inside an active line turns
\* that very line into: another tool's, or a module's.
THEOREM NothingIsExposedUnasked == Spec => OnlyChosenToolsAreServed
<1>1. ASSUME SurfaceInv, [Next]_vars
      PROVE  [server' # server =>
                \A t \in DOMAIN server' :
                  \/ t \in consent \/ ModuleOf[t] \in Modules(FirstAllowlist)
                  \/ {ToolLine(t, TRUE), ModuleLine(ModuleOf[t])} \cap remains # {}]_vars
  <2>1. ASSUME StartServer, NEW t \in DOMAIN server'
        PROVE  \/ t \in consent \/ ModuleOf[t] \in Modules(FirstAllowlist)
               \/ {ToolLine(t, TRUE), ModuleLine(ModuleOf[t])} \cap remains # {}
    <3>1. t \in Selected
      BY <2>1 DEF StartServer, EmptyDict
    <3>2. t \in ActiveIds(allowlist) \/ ModuleOf[t] \in Modules(allowlist)
      BY <3>1 DEF Selected
    <3>3. /\ \A u \in ActiveIds(allowlist) : u \in consent \/ ToolLine(u, TRUE) \in remains
          /\ \A m \in Modules(allowlist) :
               m \in Modules(FirstAllowlist) \/ ModuleLine(m) \in remains
      BY <1>1 DEF SurfaceInv, ConsentInv, Consented
    <3> QED BY <3>2, <3>3
  <2>2. ASSUME Next, ~StartServer PROVE server' = server
    <3>1. CASE \E release \in Release : Upgrade(release)
      BY <3>1 DEF Upgrade
    <3>2. CASE Refresh
      BY <3>2 DEF Refresh, BuildRegistry, MergeExamples, ReconcileAllowlist, TearAllowlist,
           FailOnGarbled
    <3>3. CASE Examples
      BY <3>3 DEF Examples, StartExamples, ReuseExamples, GenerateExamples, LlmFails,
           EndSequential, NothingToGenerate, SubmitBatch, PollBatch, ApplyResults
    <3>4. CASE Kill
      BY <3>4 DEF Kill
    <3>5. CASE EditStep
      BY <3>5 DEF EditStep, Expose, Triage, Delete, Hide, Edit
    <3> QED BY <2>2, <3>1, <3>2, <3>3, <3>4, <3>5 DEF Next
  <2> QED BY <1>1, <2>1, <2>2 DEF vars
<1> QED BY <1>1, InductiveInvariant, PTL DEF Spec, OnlyChosenToolsAreServed
=============================================================================
