---------------------------- MODULE ToolSurface ----------------------------
(***************************************************************************)
(* From the PySisense SDK to the tools a client sees: the refresh          *)
(* (01_build_registry_from_sdk, 03_reconcile), the LLM examples (02), the  *)
(* allowlist people edit, and the start of fes-mcp, which reads the        *)
(* registry and the allowlist once (load_registry, select_tools).          *)
(*                                                                         *)
(* All of them meet in three files that are overwritten in place; a script *)
(* may be killed at any moment, in the middle of a write too, which leaves *)
(* a torn file: part of the text, cut between two lines or inside one.     *)
(* One operator runs one script at a time; edits and server starts come at *)
(* any time.                                                               *)
(*                                                                         *)
(* An allowlist line is a tool line (active, or commented), the rationale  *)
(* above one, a module name, a section header, or one cut inside a         *)
(* character, which is no UTF-8.  Prose, batch titles and blank lines are  *)
(* left out.  Tool ids are numbered in registry order; some may be names   *)
(* that no release has.                                                    *)
(***************************************************************************)
EXTENDS Naturals, SequencesExt, Dicts

CONSTANTS
  Tool, Module, ModuleOf,
  ExcludedModules,   \* EXCLUDED_MODULES
  ReadOnlyTools,     \* MUTATES_OVERRIDES, which are all False
  StartsWith,        \* <<a, b>>: the name a, of a tool or a module, properly begins
                     \* with the name b
  Similar,           \* <<a, b>>: same module and parameters, and _similar_name(a, b)
  Release,           \* SDK releases: method -> [prefix, verb, deprecated], what
                     \* is_mutating and _is_deprecated_alias see of a method
  FirstRelease, FirstAllowlist,
  AllowMutations,    \* settings.allow_mutations
  SaveEvery,         \* the 5 of _run_sequential
  MaxUpgrades, MaxEdits, MaxTears,   \* bounds, for TLC, and one on example runs and
  MaxInterventions                   \* edits together

ASSUME SurfaceConstants ==
  /\ Tool \subseteq Nat
  /\ ModuleOf \in [Tool -> Module]
  /\ StartsWith \subseteq (Tool \cup Module) \X (Tool \cup Module)
  /\ \A t \in Tool : <<t, ModuleOf[t]>> \in StartsWith
  /\ Similar \subseteq Tool \X Tool
  /\ FirstRelease \in Release
  /\ \A release \in Release :
       /\ DOMAIN release \subseteq Tool /\ IsFiniteSet(DOMAIN release)
       /\ \A t \in DOMAIN release :
            release[t] \in [prefix : {"read", "mutate", "other"},
                           verb : BOOLEAN, deprecated : BOOLEAN]
  /\ SaveEvery \in Nat \ {0}

VARIABLES
  sdk,         \* the installed release
  flat,        \* tools.registry.json, as [whole, tools: tool -> mutates]
  merged,      \* tools.registry.with_examples.json, as
               \* [whole, tools: tool -> [mutates, examples]]
  allowlist,   \* allowlist.txt, a sequence of lines
  job,         \* the script that runs
  server,      \* the running fes-mcp: the selected tools and their mutates flag
  generated,   \* how many example runs there were; each writes a set of its own
  upgrades, edits, tears,
  consent,     \* history: the tools somebody chose to expose and the SDK kept since
  remains      \* history: the lines of allowlist.txt that expose a tool or a module
               \* and are what was left of a line when its file was torn

files == <<flat, merged, allowlist>>
bounds == <<generated, upgrades, edits, tears>>
history == <<consent, remains>>
vars == <<sdk, files, job, server, bounds, history>>

NoExamples == [set |-> 0]
ExamplesFor(t, set) == [of |-> t, set |-> set]
NoJob == [script |-> "none"]
Torn == [whole |-> FALSE, tools |-> EmptyDict]
Whole(tools) == [whole |-> TRUE, tools |-> tools]

ToolLine(id, active) == [kind |-> "tool", id |-> id, active |-> active]
Rationale(id) == [kind |-> "rationale", id |-> id]
ModuleLine(module) == [kind |-> "module", module |-> module]
DeprecatedHeader == [kind |-> "deprecated"]
StagedHeader == [kind |-> "staged"]
Garbled == [kind |-> "garbled"]

IsHeader(line) == line.kind \in {"deprecated", "staged"}
IsTool(line) == line.kind = "tool"
Mentioned(lines) == {lines[i].id : i \in {j \in DOMAIN lines : IsTool(lines[j])}}
ActiveIds(lines) ==
  {lines[i].id : i \in {j \in DOMAIN lines : IsTool(lines[j]) /\ lines[j].active}}
Modules(lines) == {lines[i].module : i \in {j \in DOMAIN lines : lines[j].kind = "module"}}

\* read_text raises on a file that is no UTF-8.
Readable(lines) == \A i \in DOMAIN lines : lines[i].kind # "garbled"

\* The lines that make a server offer something.
Exposing(lines) ==
  {ToolLine(t, TRUE) : t \in ActiveIds(lines)} \cup {ModuleLine(m) : m \in Modules(lines)}

Line ==
  [kind : {"tool"}, id : Tool, active : BOOLEAN] \cup [kind : {"rationale"}, id : Tool]
    \cup [kind : {"module"}, module : Module]
    \cup [kind : {"deprecated", "staged", "garbled"}]

\* section_of: the section of line i is that of the last header up to it.
SectionOf(lines, i) ==
  LET headers == {j \in 1..i : IsHeader(lines[j])}
  IN  IF headers = {} THEN "live" ELSE lines[Max(headers)].kind

\* A line that somebody commented out because its tool is gone stays commented out: the
\* header of its section says "never uncomment".
NothingDeprecatedIsActive(lines) ==
  \A i \in DOMAIN lines :
    IsTool(lines[i]) /\ lines[i].active => SectionOf(lines, i) # "deprecated"

\* The allowlist of the repository.
ASSUME FirstAllowlistIsOne ==
  /\ FirstAllowlist \in Seq(Line) /\ Readable(FirstAllowlist)
  /\ NothingDeprecatedIsActive(FirstAllowlist)

\* sorted()
Sorted(ids) ==
  [k \in 1..Cardinality(ids) |->
     CHOOSE id \in ids : Cardinality({other \in ids : other < id}) = k - 1]

(* 01_build_registry_from_sdk. *)

\* def is_mutating(name, doc): the prefix of the name decides, else a verb anywhere
\* in the name or the docstring.
IsMutating(method) ==
  \/ method.prefix = "mutate"
  \/ method.prefix = "other" /\ method.verb

\* def build_registry(): private methods and deprecated aliases are no tools.
Registry(release) ==
  [t \in {u \in DOMAIN release : ~release[u].deprecated} |-> IsMutating(release[t])]

Init ==
  /\ sdk = FirstRelease
  /\ flat = Torn
  /\ merged = Whole([t \in DOMAIN Registry(FirstRelease) |->
                       [mutates |-> Registry(FirstRelease)[t],
                        examples |-> ExamplesFor(t, 1)]])
  /\ allowlist = FirstAllowlist
  /\ job = NoJob
  /\ server = EmptyDict
  /\ generated = 1
  /\ upgrades = 0 /\ edits = 0 /\ tears = 0
  /\ consent = ActiveIds(FirstAllowlist)
  /\ remains = {}
-----------------------------------------------------------------------------
(* 03_reconcile: the allowlist. *)

\* What a loop over the lines keeps of them that passes over all but these places.
LinesAt(lines, places) ==
  LET upTo[n \in 0..Len(lines)] ==
        IF n = 0 THEN <<>>
        ELSE IF n \in places THEN Append(upTo[n - 1], lines[n])
        ELSE upTo[n - 1]
  IN  upTo[Len(lines)]

Section(lines, name) ==
  LinesAt(lines, {i \in DOMAIN lines : SectionOf(lines, i) = name /\ ~IsHeader(lines[i])})

IsDead(line, registry) == IsTool(line) /\ line.id \notin registry

\* Mutant: a line that moves to DEPRECATED is moved as it is.
CommentedAsIs(line) == line

\* "line if line.strip().startswith('#') else f'# {line}'"
Commented(line) == [line EXCEPT !.active = FALSE]

\* "kept and kept[-1].strip().startswith('# [excluded:')"
Annotated(kept) == kept # <<>> /\ Last(kept).kind = "rationale"

\* The live lines that stay and those that leave, each with its rationale.
SortedLine(line, kept, dead, registry) ==
  IF ~IsDead(line, registry)
  THEN [kept |-> Append(kept, line), dead |-> dead]
  ELSE IF Annotated(kept)
  THEN [kept |-> Front(kept), dead |-> dead \o <<Last(kept), Commented(line)>>]
  ELSE [kept |-> kept, dead |-> Append(dead, Commented(line))]

SortLive(lines, registry) ==
  LET upTo[n \in 0..Len(lines)] ==
        IF n = 0 THEN [kept |-> <<>>, dead |-> <<>>]
        ELSE SortedLine(lines[n], upTo[n - 1].kept, upTo[n - 1].dead, registry)
  IN  upTo[Len(lines)]

\* Mutant: lines of the special sections do not count.
KnownIdsLiveOnly(lines) == Mentioned(Section(lines, "live"))

\* The ids that are not to be staged: those any line mentions, commented or not.
KnownIds(lines) == Mentioned(lines)

\* "[''] + [HEADER] + lines", when there is a line
WithHeader(header, lines) == IF lines = <<>> THEN <<>> ELSE <<header>> \o lines

\* Mutant: a staged line whose tool is gone is dropped.
DyingDropped(staged, registry) == <<>>

\* The staged lines that move to DEPRECATED, and those that stay.
Dying(staged, registry) ==
  LET dead == LinesAt(staged, {i \in DOMAIN staged : IsDead(staged[i], registry)})
  IN  [k \in DOMAIN dead |-> Commented(dead[k])]

Waiting(staged, registry) ==
  LinesAt(staged, {i \in DOMAIN staged : ~IsDead(staged[i], registry)})

\* def reconcile_allowlist(text, registry, sdk_version, exclude_modules)
Reconcile(lines, registry) ==
  LET live   == SortLive(Section(lines, "live"), registry)
      staged == Section(lines, "staged")
      newIds == {t \in registry \ KnownIds(lines) : ModuleOf[t] \notin ExcludedModules}
      batch  == Sorted(newIds)
  IN  live.kept
      \o WithHeader(DeprecatedHeader,
           Section(lines, "deprecated") \o live.dead \o Dying(staged, registry))
      \o WithHeader(StagedHeader,
           Waiting(staged, registry)
           \o [k \in DOMAIN batch |-> ToolLine(batch[k], FALSE)])
-----------------------------------------------------------------------------
(* 03_reconcile: the examples. *)

HasExamples(tools, t) == t \in DOMAIN tools /\ tools[t].examples # NoExamples

\* The old tools whose examples look for a new home, and the tools that look for
\* examples.
Vanished(old, fresh) == {t \in DOMAIN old \ DOMAIN fresh : HasExamples(old, t)}
Unexplained(old, fresh) == DOMAIN fresh \ DOMAIN old

\* Mutant: a tool with several candidates gives its examples to each of them.
PortsToAll(old, fresh) ==
  LET vanished == Vanished(old, fresh)
  IN  {p \in (vanished \X Unexplained(old, fresh)) \cap Similar :
         {t \in vanished : <<p[2], t>> \in Similar} = {p[1]}}

\* def port_examples(old_tools, new_tools): the unambiguous renames.
Ports(old, fresh) ==
  LET vanished == Vanished(old, fresh)
      new == Unexplained(old, fresh)
  IN  {p \in vanished \X new :
         /\ {t \in new : <<p[1], t>> \in Similar} = {p[2]}
         /\ {t \in vanished : <<p[2], t>> \in Similar} = {p[1]}}

\* The merged registry of main(): examples carried by id, then ported.
Merge(old, fresh) ==
  LET ports == Ports(old, fresh)
  IN  [t \in DOMAIN fresh |->
        [mutates |-> fresh[t],
         examples |-> IF HasExamples(old, t)
                      THEN old[t].examples
                      ELSE IF \E p \in ports : p[2] = t
                           THEN old[(CHOOSE p \in ports : p[2] = t)[1]].examples
                           ELSE NoExamples]]
-----------------------------------------------------------------------------
(* The scripts. *)

\* The dependency is bumped and synced.
Upgrade(release) ==
  /\ upgrades < MaxUpgrades
  /\ release # sdk
  /\ job = NoJob
  /\ sdk' = release
  /\ upgrades' = upgrades + 1
  /\ UNCHANGED <<files, job, server, generated, edits, tears, history>>

\* Mutant: the next script runs although this one failed.
RewriteRegardless(file, tools, nextJob) ==
  file' \in {Whole(tools), Torn} /\ job' = nextJob

\* A file is written, or the script is killed halfway.
Rewrite(file, tools, nextJob) ==
  \/ file' = Whole(tools) /\ job' = nextJob
  \/ file' = Torn /\ job' = NoJob

\* The script is killed between two writes.
Kill ==
  /\ job # NoJob
  /\ job' = NoJob
  /\ UNCHANGED <<sdk, files, server, bounds, history>>

\* 01_build_registry_from_sdk, the first step of refresh_registry.sh
BuildRegistry ==
  /\ job = NoJob
  /\ Rewrite(flat, Registry(sdk), [script |-> "refresh"])
  /\ UNCHANGED <<sdk, merged, allowlist, server, bounds, history>>

\* 03_reconcile up to the merged registry; a torn one is a JSONDecodeError.
MergeExamples ==
  /\ job.script = "refresh"
  /\ IF merged.whole
     THEN Rewrite(merged, Merge(merged.tools, flat.tools), [script |-> "reconcile"])
     ELSE job' = NoJob /\ UNCHANGED merged
  /\ UNCHANGED <<sdk, flat, allowlist, server, bounds, history>>

\* What is left of a line that is cut short, where it is more than prose: a name
\* that its own begins with (behind a "#" only a tool's says anything), or bytes that
\* end inside a character.
Remnants(line) ==
  {Garbled}
    \cup {ToolLine(t, line.active) :
            t \in {u \in Tool : IsTool(line) /\ <<line.id, u>> \in StartsWith}}
    \cup {ModuleLine(m) :
            m \in {n \in Module :
              \/ IsTool(line) /\ line.active /\ <<line.id, n>> \in StartsWith
              \/ line.kind = "module" /\ <<line.module, n>> \in StartsWith}}

\* 03_reconcile to its end.
ReconcileAllowlist ==
  /\ job.script = "reconcile"
  /\ Readable(allowlist)
  /\ allowlist' = Reconcile(allowlist, DOMAIN flat.tools)
  /\ consent' = consent \cap DOMAIN flat.tools
  /\ remains' = remains \cap Exposing(allowlist')
  /\ job' = NoJob
  /\ UNCHANGED <<sdk, flat, merged, server, bounds>>

\* ... or killed while it writes the allowlist, of which the first k lines remain,
\* and perhaps a remnant of the next.
TearAllowlist ==
  /\ tears < MaxTears
  /\ job.script = "reconcile"
  /\ Readable(allowlist)
  /\ LET new == Reconcile(allowlist, DOMAIN flat.tools)
     IN  \E k \in 0..Len(new) :
           \/ /\ allowlist' = SubSeq(new, 1, k)
              /\ remains' = remains \cap Exposing(allowlist')
           \/ /\ k < Len(new)
              /\ \E remnant \in Remnants(new[k + 1]) :
                   /\ allowlist' = Append(SubSeq(new, 1, k), remnant)
                   /\ remains' = (remains \cup {remnant}) \cap Exposing(allowlist')
  /\ tears' = tears + 1
  /\ job' = NoJob
  /\ UNCHANGED <<sdk, flat, merged, server, generated, upgrades, edits, consent>>

\* ... or it cannot read the allowlist, once the merged registry is written.
FailOnGarbled ==
  /\ job.script = "reconcile"
  /\ ~Readable(allowlist)
  /\ job' = NoJob
  /\ UNCHANGED <<sdk, files, server, bounds, history>>
-----------------------------------------------------------------------------
(* 02_add_llm_examples_to_registry. *)

\* load_existing_with_examples: a torn file counts as none.
Existing == IF merged.whole THEN merged.tools ELSE EmptyDict

Missing(existing) == {t \in DOMAIN flat.tools : ~HasExamples(existing, t)}

\* Mutant: the entry that has the examples is kept, not its examples.
ReusedEntries(existing) ==
  [t \in DOMAIN flat.tools \ Missing(existing) |-> existing[t]]

\* already_done: the tools of the flat registry, with the examples they had.
Reused(existing) ==
  [t \in DOMAIN flat.tools \ Missing(existing) |->
     [mutates |-> flat.tools[t], examples |-> existing[t].examples]]

\* main(): LLM_PROVIDER decides.
StartExamples ==
  /\ job = NoJob
  /\ flat.whole
  /\ generated + edits < MaxInterventions
  /\ generated' = generated + 1
  /\ \/ job' = [script |-> "sequential", queue |-> Sorted(DOMAIN flat.tools),
                existing |-> Existing, reuse |-> TRUE, done |-> 0,
                enriched |-> EmptyDict]
     \/ job' = [script |-> "batch", stage |-> "split", existing |-> Existing]
  /\ UNCHANGED <<sdk, files, server, upgrades, edits, tears, history>>

\* _run_sequential: the next tool reuses its examples ("continue"),
ReuseExamples ==
  /\ job.script = "sequential"
  /\ job.done < Len(job.queue)
  /\ LET t == job.queue[job.done + 1]
     IN  /\ job.reuse /\ HasExamples(job.existing, t)
         /\ job' = [job EXCEPT !.done = @ + 1,
                      !.enriched = Put(@, t, Reused(job.existing)[t])]
  /\ UNCHANGED <<sdk, files, server, bounds, history>>

\* or it has none, and the LLM is called,
CallsLlm(t) == ~ (job.reuse /\ HasExamples(job.existing, t))

\* parse_examples: the answer, in a fence or not, or none that parses.
Written(t, parses) == IF parses THEN ExamplesFor(t, generated) ELSE NoExamples

\* which answers, and every SaveEvery tools what is done so far is saved,
GenerateExamples ==
  /\ job.script = "sequential"
  /\ job.done < Len(job.queue)
  /\ LET t == job.queue[job.done + 1]
         index == job.done + 1
     IN  /\ CallsLlm(t)
         /\ \E parses \in BOOLEAN :
              LET enriched == Put(job.enriched, t,
                    [mutates |-> flat.tools[t], examples |-> Written(t, parses)])
                  next == [job EXCEPT !.done = index, !.enriched = enriched]
              IN  IF index % SaveEvery = 0 \/ index = Len(job.queue)
                  THEN Rewrite(merged, enriched, next)
                  ELSE job' = next /\ UNCHANGED merged
  /\ UNCHANGED <<sdk, flat, allowlist, server, bounds, history>>

\* or call_llm raises, after its retries or at once, and the script ends.
LlmFails ==
  /\ job.script = "sequential"
  /\ job.done < Len(job.queue)
  /\ CallsLlm(job.queue[job.done + 1])
  /\ job' = NoJob
  /\ UNCHANGED <<sdk, files, server, bounds, history>>

\* The script ends; the sequential run of a failed batch is completed first.
EndSequential ==
  /\ job.script = "sequential"
  /\ job.done = Len(job.queue)
  /\ IF job.reuse
     THEN job' = NoJob /\ UNCHANGED merged
     ELSE Rewrite(merged, [t \in DOMAIN flat.tools |->
                             IF t \in DOMAIN job.enriched THEN job.enriched[t]
                             ELSE Reused(job.existing)[t]], NoJob)
  /\ UNCHANGED <<sdk, flat, allowlist, server, bounds, history>>

\* _run_batch: every tool has examples, which are saved without a call.
NothingToGenerate ==
  /\ job.script = "batch" /\ job.stage = "split"
  /\ Missing(job.existing) = {}
  /\ Rewrite(merged, Reused(job.existing), NoJob)
  /\ UNCHANGED <<sdk, flat, allowlist, server, bounds, history>>

\* _fallback: the missing tools are done one by one.
FallBackJob ==
  [script |-> "sequential", queue |-> Sorted(Missing(job.existing)),
   existing |-> job.existing, reuse |-> FALSE, done |-> 0, enriched |-> EmptyDict]

\* A request for each missing tool is uploaded and the batch created, or one of
\* the two fails.
SubmitBatch ==
  /\ job.script = "batch" /\ job.stage = "split"
  /\ Missing(job.existing) # {}
  /\ job' \in {[job EXCEPT !.stage = "polling"], FallBackJob}
  /\ UNCHANGED <<sdk, files, server, bounds, history>>

\* _poll_batch returns when the batch is completed, or failed, cancelled or expired.
PollBatch ==
  /\ job.script = "batch" /\ job.stage = "polling"
  /\ job' \in {[job EXCEPT !.stage = "completed"], FallBackJob}
  /\ UNCHANGED <<sdk, files, server, bounds, history>>

\* results_by_id: content by custom_id.
ResultsById(results, missing) ==
  [t \in Range(results) |-> t]

\* The results are downloaded, in any order, and applied; those that are absent or
\* do not parse leave a tool without examples, and all is saved.
ApplyResults ==
  /\ job.script = "batch" /\ job.stage = "completed"
  /\ LET missing == Missing(job.existing)
     IN  \E results \in SetToAllKPermutations(missing) :
           LET contents == ResultsById(results, missing)
           IN  Rewrite(merged, [t \in DOMAIN flat.tools |->
                 IF t \notin missing THEN Reused(job.existing)[t]
                 ELSE [mutates |-> flat.tools[t],
                       examples |-> IF t \in DOMAIN contents
                                    THEN ExamplesFor(contents[t], generated)
                                    ELSE NoExamples]], NoJob)
  /\ UNCHANGED <<sdk, flat, allowlist, server, bounds, history>>
-----------------------------------------------------------------------------
(* fes-mcp starts: settings, load_registry, select_tools. *)

SeemsMutating(t) == t \notin ReadOnlyTools /\ merged.tools[t].mutates

\* def select_tools(tools, allowlist, allow_mutations)
Selected ==
  {t \in DOMAIN merged.tools :
     /\ ModuleOf[t] \notin ExcludedModules
     /\ t \in ActiveIds(allowlist) \/ ModuleOf[t] \in Modules(allowlist)
     /\ SeemsMutating(t) => AllowMutations}

\* A torn registry, a garbled allowlist, or an empty selection is an exception: the
\* service is down.
StartServer ==
  /\ server' = IF merged.whole /\ Readable(allowlist)
               THEN [t \in Selected |-> SeemsMutating(t)]
               ELSE EmptyDict
  /\ UNCHANGED <<sdk, files, job, bounds, history>>
-----------------------------------------------------------------------------
(* People edit the allowlist. *)

Edit(lines, chosen) ==
  /\ edits < MaxEdits
  /\ generated + edits < MaxInterventions
  /\ edits' = edits + 1
  /\ allowlist' = lines
  /\ consent' = chosen
  /\ remains' = remains \cap Exposing(lines)
  /\ UNCHANGED <<sdk, flat, merged, job, server, generated, upgrades, tears>>

\* The rationale above a line goes when it no longer applies.
WithoutRationale(lines, i) ==
  IF i > 1 /\ lines[i - 1].kind = "rationale" THEN RemoveAt(lines, i - 1) ELSE lines

WithoutLine(lines, i) ==
  IF i > 1 /\ lines[i - 1].kind = "rationale"
  THEN RemoveAt(RemoveAt(lines, i), i - 1)
  ELSE RemoveAt(lines, i)

\* A line outside DEPRECATED ("never uncomment") is uncommented.
Expose(i) ==
  /\ IsTool(allowlist[i]) /\ ~allowlist[i].active
  /\ SectionOf(allowlist, i) # "deprecated"
  /\ Edit(WithoutRationale([allowlist EXCEPT ![i].active = TRUE], i),
          consent \cup {allowlist[i].id})

\* The line of a tool, wherever it is, moves to the top of the file, active.
Triage(i) ==
  /\ IsTool(allowlist[i])
  /\ Edit(<<ToolLine(allowlist[i].id, TRUE)>> \o WithoutLine(allowlist, i),
          consent \cup {allowlist[i].id})

\* A line is commented out, with the reason above it or without.
Hide(i, reason) ==
  /\ IsTool(allowlist[i]) /\ allowlist[i].active
  /\ LET hidden == [allowlist EXCEPT ![i].active = FALSE]
     IN  Edit(IF reason THEN InsertAt(hidden, i, Rationale(allowlist[i].id)) ELSE hidden,
              consent \cap ActiveIds(hidden))

\* A line is deleted, also what is left of one.
Delete(i) ==
  /\ allowlist[i].kind \in {"tool", "module", "garbled"}
  /\ Edit(WithoutLine(allowlist, i), consent \cap ActiveIds(WithoutLine(allowlist, i)))
-----------------------------------------------------------------------------
Refresh ==
  BuildRegistry \/ MergeExamples \/ ReconcileAllowlist \/ TearAllowlist \/ FailOnGarbled

Examples ==
  \/ StartExamples
  \/ ReuseExamples \/ GenerateExamples \/ LlmFails \/ EndSequential
  \/ NothingToGenerate \/ SubmitBatch \/ PollBatch \/ ApplyResults

EditStep ==
  \E i \in DOMAIN allowlist :
    Expose(i) \/ Triage(i) \/ Delete(i) \/ \E reason \in BOOLEAN : Hide(i, reason)

Next ==
  \/ \E release \in Release : Upgrade(release)
  \/ Refresh
  \/ Examples
  \/ Kill
  \/ StartServer
  \/ EditStep

Spec == Init /\ [][Next]_vars
-----------------------------------------------------------------------------
\* The files hold what their readers expect of them.
TypeOK ==
  /\ sdk \in Release
  /\ flat.whole \in BOOLEAN /\ DOMAIN flat.tools \subseteq Tool
  /\ merged.whole \in BOOLEAN /\ DOMAIN merged.tools \subseteq Tool
  /\ \A t \in DOMAIN merged.tools :
       /\ merged.tools[t].mutates \in BOOLEAN
       /\ \/ merged.tools[t].examples = NoExamples
          \/ merged.tools[t].examples \in [of : Tool, set : 1..generated]
  /\ Mentioned(allowlist) \cup DOMAIN server \cup consent \subseteq Tool
  /\ remains \subseteq Exposing(allowlist)
  /\ job.script = "reconcile" => flat.whole

\* "Without ever exposing a tool automatically" (03_reconcile.py:2), as far as it is
\* true.  A server that starts offers a tool only if somebody chose to expose it, and
\* no refresh has found it gone from the SDK since (module names in the allowlist are
\* such a choice for the tools of the module), or if its line, or the line with its
\* module, is itself what a kill inside the write left of a longer line that was
\* active, or of a module's: "datamodel.get_datasecurity_detail" cut to a tool that is
\* hidden on purpose, or to "datamodel".  Nobody chose those, and the code cannot tell.
\* Refreshes, releases, edits and files torn between lines expose nothing else.
OnlyChosenToolsAreServed ==
  [][server' # server =>
       \A t \in DOMAIN server' :
         \/ t \in consent \/ ModuleOf[t] \in Modules(FirstAllowlist)
         \/ {ToolLine(t, TRUE), ModuleLine(ModuleOf[t])} \cap remains # {}]_vars

\* 03_reconcile.py:25, "idempotent": reconciling any file people and crashes can
\* produce, and the script can read, once more changes nothing.
ReconcileIsIdempotent ==
  LET registry == DOMAIN Registry(sdk)
      once == Reconcile(allowlist, registry)
  IN  Readable(allowlist) => Reconcile(once, registry) = once

\* 03_reconcile.py:23: after a refresh every tool of the SDK that is not excluded
\* can be found in the file, and nothing the file said before is forgotten.
EveryToolIsFiled ==
  [][ReconcileAllowlist =>
       /\ Mentioned(allowlist) \subseteq Mentioned(allowlist')
       /\ \A t \in DOMAIN flat.tools :
            ModuleOf[t] \notin ExcludedModules => t \in Mentioned(allowlist')]_vars

\* A chain of renames may lead from tool a to tool b.
Renamed(a, b) ==
  \A tools \in SUBSET Tool :
    a \in tools /\ (\A p \in Similar : p[1] \in tools => p[2] \in tools) => b \in tools

\* Ported, carried, generated again, saved in part or returned by a batch in another
\* order: the examples of a tool were written for it, or for a tool it was renamed
\* from, and no two tools of the registry have the same set.
ExamplesBelongToOneTool ==
  \A t \in DOMAIN merged.tools : HasExamples(merged.tools, t) =>
    LET examples == merged.tools[t].examples
    IN  /\ Renamed(examples.of, t)
        /\ \A u \in DOMAIN merged.tools : merged.tools[u].examples = examples => u = t

\* The merged registry is a part of what one release says: whatever was reused,
\* resumed or torn, no tool keeps the mutates flag (on which the confirmation of
\* its calls depends) of another release than its neighbours.
RegistryIsOfOneRelease ==
  \E release \in Release :
    \A t \in DOMAIN merged.tools :
      /\ t \in DOMAIN Registry(release)
      /\ merged.tools[t].mutates = Registry(release)[t]

\* 02_add_llm_examples_to_registry.py:415, "so we can resume without losing
\* previous work": when a sequential run ends, and nobody killed it, the tools that
\* had examples when it began have them still.
ResumeLosesNothing ==
  [][EndSequential /\ job.reuse /\ merged.whole =>
       \A t \in DOMAIN flat.tools :
         HasExamples(job.existing, t) => HasExamples(merged'.tools, t)]_vars
=============================================================================
