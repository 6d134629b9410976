------------------------------ MODULE VaultPages ------------------------------
(* The compiled pages of the knowledge vault and the manifest that names     *)
(* them (control_plane/vault_learning): an ingest job with one worker        *)
(* cleans up, ingests sources and then backfills the names that each source  *)
(* is evidence for, while the routes of the event loop dismiss and restore   *)
(* entities, refresh the explorer and prune pages.  Every one of them works  *)
(* on a copy of the manifest of its own.                                     *)
EXTENDS Integers, FiniteSets

CONSTANTS Sources,     \* the source ids
          Names,       \* [kind, slug] of the pages an analysis may name
          MaxVersion,  \* bound: contents a source's url may show in turn
          PageLoads    \* workloads: how many clips and jobs, and which routes

ASSUME PagesAssumption ==
  /\ Names \subseteq [kind : {"entity", "concept"}, slug : STRING]
  /\ \A n \in Names : n.slug \notin {"in", "noise"}   \* what stands for no entity below
  /\ MaxVersion \in Nat \ {0}

Slugs == {n.slug : n \in Names}
Entities == {n.slug : n \in {m \in Names : m.kind = "entity"}}
Entity(e) == [kind |-> "entity", slug |-> e]

VARIABLES web,      \* the content each url shows now
          disk,     \* the manifest: records of sources, dismissals of entities
          own,      \* sources/<id>.md: the content it was written from, 0 without
          backing,  \* source_refs of each name's page, {} without a page
          jb,       \* the job's runner
          rt,       \* the route the event loop is in
          preview,  \* what the last dry run of the lint flagged
          budget,   \* what is left of the workload
          lost,     \* history: a save wrote over one it had not seen
          torn      \* history: a route deleted pages beside a runner that it
                    \* had not seen, or by an outdated copy

pages == <<web, disk, own, backing, jb, rt, preview, budget, lost, torn>>

PageStatuses == {"none", "ingested", "unchanged", "rejected"}
Manifest(record, out) == [rec |-> record, out |-> out]
NoRecord == [status |-> "none", hash |-> 0, refs |-> {}]
Empty == Manifest([s \in Sources |-> NoRecord], [e \in Entities |-> "in"])
NoBundle == [src |-> "none", content |-> 0, refs |-> {}, trusted |-> FALSE]
NoJob == [pc |-> "off", mem |-> Empty, base |-> Empty, bundle |-> NoBundle,
          todo |-> {}, force |-> FALSE]
NoRoute == [pc |-> "idle", mem |-> Empty, base |-> Empty, missed |-> FALSE]
JobPcs == {"off", "boot", "clean", "drain", "fetched", "written", "compiled", "report", "tail"}

\* active_runners: the runner counts itself in its first step.
Counted == jb.pc \notin {"off", "boot"}

PgTypeOK ==
  LET manifests == [rec : [Sources -> [status : PageStatuses, hash : 0..MaxVersion, refs : SUBSET Names]],
                    out : [Entities -> {"in", "noise"} \cup Entities]]
  IN /\ web \in [Sources -> 1..MaxVersion] /\ own \in [Sources -> 0..MaxVersion]
     /\ {disk, jb.mem, jb.base, rt.mem, rt.base} \subseteq manifests
     /\ backing \in [Names -> SUBSET Sources]
     /\ jb.pc \in JobPcs /\ jb.todo \subseteq Sources
     /\ rt.pc \in {"idle", "dismiss", "restore", "refresh", "clean", "prune", "prune2"}
     /\ preview \subseteq Names /\ lost \in BOOLEAN /\ torn \in BOOLEAN

PgInit ==
  /\ web = [s \in Sources |-> 1] /\ disk = Empty
  /\ own = [s \in Sources |-> 0] /\ backing = [n \in Names |-> {}]
  /\ jb = NoJob /\ rt = NoRoute /\ preview = {}
  /\ budget \in PageLoads /\ lost = FALSE /\ torn = FALSE

\* _save_manifest: the whole copy, whatever the file holds by now.
SaveManifest(copy, base) == /\ disk' = copy
                            /\ lost' = (lost \/ disk # base)

\* cleanup_orphan_compiled_files: the pages that a copy of the manifest does not
\* lead to.
Kept(m) == (UNION {m.rec[s].refs : s \in Sources})
             \ {Entity(e) : e \in {d \in Entities : m.out[d] # "in"}}
CleanUp(m) ==
  /\ own' = [s \in Sources |-> IF m.rec[s].status = "none" THEN 0 ELSE own[s]]
  /\ backing' = [n \in Names |-> IF n \in Kept(m) THEN backing[n] ELSE {}]

\* _update_reference_page for every name an analysis gave.
Supported(refs, s) == [n \in Names |-> IF n \in refs THEN backing[n] \cup {s} ELSE backing[n]]

----------------------------------------------------------------------------
(* The job.                                                                  *)

WebChanges(s) == /\ web[s] < MaxVersion /\ web' = [web EXCEPT ![s] = @ + 1]
                 /\ UNCHANGED <<disk, own, backing, jb, rt, preview, budget, lost, torn>>

\* start_vault_ingest_job, which the event loop runs: the manager of the job
\* reads the manifest.
StartIngest(force) ==
  /\ jb.pc = "off" /\ rt.pc = "idle" /\ budget.jobs > 0
  /\ jb' = [NoJob EXCEPT !.pc = "boot", !.mem = disk, !.base = disk, !.force = force]
  /\ budget' = [budget EXCEPT !.jobs = @ - 1]
  /\ UNCHANGED <<web, disk, own, backing, rt, preview, lost, torn>>

BootRunner == /\ jb.pc = "boot"
              /\ jb' = [jb EXCEPT !.pc = "clean"]
              /\ rt' = [rt EXCEPT !.missed = @ \/ rt.pc # "idle"]
              /\ UNCHANGED <<web, disk, own, backing, preview, budget, lost, torn>>

\* Phase 0b: a single worker that is alone cleans up.
JobCleansUp == /\ jb.pc = "clean" /\ CleanUp(jb.mem)
               /\ jb' = [jb EXCEPT !.pc = "drain"]
               /\ UNCHANGED <<web, disk, rt, preview, budget, lost, torn>>

\* _prefetch_for_ingest: a content that the job's copy has recorded is not
\* analysed; what is not trusted is not either.
Fetch(s, refs, trusted) ==
  LET unchanged == jb.mem.rec[s].hash = web[s]
  IN /\ jb.pc = "drain" /\ budget.clips > 0
     /\ (unchanged \/ ~trusted) => refs = {}
     /\ unchanged => trusted
     /\ jb' = [jb EXCEPT !.pc = "fetched",
                 !.bundle = [src |-> s, content |-> web[s], refs |-> refs, trusted |-> trusted]]
     /\ budget' = [budget EXCEPT !.clips = @ - 1]
     /\ UNCHANGED <<web, disk, own, backing, rt, preview, lost, torn>>

\* _manifest_txn reads the manifest again.
Reload(mem) == disk

\* reingest_if_changed under the manifest lock: the pages are written at once,
\* the record in memory gets neither the names nor the hash yet.
WritePages ==
  LET b == jb.bundle
      m == Reload(jb.mem)
      status == CASE m.rec[b.src].hash = b.content -> "unchanged"
                  [] m.rec[b.src].hash # b.content /\ ~b.trusted -> "rejected"
                  [] OTHER -> "ingested"
  IN /\ jb.pc = "fetched"
     /\ jb' = [jb EXCEPT !.pc = "written", !.base = disk,
                         !.mem = [m EXCEPT !.rec[b.src].status = status]]
     /\ own' = IF status = "ingested" THEN [own EXCEPT ![b.src] = b.content] ELSE own
     /\ backing' = IF status = "ingested" THEN Supported(b.refs, b.src) ELSE backing
     /\ UNCHANGED <<web, disk, rt, preview, budget, lost, torn>>

\* compile_incremental rewrites the indexes and saves the manifest.
CompileIndexes == /\ jb.pc = "written" /\ SaveManifest(jb.mem, jb.base)
                  /\ jb' = [jb EXCEPT !.pc = "compiled", !.base = jb.mem]
                  /\ UNCHANGED <<web, own, backing, rt, preview, budget, torn>>

\* The tentative hash is promoted; the transaction saves when it is left.
PromoteHash ==
  LET b == jb.bundle
      m == IF jb.mem.rec[b.src].status = "ingested"
           THEN [jb.mem EXCEPT !.rec[b.src].hash = b.content] ELSE jb.mem
  IN /\ jb.pc = "compiled" /\ SaveManifest(m, jb.base)
     /\ jb' = [jb EXCEPT !.pc = "report", !.mem = m, !.base = m]
     /\ UNCHANGED <<web, own, backing, rt, preview, budget, torn>>

\* A last transaction notes what was done; the drain loop goes on with its copy.
Report == /\ jb.pc = "report"
          /\ jb' = [jb EXCEPT !.pc = "drain", !.mem = Reload(jb.mem), !.base = disk,
                              !.bundle = NoBundle]
          /\ UNCHANGED <<web, disk, own, backing, rt, preview, budget, lost, torn>>

\* reprocess_existing_sources takes the sources of the job's copy that have no
\* names yet, or all of them.
Drained ==
  /\ jb.pc = "drain" /\ budget.clips = 0
  /\ jb' = [jb EXCEPT !.pc = "tail",
              !.todo = {s \in Sources : /\ jb.mem.rec[s].status = "ingested"
                                        /\ jb.force \/ jb.mem.rec[s].refs = {}}]
  /\ UNCHANGED <<web, disk, own, backing, rt, preview, budget, lost, torn>>

\* One source is analysed again: its pages are written, its record in memory
\* gets the names.
Backfill(s, refs) ==
  /\ jb.pc = "tail" /\ s \in jb.todo
  /\ backing' = Supported(refs, s)
  /\ jb' = [jb EXCEPT !.todo = @ \ {s}, !.mem.rec[s].refs = @ \cup refs]
  /\ UNCHANGED <<web, disk, own, rt, preview, budget, lost, torn>>

ReprocessEnds == /\ jb.pc = "tail" /\ jb.todo = {} /\ SaveManifest(jb.mem, jb.base)
                 /\ jb' = NoJob
                 /\ UNCHANGED <<web, own, backing, rt, preview, budget, torn>>

\* It is cancelled, or it fails: an unfinished transaction is not saved.
JobStops == /\ budget.stops > 0 /\ jb.pc \in {"drain", "fetched", "written", "tail"}
            /\ jb' = NoJob /\ budget' = [budget EXCEPT !.stops = @ - 1]
            /\ UNCHANGED <<web, disk, own, backing, rt, preview, lost, torn>>

----------------------------------------------------------------------------
(* The routes: the event loop runs one at a time, the runner goes on beside. *)

RouteLoads(route) ==
  /\ rt.pc = "idle" /\ route \in budget.routes /\ budget.calls > 0
  /\ rt' = [NoRoute EXCEPT !.pc = route, !.mem = disk, !.base = disk]
  /\ budget' = [budget EXCEPT !.calls = @ - 1]
  /\ UNCHANGED <<web, disk, own, backing, jb, preview, lost, torn>>

\* dismiss_entity on a copy of the manifest: the name leaves every record, or
\* becomes the alias there.
Dismissed(m, e, alias) ==
  LET named(s) == Entity(e) \in m.rec[s].refs
      now(s) == (m.rec[s].refs \ {Entity(e)}) \cup (IF alias = "noise" THEN {} ELSE {Entity(alias)})
  IN Manifest([s \in Sources |-> IF named(s) THEN [m.rec[s] EXCEPT !.refs = now(s)] ELSE m.rec[s]],
              [m.out EXCEPT ![e] = alias])

\* The page is deleted and the copy is saved.
Dismiss(e, alias) ==
  /\ rt.pc = "dismiss" /\ alias # e
  /\ backing' = [backing EXCEPT ![Entity(e)] = {}]
  /\ SaveManifest(Dismissed(rt.mem, e, alias), rt.base)
  /\ rt' = NoRoute
  /\ UNCHANGED <<web, own, jb, preview, budget, torn>>

\* restore_entity_dismissal; without a dismissal it is an error.
Restore(e) ==
  /\ rt.pc = "restore"
  /\ IF rt.mem.out[e] = "in" THEN UNCHANGED <<disk, lost>>
     ELSE SaveManifest([rt.mem EXCEPT !.out[e] = "in"], rt.base)
  /\ rt' = NoRoute
  /\ UNCHANGED <<web, own, backing, jb, preview, budget, torn>>

\* Mutated: the explorer is cleaned up whoever runs.
RefreshAnyway ==
  /\ rt.pc = "refresh"
  /\ rt' = [rt EXCEPT !.pc = "clean"]
  /\ UNCHANGED <<web, disk, own, backing, jb, preview, budget, lost, torn>>

\* get_vault_explorer looks at the counter before it cleans up.
RefreshChecks ==
  /\ rt.pc = "refresh"
  /\ rt' = IF Counted THEN NoRoute ELSE [rt EXCEPT !.pc = "clean"]
  /\ UNCHANGED <<web, disk, own, backing, jb, preview, budget, lost, torn>>

RefreshCleansUp ==
  /\ rt.pc = "clean" /\ CleanUp(rt.mem)
  /\ torn' = (torn \/ rt.missed \/ rt.mem # disk) /\ rt' = NoRoute
  /\ UNCHANGED <<web, disk, jb, preview, budget, lost>>

\* lint_and_prune_pages: orphans and lingering dismissals are flagged always; the
\* rest by the judge, whose verdicts have only a slug, or when a single source
\* backs a page nobody has written on.
Flagged(m, judged, verdicts, stubs) ==
  LET live(n) == {s \in backing[n] : m.rec[s].status # "none"}
      lingers(n) == n.kind = "entity" /\ m.out[n.slug] # "in"
  IN {n \in Names : /\ backing[n] # {}
                    /\ \/ lingers(n) \/ live(n) = {}
                       \/ judged /\ n.slug \in verdicts
                       \/ ~judged /\ n \in stubs /\ Cardinality(live(n)) = 1}

\* What an evaluation may come to, by whatever verdicts and page texts.
Findings(m) == {Flagged(m, TRUE, verdicts, {}) : verdicts \in SUBSET Slugs}
                 \cup {Flagged(m, FALSE, {}, stubs) : stubs \in SUBSET Names}

\* A dry run is let through at any time.
LintPreview(flagged) ==
  /\ rt.pc = "prune" /\ preview' = flagged
  /\ rt' = NoRoute
  /\ UNCHANGED <<web, disk, own, backing, jb, budget, lost, torn>>

LintChecks ==
  /\ rt.pc = "prune"
  /\ rt' = IF Counted THEN NoRoute ELSE [rt EXCEPT !.pc = "prune2"]
  /\ UNCHANGED <<web, disk, own, backing, jb, preview, budget, lost, torn>>

\* The entities are dismissed, the concepts leave the records.
Pruned(m, flagged) ==
  LET noise == {n.slug : n \in {f \in flagged : f.kind = "entity"}}
  IN Manifest([s \in Sources |-> [m.rec[s] EXCEPT !.refs = @ \ flagged]],
              [e \in Entities |-> IF e \in noise THEN "noise" ELSE m.out[e]])

\* It prunes the slugs the caller took from a preview, or what it finds itself.
LintPrunes(flagged) ==
  /\ rt.pc = "prune2"
  /\ backing' = [n \in Names |-> IF n \in flagged THEN {} ELSE backing[n]]
  /\ SaveManifest(Pruned(rt.mem, flagged), rt.base)
  /\ torn' = (torn \/ rt.missed) /\ rt' = NoRoute /\ preview' = {}
  /\ UNCHANGED <<web, own, jb, budget>>

\* What the analysis of a text may name.
Analyses == {refs \in SUBSET Names : Cardinality(refs) <= 2}

PgNext ==
  \/ \E s \in Sources : WebChanges(s)
  \/ \E force \in BOOLEAN : StartIngest(force)
  \/ BootRunner \/ JobCleansUp
  \/ \E s \in Sources, refs \in Analyses, trusted \in BOOLEAN : Fetch(s, refs, trusted)
  \/ WritePages \/ CompileIndexes \/ PromoteHash \/ Report \/ Drained
  \/ \E s \in Sources, refs \in Analyses : Backfill(s, refs)
  \/ ReprocessEnds \/ JobStops
  \/ \E route \in {"dismiss", "restore", "refresh", "prune"} : RouteLoads(route)
  \/ \E e \in Entities, alias \in Entities \cup {"noise"} : Dismiss(e, alias)
  \/ \E e \in Entities : Restore(e)
  \/ RefreshChecks \/ RefreshCleansUp
  \/ rt.pc = "prune" /\ \E flagged \in Findings(rt.mem) : LintPreview(flagged)
  \/ LintChecks
  \/ rt.pc = "prune2" /\ \E flagged \in Findings(rt.mem) : LintPrunes(flagged)
  \/ LintPrunes(preview)

PgSpec == PgInit /\ [][PgNext]_pages

----------------------------------------------------------------------------
(* Properties.                                                               *)

\* No copy of the manifest was written over a change it did not know, and no
\* runner slipped past a route's look at the counter.
Undisturbed == ~lost /\ ~torn

\* A content that will be skipped as unchanged, since its hash is in the manifest,
\* has its page: no cleanup, of a job or of the explorer, deletes the page of a
\* source that is being ingested (active_runners, looked at before).
OwnPagesStay == Undisturbed => \A s \in Sources : own[s] >= disk.rec[s].hash

\* A concept that a source's record names has its page: whoever deletes the page
\* takes the name out of the records, and no cleanup deletes a page that a job is
\* about to record (runner counter; concept_refs stripped by the lint).
ConceptsHavePages ==
  Undisturbed => \A s \in Sources : \A n \in disk.rec[s].refs :
                   n.kind = "concept" => backing[n] # {}

\* A dismissal lasts until the entity is restored or a save that has not seen it
\* writes over it: no transaction of an ingest takes it back.
DismissalSticks ==
  [][\A e \in Entities : disk.out[e] # "in" /\ disk'.out[e] = "in"
       => rt.pc = "restore" \/ lost']_pages
=============================================================================
