---------------------------- MODULE CanonicalNames ----------------------------
(* The registry of canonical names (vault_learning/_canonical.py): a lint    *)
(* pass compares the names of the sources and merges those that are alike,   *)
(* or queues the pair for a person, who approves or rejects it; a merge can  *)
(* be split again.  The table is one file, loaded and saved by every call.   *)
EXTENDS Integers, Sequences, FiniteSets, SequencesExt

CONSTANTS Surfaces,    \* the names that sources mention: [kind, slug]
          Passes,      \* bound on the lint passes
          Calls        \* bound on reviews and splits

ASSUME CanonicalAssumption ==
  /\ Surfaces \subseteq [kind : {"entity", "concept"}, slug : STRING]
  /\ {Passes, Calls} \subseteq Nat

Spelled == {n.slug : n \in Surfaces}
KindsUsed == {n.kind : n \in Surfaces}

VARIABLES entries,    \* the entries in the order of the table, each
                      \* [slug, kind, aliases, reviewed]
          pending,    \* pending_review: a set of [kind, canon, alias]
          deciding,   \* the review that was taken from the list and is approved
          passes, calls,
          merged      \* history: the pairs the last pass merged

registry == <<entries, pending, deciding, passes, calls, merged>>

Pairs == {p \in [kind : KindsUsed, canon : Spelled, alias : Spelled] : p.canon # p.alias}
NoPair == [kind |-> "none", canon |-> "none", alias |-> "none"]

CnTypeOK ==
  /\ \A i \in 1..Len(entries) :
       /\ entries[i].slug \in Spelled /\ entries[i].kind \in KindsUsed
       /\ entries[i].aliases \subseteq Spelled \ {entries[i].slug}
       /\ entries[i].reviewed \in BOOLEAN
       /\ \A k \in 1..(i - 1) : entries[k].slug # entries[i].slug
  /\ pending \subseteq Pairs /\ merged \subseteq Pairs /\ deciding \in Pairs \cup {NoPair}

CnInit == /\ entries = <<>> /\ pending = {} /\ deciding = NoPair
          /\ passes = 0 /\ calls = 0 /\ merged = {}

\* Where the table has a slug's entry, 0 without one: whatever its kind.
Place(t, slug) == SelectInSeq(t, LAMBDA e : e.slug = slug)

AliasesIn(t, kind) == UNION {t[i].aliases : i \in {k \in 1..Len(t) : t[k].kind = kind}}

\* record_canonical_merge: an entry that is there keeps its kind.
Merge(t, p, reviewed) ==
  LET i == Place(t, p.canon)
  IN IF i = 0 THEN Append(t, [slug |-> p.canon, kind |-> p.kind, aliases |-> {p.alias},
                              reviewed |-> reviewed])
     ELSE [t EXCEPT ![i].aliases = @ \cup {p.alias}, ![i].reviewed = @ \/ reviewed]

SamePair(p, q) == p.canon = q.canon /\ p.alias = q.alias

\* The merge settles what was pending about its pair.
Settle(waiting, p) == {q \in waiting : ~SamePair(p, q)}

\* queue_canonical_review: unless the alias is in the table already; a pair is
\* pending once.
Queue(t, waiting, p) ==
  IF \E e \in ToSet(t) : e.slug = p.canon /\ p.alias \in e.aliases THEN waiting
  ELSE {q \in waiting : ~SamePair(p, q)} \cup {p}

\* resolve_canonical_slug, without a domain: an entry of its own comes first, then
\* the first entry that lists it.
ByAlias(slug, kind) ==
  LET i == SelectInSeq(entries, LAMBDA e : e.kind = kind /\ slug \in e.aliases)
  IN IF i = 0 THEN slug ELSE entries[i].slug

Resolve(slug, kind) ==
  IF \E e \in ToSet(entries) : e.slug = slug /\ e.kind = kind THEN slug
  ELSE ByAlias(slug, kind)

----------------------------------------------------------------------------
\* propose_merges: of two names of a kind that are alike, the one with the higher
\* degree is the canonical one; names that are aliases already are left out.
\* weight orders the names as degree, label and slug do.
Candidates(alike, weight) ==
  {p \in Pairs :
     /\ {p.canon, p.alias} \in alike /\ weight[p.canon] > weight[p.alias]
     /\ \A slug \in {p.canon, p.alias} :
          [kind |-> p.kind, slug |-> slug] \in Surfaces \ {[kind |-> p.kind, slug |-> a] :
                                                           a \in AliasesIn(entries, p.kind)}}

\* forced_review: the alias was a canonical name in this pass, or the other way round.
Forced(done, p) ==
  \E q \in done : q.kind = p.kind /\ (q.canon = p.alias \/ q.alias = p.canon)

\* lint_canonical_aliases: the candidates in the order of their confidence, those
\* that are sure enough first.
LintPass(sure, doubtful) ==
  LET step[i \in 0..Len(sure)] ==
        IF i = 0 THEN [t |-> entries, waiting |-> pending, done |-> {}]
        ELSE LET b == step[i - 1]
                 p == sure[i]
             IN IF Forced(b.done, p)
                THEN [b EXCEPT !.waiting = Queue(b.t, @, p)]
                ELSE [t |-> Merge(b.t, p, FALSE), waiting |-> Settle(b.waiting, p),
                      done |-> b.done \cup {p}]
      r == step[Len(sure)]
      review[q \in Pairs] == IF q \in doubtful THEN Queue(r.t, {}, q) ELSE {}
      asked == UNION {review[q] : q \in Pairs}
  IN /\ passes < Passes /\ deciding = NoPair
     /\ entries' = r.t /\ merged' = r.done
     /\ pending' = {q \in r.waiting : ~\E p \in asked : SamePair(p, q)} \cup asked
     /\ passes' = passes + 1
     /\ UNCHANGED <<deciding, calls>>

\* A dry run changes nothing.  A pass finds some names alike, and is sure of some.
LintPasses ==
  \E alike \in SUBSET {pair \in SUBSET Spelled : Cardinality(pair) = 2} :
  \E weight \in {w \in [Spelled -> 1..Cardinality(Spelled)] :
                   \A a, b \in Spelled : w[a] = w[b] => a = b} :
  \E sure \in SUBSET Candidates(alike, weight) :
  \E order \in SetToSeqs(sure) : LintPass(order, Candidates(alike, weight) \ sure)

\* resolve_canonical_review takes the pair from the list and saves; an approved one
\* is merged by a second load and save.
TakeReview(p, approve) ==
  /\ deciding = NoPair /\ p \in pending /\ calls < Calls
  /\ pending' = {q \in pending : ~SamePair(p, q)}
  /\ deciding' = IF approve THEN p ELSE NoPair
  /\ calls' = calls + 1 /\ merged' = {}
  /\ UNCHANGED <<entries, passes>>

MergeReviewed == /\ deciding # NoPair
                 /\ entries' = Merge(entries, deciding, TRUE)
                 /\ pending' = Settle(pending, deciding) /\ deciding' = NoPair
                 /\ UNCHANGED <<passes, calls, merged>>

\* The process dies in between: the pair is neither pending nor merged.
DiesBetween == /\ deciding # NoPair /\ deciding' = NoPair
               /\ UNCHANGED <<entries, pending, passes, calls, merged>>

\* Mutated: an entry without aliases goes, also one a person has approved.
WithoutAnyAlias(t, i, slug) ==
  LET left == [t EXCEPT ![i].aliases = @ \ {slug}]
  IN IF left[i].aliases = {} THEN RemoveAt(left, i) ELSE left

\* split_canonical_alias drops an entry that is left empty, unless it was reviewed.
Without(t, i, slug) ==
  LET left == [t EXCEPT ![i].aliases = @ \ {slug}]
  IN IF left[i].aliases = {} /\ ~left[i].reviewed THEN RemoveAt(left, i) ELSE left

Split(canon, alias) ==
  LET i == Place(entries, canon)
  IN /\ deciding = NoPair /\ calls < Calls
     /\ i # 0 /\ alias \in entries[i].aliases
     /\ entries' = Without(entries, i, alias)
     /\ calls' = calls + 1 /\ merged' = {}
     /\ UNCHANGED <<pending, deciding, passes>>

CnNext ==
  \/ passes < Passes /\ LintPasses
  \/ \E p \in pending, approve \in BOOLEAN : TakeReview(p, approve)
  \/ MergeReviewed \/ DiesBetween
  \/ \E canon, alias \in Spelled : Split(canon, alias)

CnSpec == CnInit /\ [][CnNext]_registry

----------------------------------------------------------------------------
(* Properties.                                                               *)

\* A pair never waits for a person while the table has it merged: whoever merges
\* it takes it from the list, and a merged pair is not asked about again.
NothingSettledIsAsked ==
  \A p \in pending : \A e \in ToSet(entries) : e.slug = p.canon => p.alias \notin e.aliases

\* Resolving a name again changes nothing, even when reviews or later passes have
\* made the canonical name of one entry an alias of another: whoever stores a
\* resolved slug can resolve it again.
ResolvesOnce ==
  \A slug \in Spelled, kind \in KindsUsed :
    Resolve(Resolve(slug, kind), kind) = Resolve(slug, kind)

\* One pass makes no alias of an alias: among the pairs it merges, no name is the
\* canonical one of one pair and the alias of another ("prevents alias-of-alias").
PassMakesNoChain ==
  \A p, q \in merged : p.kind = q.kind => p.canon # q.alias

\* An entry that a person has approved stays in the table, whatever is split from
\* it, merged into it or merged with its name.
ReviewedStays ==
  [][\A e \in ToSet(entries) : e.reviewed =>
       \E f \in ToSet(entries') : f.slug = e.slug /\ f.kind = e.kind /\ f.reviewed]_registry
=============================================================================
