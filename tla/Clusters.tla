------------------------------ MODULE Clusters ------------------------------
(***************************************************************************)
(* The cluster stores of src/src/cluster.rs, one for each repository, and  *)
(* the handlers of main.rs that use them.  A handler takes the time when   *)
(* it starts; after its calls to GitHub, to the database and to the        *)
(* detector it takes the lock and, in one step, prunes the repository's    *)
(* store, inserts the signature and reads the view of its cluster.  The    *)
(* handlers overlap, so arrivals reach a store out of their order.         *)
(*                                                                         *)
(* A store is a union-find forest over the entries, with path halving, an  *)
(* index of the diffs with ids of its own, and buckets of the texts.       *)
(***************************************************************************)
EXTENDS Signatures, Sequences, SequencesExt

CONSTANTS
  Tasks,       \* slots for the handlers that run at the same time (a bound)
  MaxHandled,  \* bound: pull request events handled
  MaxRestarts  \* bound: restarts of the process

ASSUME ClustersBounds == MaxHandled \in Nat /\ MaxRestarts \in Nat

VARIABLES
  clock,     \* the time
  tasks,     \* the handlers: what they score and when they started
  stores,    \* AppState.clusters
  view,      \* the ClusterView of the last insert
  handled,   \* pull request events handled
  restarts   \* restarts so far

vars == <<clock, tasks, stores, view, handled, restarts>>

NoTask == [pc |-> "idle"]
Task   == {NoTask} \cup [pc : {"running"}, sig : PrSignature, scored : BOOLEAN]

EmptyStore == [entries |-> << >>, parent |-> << >>, sims |-> << >>, owner |-> << >>]
NoView     == [size |-> 0, repos |-> 0, strangers |-> 0, burst |-> 0, rules |-> {}]

\* The parts of a store fit together: every entry has a node, and the diff
\* index describes entries.
WellFormed(store) ==
  /\ store.entries \in Seq(PrSignature)
  /\ store.parent \in [DOMAIN store.entries -> DOMAIN store.entries]
  /\ store.owner \in Seq(DOMAIN store.entries)
  /\ store.sims = [i \in DOMAIN store.owner |-> store.entries[store.owner[i]].diff]

TypeOK ==
  /\ clock \in Times
  /\ tasks \in [Tasks -> Task]
  /\ DOMAIN stores = Repos /\ \A r \in Repos : WellFormed(stores[r])
  /\ view.rules \subseteq {"campaign", "xrepo"}
  /\ handled \in 0 .. MaxHandled /\ restarts \in 0 .. MaxRestarts

Init ==
  /\ clock = 0
  /\ tasks = [t \in Tasks |-> NoTask]
  /\ stores = [r \in Repos |-> EmptyStore]
  /\ view = NoView
  /\ handled = 0 /\ restarts = 0

-----------------------------------------------------------------------------
(* UnionFind *)

\* One round of find's loop, with the node it is at: the node is hung under its
\* grandparent, where the next round begins.
Halved(walk) ==
  LET grand == walk.parent[walk.parent[walk.root]]
  IN  IF walk.parent[walk.root] = walk.root THEN walk
      ELSE [root |-> grand, parent |-> [walk.parent EXCEPT ![walk.root] = grand]]

\* The root of x, and the forest with the path to it halved.  A path has no more
\* nodes than the forest, so that many rounds end the loop.
Find(parent, x) == FoldLeft(LAMBDA walk, round : Halved(walk), [root |-> x, parent |-> parent], parent)

\* A mutant: b itself is hung under a's root, without the rest of its tree.
UnionOfNodes(parent, a, b) ==
  LET fa == Find(parent, a)
      fb == Find(fa.parent, b)
  IN  [fb.parent EXCEPT ![b] = fa.root]

Union(parent, a, b) ==
  LET fa == Find(parent, a)
      fb == Find(fa.parent, b)
  IN  [fb.parent EXCEPT ![fb.root] = fa.root]

\* union(a, id) for every a of the hits.  Their order decides only which member
\* of a cluster becomes its root.
UnionAll(parent, hits, id) == FoldSet(LAMBDA a, p : Union(p, a, id), parent, hits)

-----------------------------------------------------------------------------
(* ClusterStore *)

\* A mutant: the ids of the diff index taken for ids of entries.
DiffIds(store, sig) == {i \in DOMAIN store.sims : Linked(store.sims[i], sig.diff)}

\* Entries whose diff is near: ids of the diff index, through diff_owner.
DiffHits(store, sig) ==
  {store.owner[i] : i \in {i \in DOMAIN store.sims : Linked(store.sims[i], sig.diff)}}

TextHits(store, sig) == {e \in DOMAIN store.entries : Linked(store.entries[e].text, sig.text)}

\* A mutant: every entry gets an owner, the ones without a diff too.
InsertOwnsAll(store, sig) ==
  LET id    == Len(store.parent) + 1
      diffs == UnionAll(Append(store.parent, id), DiffHits(store, sig), id)
      texts == UnionAll(diffs, TextHits(store, sig), id)
  IN  [entries |-> Append(store.entries, sig),
       parent  |-> texts,
       sims    |-> IF sig.diff = None THEN store.sims ELSE Append(store.sims, sig.diff),
       owner   |-> Append(store.owner, id)]

\* insert, up to view_of.
Insert(store, sig) ==
  LET id    == Len(store.parent) + 1
      diffs == UnionAll(Append(store.parent, id), DiffHits(store, sig), id)
      texts == UnionAll(diffs, TextHits(store, sig), id)
  IN  [entries |-> Append(store.entries, sig),
       parent  |-> texts,
       sims    |-> IF sig.diff = None THEN store.sims ELSE Append(store.sims, sig.diff),
       owner   |-> IF sig.diff = None THEN store.owner ELSE Append(store.owner, id)]

Root(store, x) == Find(store.parent, x).root

\* What looking at the view of id leaves of the store: find is called for id and
\* then for every entry, and shortens the paths.
Viewed(store, id) ==
  [store EXCEPT !.parent = FoldLeft(LAMBDA p, x : Find(p, x).parent, @,
                                    <<id>> \o [i \in DOMAIN store.parent |-> i])]

\* cluster_rules: size, burst and cohesion need two strangers, XREPO two repositories.
Rules(v) ==
  {rule \in {"campaign", "xrepo"} :
     /\ v.size >= 2
     /\ rule = "campaign" => v.strangers >= 2
     /\ rule = "xrepo" => v.repos >= 2}

\* view_of and cluster_rules for entry id.  Style is left out.
ViewOf(store, id) ==
  LET members == {e \in DOMAIN store.entries : Root(store, e) = Root(store, id)}
      of      == [e \in members |-> store.entries[e]]
      counts  == [size      |-> Cardinality(members),
                  repos     |-> Cardinality({of[e].repo : e \in members}),
                  strangers |-> Cardinality({of[e].author : e \in {m \in members : of[m].stranger}}),
                  burst     |-> Cardinality({e \in members : Recent(of[e], of[id].arrived)})]
  IN  [size |-> counts.size, repos |-> counts.repos, strangers |-> counts.strangers, burst |-> counts.burst,
       rules |-> Rules(counts)]

\* prune: a new store, into which the entries that stay are inserted again.
Prune(store, now) ==
  FoldLeft(LAMBDA s, e : IF Fresh(e, now) THEN Viewed(Insert(s, e), Len(s.entries) + 1) ELSE s,
           EmptyStore, store.entries)

-----------------------------------------------------------------------------
(* The handlers *)

\* A webhook is dispatched.  Pushing again to a pull request is one more event
\* with the same signature.  Those that are exempt or closed by policy (not
\* scored) still prune.
Begin(t, sig, scored) ==
  /\ tasks[t] = NoTask /\ handled < MaxHandled
  /\ handled' = handled + 1
  /\ tasks' = [tasks EXCEPT ![t] = [pc |-> "running", sig |-> [sig EXCEPT !.arrived = clock],
                                    scored |-> scored]]
  /\ UNCHANGED <<clock, stores, view, restarts>>

\* The block under the lock of state.clusters.
Process(t) ==
  /\ tasks[t].pc = "running"
  /\ LET sig    == tasks[t].sig
         pruned == Prune(stores[sig.repo], sig.arrived)
         grown  == Insert(pruned, sig)
         id     == Len(grown.entries)
     IN  IF tasks[t].scored
         THEN /\ stores' = [stores EXCEPT ![sig.repo] = Viewed(grown, id)]
              /\ view' = ViewOf(grown, id)
         ELSE /\ stores' = [stores EXCEPT ![sig.repo] = pruned]
              /\ UNCHANGED view
  /\ tasks' = [tasks EXCEPT ![t] = NoTask]
  /\ UNCHANGED <<clock, handled, restarts>>

\* A call before the lock fails and the handler gives up.
GiveUp(t) ==
  /\ tasks[t].pc = "running"
  /\ tasks' = [tasks EXCEPT ![t] = NoTask]
  /\ UNCHANGED <<clock, stores, view, handled, restarts>>

Tick ==
  /\ clock < MaxTime
  /\ clock' = clock + 1
  /\ UNCHANGED <<tasks, stores, view, handled, restarts>>

\* main starts with an empty map and nothing fills it from the database.
Restart ==
  /\ restarts < MaxRestarts
  /\ restarts' = restarts + 1
  /\ tasks' = [t \in Tasks |-> NoTask]
  /\ stores' = [r \in Repos |-> EmptyStore]
  /\ view' = NoView
  /\ UNCHANGED <<clock, handled>>

Next ==
  \/ \E t \in Tasks :
       \/ \E sig \in Sigs, scored \in BOOLEAN : Begin(t, sig, scored)
       \/ Process(t)
       \/ GiveUp(t)
  \/ Tick
  \/ Restart

Spec == Init /\ [][Next]_vars

-----------------------------------------------------------------------------
(* Properties *)

\* Two entries have the same root exactly when a chain of near-duplicates that
\* are still in the store joins them: whatever the order of arrivals, and
\* whatever entry in the middle of a chain has been dropped.
Promise == INSTANCE Campaigns WITH entries <- [r \in Repos |-> stores[r].entries]

ClustersAreComponents ==
  \A r \in Repos :
    LET sigs == stores[r].entries
    IN  \A i, j \in DOMAIN sigs :
          (Root(stores[r], i) = Root(stores[r], j)) <=> (j \in Promise!Component(sigs, i))

\* Each pull request is told the size, the strangers, the repositories and the
\* burst of the campaign it joins as Campaigns defines them, and the rules fire
\* accordingly.
KeepsPromise == Promise!Spec
=============================================================================
