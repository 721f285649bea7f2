----------------------------- MODULE Campaigns -----------------------------
(***************************************************************************)
(* What campaign clustering promises, with no union-find and no index: the *)
(* arrivals of the last Ttl ticks are remembered, a campaign is a connected *)
(* component of the near-duplicate relation among them, and a pull request *)
(* is told about the campaign it joins.                                    *)
(***************************************************************************)
EXTENDS Signatures, Sequences, SequencesExt

VARIABLES
  entries,  \* the arrivals remembered, in each repository's store
  view      \* what the newest arrival was told

campaigns == <<entries, view>>

NoView == [size |-> 0, repos |-> 0, strangers |-> 0, burst |-> 0, rules |-> {}]

Init == entries = [r \in Repos |-> << >>] /\ view = NoView

\* With each of its members, a closed set has those near it.
Closed(S, sigs) == \A j \in S, k \in DOMAIN sigs : Near(sigs[j], sigs[k]) => k \in S

\* The component of i: what every closed set that has i has.
Component(sigs, i) == {j \in DOMAIN sigs : \A S \in SUBSET DOMAIN sigs : i \in S /\ Closed(S, sigs) => j \in S}

\* What the members of a campaign say about its member i: known contributors do
\* not make a campaign, nor does one account, unless it sprays repositories.
ViewOf(sigs, i) ==
  LET members   == {sigs[j] : j \in Component(sigs, i)}
      strangers == {s.author : s \in {m \in members : m.stranger}}
      repos     == {s.repo : s \in members}
  IN  [size      |-> Cardinality(Component(sigs, i)),
       repos     |-> Cardinality(repos),
       strangers |-> Cardinality(strangers),
       burst     |-> Cardinality({j \in Component(sigs, i) : Recent(sigs[j], sigs[i].arrived)}),
       rules     |-> {"campaign" : a \in {x \in strangers \X strangers : x[1] # x[2]}}
                       \cup {"xrepo" : x \in {y \in repos \X repos : y[1] # y[2]}}]

Remembered(sigs, now) == FoldLeft(LAMBDA kept, s : IF Fresh(s, now) THEN Append(kept, s) ELSE kept, << >>, sigs)

\* A pull request is scored: it joins what its own clock still remembers.
Arrive(r, sig) ==
  LET sigs == Append(Remembered(entries[r], sig.arrived), sig)
  IN  /\ entries' = [entries EXCEPT ![r] = sigs]
      /\ view' = ViewOf(sigs, Len(sigs))

\* A pull request that is exempt, or closed by policy, only ages the store.
Age(r, now) ==
  /\ entries' = [entries EXCEPT ![r] = Remembered(@, now)]
  /\ UNCHANGED view

\* The memory is the process's.
Forget == Init'

Next ==
  \/ \E sig \in Sigs, now \in Times : Arrive(sig.repo, [sig EXCEPT !.arrived = now])
  \/ \E r \in Repos, now \in Times : Age(r, now)
  \/ Forget

Spec == Init /\ [][Next]_campaigns
=============================================================================
