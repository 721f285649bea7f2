----------------------------- MODULE Signatures -----------------------------
(***************************************************************************)
(* A pull request's signature as the cluster store sees it (PrSignature),  *)
(* and when two of them are near-duplicates.  A channel's value is a       *)
(* number, None when the diff or the text is too short to be sketched; two *)
(* values are linked when they are at most one apart.  That stands for     *)
(* "shares a band and passes the verification" (Hamming distance, Jaccard  *)
(* estimate): reflexive, symmetric and not transitive.                     *)
(***************************************************************************)
EXTENDS Integers, FiniteSets

CONSTANTS
  Repos,    \* the repositories
  Authors,  \* the accounts that open pull requests
  Sigs,     \* bound: the signatures that arrive, whatever their time
  Scale,    \* bound: the values of a channel
  MaxTime,  \* bound: the clock
  Ttl,      \* TTL_SECS, in ticks
  Window    \* BURST_WINDOW_SECS, in ticks

ASSUME ReposAssumption == Repos # {}
ASSUME ScaleAssumption == Scale \in Nat \ {0}
ASSUME TimesAssumption == MaxTime \in Nat /\ Ttl \in Nat /\ Window \in Nat

None == 0
Times == 0 .. MaxTime

PrSignature == [repo : Repos, author : Authors, stranger : BOOLEAN, arrived : Times,
                diff : 0 .. Scale, text : 0 .. Scale]

ASSUME SigsAssumption == Sigs \subseteq PrSignature

Linked(x, y) == x # None /\ y # None /\ x - y \in -1 .. 1

Near(a, b) == Linked(a.diff, b.diff) \/ Linked(a.text, b.text)

\* Old enough to leave the store, and recent enough to count as a burst, for a
\* pull request that arrived at now.
Fresh(sig, now)  == now - sig.arrived <= Ttl
Recent(sig, now) == now - sig.arrived <= Window
=============================================================================
