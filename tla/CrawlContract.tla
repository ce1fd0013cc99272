--------------------------- MODULE CrawlContract ---------------------------
(***************************************************************************)
(* What the web crawler promises, without its threads: starting from the   *)
(* seed it learns of pages that an already saved page links to and that    *)
(* are in scope, and it saves pages it has learnt of, and nothing else.    *)
(***************************************************************************)
EXTENDS Sequences

CONSTANTS URL, Seed, Links, Scope

VARIABLES known,    \* the pages the crawl has learnt of
          saved     \* the pages written below ./pages

vars == <<known, saved>>

(* The pages that page p links to. *)
Outgoing(p) == { Links[p][i] : i \in DOMAIN Links[p] }

Init == known = {Seed} /\ saved = {}

Discover(u) == /\ u \in Scope
               /\ \E p \in saved : u \in Outgoing(p)
               /\ known' = known \union {u}
               /\ UNCHANGED saved

Save(u) == /\ u \in known
           /\ saved' = saved \union {u}
           /\ UNCHANGED known

Next == \E u \in URL : Discover(u) \/ Save(u)

Spec == Init /\ [][Next]_vars
=============================================================================
