----------------------------- MODULE MCCrawler -----------------------------
(***************************************************************************)
(* Small webs for the crawler.  MCLinks, for several workers: d is three   *)
(* links from the seed s, x is off the site, a links back to the seed, and *)
(* c ends with an href that does not parse.  MCDeepLinks, for one worker:  *)
(* d is two links away by way of a and three by way of b and c, e only by  *)
(* d.                                                                      *)
(***************************************************************************)
EXTENDS Crawler

CONSTANTS s, a, b, c, d, e, x, bad

MCLinks == [u \in URL |-> CASE u = s -> <<a, x, b, a>>
                            [] u = a -> <<b, s>>
                            [] u = b -> <<c>>
                            [] u = c -> <<d, bad>>
                            [] OTHER -> <<s>>]

MCDeepLinks == [u \in URL |-> CASE u = s -> <<a, x, b, a, s, b>>
                                [] u = a -> <<d, b, s, d, x>>
                                [] u = b -> <<x, c, s, b, a>>
                                [] u = c -> <<d, a, x, d, s, c, b, x, a, s>>
                                [] u = d -> <<s, e, b, a, c, x, d, b, a>>
                                [] OTHER -> <<a, b, c, d, e, s>>]
=============================================================================
