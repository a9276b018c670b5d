---- MODULE MCDocsSite ----
(***************************************************************************)
(* A reader who searches for a term found on one page, for two terms found *)
(* on more pages than a dialog lists, and for a term found nowhere, with   *)
(* the scores the search gives the pages of website/content.               *)
(***************************************************************************)
EXTENDS DocsSite

MCQueries == {NoQuery, "offset", "lease offset", "tombstone"}

LeaseOffset ==
  [slug \in Slugs |->
    CASE slug = "inbox-processing" -> 5
      [] slug \in {"postgresql", "production-deployment", "faq"} -> 4
      [] slug \in {"introduction", "installation", "quick-start", "configuration",
                   "delivery-semantics", "idempotency", "transactional-outbox",
                   "kafka", "incident-response", "api-reference",
                   "configuration-reference", "roadmap"} -> 1
      [] OTHER -> 0]

MCScore ==
  [q \in MCQueries |->
    CASE q = "offset" -> [slug \in Slugs |-> IF slug = "kafka" THEN 1 ELSE 0]
      [] q = "lease offset" -> LeaseOffset
      [] OTHER -> [slug \in Slugs |-> 0]]

====
