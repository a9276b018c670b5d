------------------------------- MODULE MCKafkaJobs -------------------------------
(* Of the last two records of the only partition the first cannot be decoded and the
   second has a key that is not UTF-8. *)
EXTENDS KafkaJobs

CONSTANT p1

MCPartitions == {p1}
MCUndecodable == {<<p1, 2>>}
MCBadKeys == {<<p1, 3>>}

================================================================================
