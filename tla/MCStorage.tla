----------------------------- MODULE MCStorage -----------------------------
(* The files TLC starts from: every case the migrations tell apart, and files *)
(* of a newer version in either part.                                         *)
EXTENDS Storage, TLC

\* A file with the given markers and levels, queue part first.
MCFile(mq, lq, mt, lt) ==
    [marker |-> [part \in Parts |-> IF part = "queue" THEN mq ELSE mt],
     level |-> [part \in Parts |-> IF part = "queue" THEN lq ELSE lt],
     flaws |-> {}, unknown |-> FALSE, wal |-> FALSE, lease |-> "none"]

MCFlawed(f, flaw) == [f EXCEPT !.flaws = {flaw}]

MCStarts ==
    LET new == MCFile(0, 0, 0, 0)
        old == MCFile(2, 2, 6, 6)
        now == MCFile(5, 5, 10, 10)
    IN  {new, now,
         [old EXCEPT !.lease = "bare", !.wal = TRUE],
         [now EXCEPT !.lease = "token", !.wal = TRUE],
         [now EXCEPT !.unknown = TRUE, !.wal = TRUE],
         [MCFile(2, 2, 11, 10) EXCEPT !.wal = TRUE], MCFile(6, 5, 6, 6),
         [MCFile(3, 3, 9, 9) EXCEPT !.lease = "token"],
         MCFile(5, 5, 9, 10), MCFile(5, 5, 0, 10), MCFile(4, 5, 10, 10),
         MCFlawed(MCFile(5, 5, 9, 10), "legacyChildren"),
         MCFlawed(MCFile(5, 5, 9, 9), "both"),
         MCFlawed(MCFile(0, 0, 0, 9), "noSkills"),
         MCFlawed(MCFile(0, 0, 8, 8), "noSkills"),
         MCFlawed(old, "badTime"), MCFlawed(MCFile(2, 2, 5, 7), "badTime"),
         MCFlawed(MCFile(2, 2, 8, 8), "orphan")}

MCSymmetry == Permutations(Openers) \cup Permutations(Identities)
=============================================================================
