------------------------------ MODULE ChainAudit ------------------------------
(***************************************************************************)
(* The fairness record as it is read from outside: the page that             *)
(* GET /api/fairness serves, and what scripts/verify-chain.mjs and            *)
(* scripts/verify-epoch.mjs say of it.                                        *)
(***************************************************************************)
EXTENDS FairnessChain

-----------------------------------------------------------------------------
(* What is served *)

\* A page, and the rows of it that are marked orphaned: no seed, and a minute past
\* their window.  How late it is when someone reads is anybody's choice.
Unrevealed(page) == {i \in DOMAIN page : page[i].revealed = NoSeed}
Answers(page) == [epochs : {page}, orphans : SUBSET Unrevealed(page)]

\* GET /fairness: the newest PageSize rows.
Served == Answers(Page(Min({PageSize, Len(rows)})))

-----------------------------------------------------------------------------
(* The verifiers *)

\* What verify-chain holds against row i.
Problems(answer, i) ==
    LET row == answer.epochs[i]
        before == answer.epochs[i - 1]
    IN  (IF row.what.hash # ChainHash(row.what.prev, row.what.seed) THEN {"hash"} ELSE {})
        \cup (IF i > 1 /\ row.what.prev # before.what.hash THEN {"link"} ELSE {})
        \cup (IF i > 1 /\ row.what.epoch # before.what.epoch + 1 THEN {"gap"} ELSE {})
        \cup (IF i \in answer.orphans THEN {"orphan"} ELSE {})
        \cup (IF row.revealed \notin {NoSeed, row.what.seed} THEN {"seed"} ELSE {})

\* "A broken hash or link is evidence the record was altered, while an orphaned epoch is
\* a gap in what can be checked."
Altered(answer) == {i \in DOMAIN answer.epochs : Problems(answer, i) \notin {{}, {"orphan"}}}
VerifiabilityGaps(answer) == {i \in DOMAIN answer.epochs : "orphan" \in Problems(answer, i)}

\* verify-chain's exit code.
Verdict(answer) ==
    CASE answer.epochs = <<>> -> 2
      [] Altered(answer) # {} -> 1
      [] Altered(answer) = {} /\ VerifiabilityGaps(answer) # {} -> 3
      [] OTHER -> 0

\* --head.
HeadFound(answer, hash) == \E i \in DOMAIN answer.epochs : answer.epochs[i].what.hash = hash

\* verify-epoch's exit code, for the number it is given: only what is revealed is asked for.
EpochVerdict(answer, n) ==
    LET asked == {i \in DOMAIN answer.epochs \ Unrevealed(answer.epochs) : answer.epochs[i].what.epoch = n}
    IN  IF asked # {} /\ \A i \in asked : answer.epochs[i].revealed = answer.epochs[i].what.seed THEN 0 ELSE 1

-----------------------------------------------------------------------------
(* Hands that reach into the table *)

\* A seed that no epoch was given.
Forged == made + 1
WithSeed(row, from) ==
    [what |-> [row.what EXCEPT !.seed = Forged, !.prev = from, !.hash = ChainHash(from, Forged)],
     revealed |-> Forged]

\* From row i on, every link is computed anew: every hash there commits to the forged seed
\* in the place of the one it committed to.
RebuiltFrom(page, i) ==
    LET Anew(hash) == [hash EXCEPT ![Len(page[i].what.hash)] = Forged]
    IN  [k \in 1..Len(page) |->
            CASE k < i -> page[k]
              [] k = i -> WithSeed(page[k], page[k].what.prev)
              [] OTHER -> [page[k] EXCEPT !.what.prev = Anew(@), !.what.hash = Anew(@)]]

\* A row is taken out, its seed exchanged with or without its hash, or everything from it
\* on rebuilt.
Tampered(page, i) ==
    { RemoveAt(page, i), RebuiltFrom(page, i),
      [page EXCEPT ![i] = WithSeed(page[i], page[i].what.prev)],
      [page EXCEPT ![i].what.seed = Forged, ![i].revealed = Forged],
      [page EXCEPT ![i].revealed = Forged] }

-----------------------------------------------------------------------------
(* Properties *)

\* "No epoch can be removed, reordered or edited without breaking every link after it":
\* whatever is done to a row between the oldest one served and a head recorded before, the
\* verifier finds the record altered, or the recorded head gone; and of hashes and links it
\* "should reach the same verdict" as the server.
TamperShows ==
    \A n \in 2 .. Min({PageSize, Len(rows)}) :
        LET page == Page(n)
        IN  \A recorded \in 2..n : \A i \in 2..recorded : \A forged \in Tampered(page, i) :
                LET answer == [epochs |-> forged, orphans |-> {}]
                IN  /\ Verdict(answer) \in {1, 2} \/ ~HeadFound(answer, page[recorded].what.hash)
                    /\ LinksValid(forged) <=>
                          \A k \in DOMAIN forged : {"hash", "link"} \cap Problems(answer, k) = {}

\* "It is not evidence of tampering": whatever failed, was lost or came late, the verifier
\* holds no hash, link or number of the record against it.
NeverAccused ==
    \A answer \in Served, i \in 1..PageSize :
        i \in DOMAIN answer.epochs => Problems(answer, i) \subseteq {"orphan", "seed"}

\* Though processes are killed at any moment, no more than that never makes a verifier say
\* that the record was altered.
Trusted ==
    \A answer \in Served :
        /\ Verdict(answer) \in {0, 2, 3}
        /\ \A i \in DOMAIN answer.epochs \ Unrevealed(answer.epochs) :
              EpochVerdict(answer, answer.epochs[i].what.epoch) = 0

\* An infrastructure problem never reads as tampering: whatever failed, was lost or arrived
\* late the record verifies and what it lacks is counted, and though processes are killed
\* at any moment, no more than that loses it nothing.  No seed is published while prices
\* are made from it, and what is done to the record afterwards shows.
RecordHonest ==
    /\ NeverAccused /\ MissingCounted /\ LiveSeedSecret /\ TamperShows
    /\ weather \subseteq {"crash"} => NothingRefused /\ Trusted
=============================================================================
