------------------------ MODULE MCIncrementalCompile ------------------------
(* Two documents that may share an entity, or name two alike, for TLC. *)
EXTENDS IncrementalCompile

MCDocs     == {1, 2}
MCContents == {"cites", "plain"}
MCEntities == {"doc1", "doc2", "cited", "alike", "stub"}
\* Each document has a node of its own; one content also mentions an entity the
\* other document may share, the other content of the second mentions one that is
\* named alike; a fallback yields a stub instead.
MCAsserts  == [r \in MCDocs \X MCContents \X {"typed", "fallback"} |->
                 {IF r[1] = 1 THEN "doc1" ELSE "doc2"} \union
                 (IF r[3] = "fallback" THEN {"stub"}
                  ELSE IF r[2] = "cites" THEN {"cited"}
                  ELSE IF r[1] = 2 THEN {"alike"} ELSE {})]
MCKin      == [e \in MCEntities |-> IF e = "cited" THEN {"alike"}
                                   ELSE IF e = "alike" THEN {"cited"} ELSE {}]

Whole(only, inc, retry, cap) ==
  [changed_only |-> only, incremental |-> inc, retry |-> retry, named |-> "no",
   limit |-> 2, cap |-> cap]
Engine  == [changed_only |-> "yes", incremental |-> "yes", retry |-> "no",
            named |-> "yes", limit |-> 2, cap |-> 1]

\* compile, refresh and their flags; the cap at its default and at zero.
CliCalls == {Whole("no", "yes", "no", 1), Whole("yes", "yes", "no", 1),
             Whole("yes", "yes", "yes", 0), Whole("yes", "no", "yes", 1),
             Whole("yes", "no", "no", 1)}
EngineCalls == {Engine, Whole("no", "yes", "no", 1)}
=============================================================================
