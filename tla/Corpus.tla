------------------------------- MODULE Corpus -------------------------------
(***************************************************************************)
(* internal/corpus: which executions are kept as parents of mutations.     *)
(*                                                                         *)
(* A corpus is a record of the raw model states covered, of the semantic   *)
(* keys covered, and of the entries retained, in order.  The plan of an    *)
(* entry is left out: admission does not depend on it.  Semantic states    *)
(* and semantic transitions are treated alike by the code and are one set  *)
(* of keys here.                                                           *)
(***************************************************************************)
EXTENDS Integers, Sequences, FiniteSets, SequencesExt

CONSTANTS
    ModelStates,             \* the keys TLC gives the states of the model
    SemanticKey,             \* the projection: model state -> semantic key
    MinNewModelStates,       \* admission: raw novelty needed
    RequireSemanticNovelty   \* admission: semantic novelty needed as well

ASSUME ProjectionAssumption == DOMAIN SemanticKey = ModelStates
ASSUME AdmissionAssumption ==
    MinNewModelStates \in Nat \ {0} /\ RequireSemanticNovelty \in BOOLEAN

SemanticKeys == {SemanticKey[s] : s \in ModelStates}

Entries == [id : Nat, run : Nat, newStates : SUBSET ModelStates, newSemantic : SUBSET SemanticKeys]
Corpora == [coverage : SUBSET ModelStates, semantic : SUBSET SemanticKeys, entries : Seq(Entries)]

EmptyCorpus == [coverage |-> {}, semantic |-> {}, entries |-> <<>>]

Projected(states) == {SemanticKey[s] : s \in states}

NewStates(corpus, states) == states \ corpus.coverage
NewSemantic(corpus, states) == Projected(states) \ corpus.semantic

\* The entry Consider would create: its ID is its position in corpus.jsonl.
EntryFor(corpus, states, run) ==
    [id |-> Len(corpus.entries), run |-> run,
     newStates |-> NewStates(corpus, states), newSemantic |-> NewSemantic(corpus, states)]

Retains(corpus, states) ==
    /\ Cardinality(NewStates(corpus, states)) >= MinNewModelStates
    /\ RequireSemanticNovelty => NewSemantic(corpus, states) # {}

\* Mutant of Consider: a rejected execution leaves no trace in the coverage.
ConsiderForgetsRejected(corpus, states, run) ==
    IF ~Retains(corpus, states) THEN corpus
    ELSE [coverage |-> corpus.coverage \cup states,
          semantic |-> corpus.semantic \cup Projected(states),
          entries |-> Append(corpus.entries, EntryFor(corpus, states, run))]

\* Coverage is merged whether the execution is retained or rejected, so a key
\* is new to the first execution that reaches it and to no other.
Consider(corpus, states, run) ==
    [coverage |-> corpus.coverage \cup states,
     semantic |-> corpus.semantic \cup Projected(states),
     entries |-> IF Retains(corpus, states)
                 THEN Append(corpus.entries, EntryFor(corpus, states, run))
                 ELSE corpus.entries]

\* Withdraws the last entry, which could not be written, and what it covered.
RollbackLast(corpus) ==
    [coverage |-> corpus.coverage \ Last(corpus.entries).newStates,
     semantic |-> corpus.semantic \ Last(corpus.entries).newSemantic,
     entries |-> Front(corpus.entries)]

\* What RestoreCheckpointWithConfig accepts: the watermark and the keys of a
\* checkpoint together with the first entries of corpus.jsonl.
Restores(coverage, semantic, entries) ==
    /\ \A i \in DOMAIN entries :
          /\ entries[i].id = i - 1
          /\ entries[i].newStates \subseteq coverage
          /\ entries[i].newSemantic \subseteq semantic
    /\ \A i, j \in DOMAIN entries : i # j =>
          /\ entries[i].newStates \cap entries[j].newStates = {}
          /\ entries[i].newSemantic \cap entries[j].newSemantic = {}
=============================================================================
