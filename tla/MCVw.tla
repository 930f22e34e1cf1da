-------------------------------- MODULE MCVw --------------------------------
(* Small instances of Vw: sets of calls, of jobs for each learner, and of  *)
(* examples.                                                               *)
EXTENDS Vw

(* A call that gives few options; the sets below give the others.          *)
MCCall == [learner |-> "gd", bits |-> 0, pairs |-> {}, testonly |-> FALSE,
           passes |-> 1, data |-> TRUE, cache |-> NoFile, initial |-> NoFile,
           final |-> NoFile, readable |-> NoFile]

(* A call without -b uses the cache "d", one with -b the cache "c".        *)
MCCalls ==
  {[MCCall EXCEPT !.bits = b, !.pairs = p, !.final = "m",
                  !.cache = IF b = 0 THEN "d" ELSE "c"] :
     b \in {0, 1, 3}, p \in {{}, {"ab"}}}
  \cup {[MCCall EXCEPT !.bits = b, !.initial = "m", !.testonly = t, !.final = f] :
          b \in {0, 1}, t \in BOOLEAN, f \in {NoFile, "m"}}
  \cup {[MCCall EXCEPT !.readable = "t", !.testonly = TRUE, !.data = FALSE,
                       !.cache = "d"],
        [MCCall EXCEPT !.initial = "m", !.final = "m", !.cache = "c"],
        [MCCall EXCEPT !.learner = "noop", !.bits = 1, !.cache = "c"],
        [MCCall EXCEPT !.learner = "sendto"],
        [MCCall EXCEPT !.passes = 2],
        [MCCall EXCEPT !.learner = "lda", !.bits = 1, !.final = "m"]}
  \cup {[MCCall EXCEPT !.learner = "bfgs", !.passes = n, !.cache = "d"] : n \in 2..5}

(* A call without -b reads a cache of another size.                        *)
MCSharedCache == {MCCall, [MCCall EXCEPT !.bits = 3, !.cache = "c"],
                  [MCCall EXCEPT !.cache = "c"]}

MCBfgsJobs ==
  {j \in [m : 0..2, hessian_on : BOOLEAN, numpasses : 2..5,
          output_regularizer : BOOLEAN,
          shard : {[n1 |-> 2, n2 |-> 1], [n1 |-> 0, n2 |-> 0]}] :
     j.m = 0 => j.hessian_on}

(* The words of a minibatch are read beyond its end when it has none.      *)
MCLdaJobs ==
  {j \in [docs : UNION {[1..k -> SUBSET Word] : k \in 0..4}, minibatch : 1..3] :
     \E d \in 1..Len(j.docs) : d <= j.minibatch /\ j.docs[d] # {}}

MCSources(labels, length) == UNION {[1..k -> labels] : k \in 0..length}
MCNodeJobs ==
  [mode : {"backprop", "delayed_global"}, threads : 1..2, relay : {TRUE},
   source : MCSources({"train"}, 4)]
  \cup [mode : {"plain"}, threads : 1..2, relay : {TRUE},
        source : MCSources({"train", "test"}, 3)]
  \cup [mode : {"send"}, threads : {1}, relay : BOOLEAN,
        source : MCSources({"train", "test"}, 3)]

MCTexts(length) == UNION {[1..k -> BOOLEAN] : k \in 0..length}
MCIoJobs == {<<f>> : f \in MCTexts(5)}
            \cup {<<f, g>> : f \in MCTexts(2), g \in MCTexts(3)}

(* Features of six bits: none, one, or two.                                *)
MCFeature == (0..2 ^ CacheBits - 1) \X {"one", "minus one", "general"}
MCNamespaces == {<<>>} \cup {<<f>> : f \in MCFeature}
                \cup {<<f, g>> : f \in MCFeature, g \in MCFeature}

MCNumbers == {16 * i : i \in -6..6}
MCLabels == {16 * i : i \in -3..4}

MCPairs == {<<>>, << <<"a", "b">> >>, << <<"a", "b">>, <<"c", "d">> >>,
            << <<"a", "a">> >>}
MCContents == SUBSET {"a", "b", "c", "d"}
=============================================================================
