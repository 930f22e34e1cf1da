------------------------------ MODULE Session -------------------------------
(***************************************************************************)
(* One call of vw() after another in an R process, and the files they      *)
(* share (vw.cc, parse_args.cc, parse_regressor.cc, and the sources in     *)
(* parser.cc).  The variables of the program live as long as the process,  *)
(* and parse_args sets most of them anew; an Rf_error leaves vw() in the   *)
(* middle; the process may die anywhere and another one go on with its     *)
(* files.  A file is written as name.writing and renamed when complete.    *)
(*                                                                         *)
(* pairs stands for pairs, ngram and skips, which are treated alike, and   *)
(* noop_mm for what --testonly and the bounds of predictions install.      *)
(***************************************************************************)
EXTENDS Integers, Sequences

CONSTANTS Calls,        \* the command lines vw() may be called with
          FileName,     \* the names in them
          NoFile, NoWeights,
          DefaultBits,  \* global.num_bits without -b
          MaxCalls,     \* bound: calls in all
          MaxDeaths     \* bound: processes that end

ASSUME SessionAssumption ==
  /\ Calls \subseteq
       [learner : STRING, bits : Nat, pairs : SUBSET STRING,
        testonly : BOOLEAN, passes : Nat \ {0}, data : BOOLEAN,
        cache : FileName \cup {NoFile}, initial : FileName \cup {NoFile},
        final : FileName \cup {NoFile}, readable : FileName \cup {NoFile}]
  /\ NoFile \notin FileName
  /\ DefaultBits \in Nat /\ MaxCalls \in Nat /\ MaxDeaths \in Nat

VARIABLES
  disk,     \* disk.final[f] and disk.writing[f], the file f.writing
  global,   \* the variables that calls in a process share
  before,   \* which of them an earlier call in the process may have set
  call,     \* the command line
  at_,      \* how far vw() is
  own,      \* the parser and the regressor of this call
  budget    \* calls and deaths left

sessionVars == <<disk, global, before, call, at_, own, budget>>

Fresh == [num_bits |-> DefaultBits, default_bits |-> TRUE, pairs |-> {},
          kind |-> "linear", text_regressor_name |-> NoFile, noop_mm |-> FALSE]
NewCall == [weight_bits |-> NoWeights, under |-> {}, mask |-> 0,
            write_cache |-> NoFile, resettable |-> FALSE,
            passes_complete |-> 0, dumps |-> <<>>]

SessionInit ==
  /\ disk = [final |-> [f \in FileName |-> NoFile],
             writing |-> [f \in FileName |-> NoFile]]
  /\ global = Fresh /\ before = {}
  /\ call = NoFile /\ at_ = "R" /\ own = NewCall
  /\ budget = [calls |-> MaxCalls, deaths |-> MaxDeaths]

(* What a file holds: what its weights stand for, what they stood for when *)
(* they were trained, and whether all of it was written.                   *)
Weighs(g) == [bits |-> g.num_bits, pairs |-> g.pairs, kind |-> g.kind]
Content(whole) == [made |-> Weighs(global), under |-> own.under, whole |-> whole]
WrittenInPlace(f, whole) == [disk EXCEPT !.final[f] = Content(whole)]
Written(f, whole) == [disk EXCEPT !.writing[f] = Content(whole)]
Renamed(f) == [disk EXCEPT !.final[f] = disk.writing[f], !.writing[f] = NoFile]

----------------------------------------------------------------------------
(* parse_args: the variables are reset, then come the options; those that  *)
(* are not reset keep what an earlier call gave.                           *)
BitsReset(g) == [g EXCEPT !.num_bits = DefaultBits, !.kind = "linear"]
Reset(g) == [g EXCEPT !.num_bits = DefaultBits, !.default_bits = TRUE,
                      !.kind = "linear"]

Parsed(g, c) ==
  LET r == Reset(g) IN
  [r EXCEPT !.num_bits = IF c.bits # 0 THEN c.bits ELSE @,
            !.default_bits = (@ /\ c.bits = 0),
            !.pairs = IF c.pairs # {} THEN c.pairs ELSE @,
            !.kind = IF c.learner \in {"rank", "lda"} THEN c.learner ELSE @]

(* The rest of it, after the sources are open.                             *)
Readable(g, c) ==
  [g EXCEPT !.text_regressor_name = IF c.readable # NoFile THEN c.readable ELSE @,
            !.noop_mm = (@ \/ c.testonly)]

ParseOptions ==
  /\ at_ = "R" /\ budget.calls > 0
  /\ \E c \in Calls : call' = c /\ global' = Parsed(global, c)
  /\ own' = NewCall
  /\ budget' = [budget EXCEPT !.calls = @ - 1]
  /\ at_' = "regressor"
  /\ UNCHANGED <<disk, before>>

(* vw() ends, by its last line or by Rf_error: what it may have set.       *)
Leave(g) ==
  /\ at_' = "R"
  /\ before' = before
       \cup (IF call.pairs # {} \/ call.initial # NoFile THEN {"pairs"} ELSE {})
       \cup (IF g.text_regressor_name # NoFile THEN {"text_regressor_name"} ELSE {})
       \cup (IF g.noop_mm THEN {"noop_mm"} ELSE {})
  /\ global' = g

(* read_vector: the model decides on bits, pairs, rank and lda; it is an   *)
(* error when -b says something else.                                      *)
AdoptedBits(g, made) ==
  [g EXCEPT !.num_bits = made.bits, !.default_bits = FALSE, !.kind = made.kind]
Adopted(g, made) ==
  [g EXCEPT !.num_bits = made.bits, !.default_bits = FALSE,
            !.pairs = made.pairs, !.kind = made.kind]

ReadVector ==
  LET file == disk.final[call.initial] IN
  /\ at_ = "regressor" /\ call.initial # NoFile
  /\ IF file = NoFile \/ (~global.default_bits /\ global.num_bits # file.made.bits)
     THEN Leave(global) /\ UNCHANGED own
     ELSE /\ global' = Adopted(global, file.made)
          /\ own' = [own EXCEPT !.weight_bits = file.made.bits,
                                !.under = file.under]
          /\ at_' = "source"
          /\ UNCHANGED before
  /\ UNCHANGED <<disk, call, budget>>

InitializeRegressor ==
  /\ at_ = "regressor" /\ call.initial = NoFile
  /\ own' = [own EXCEPT !.weight_bits =
               IF call.learner \in {"noop", "sendto"} THEN NoWeights
               ELSE global.num_bits]
  /\ at_' = "source"
  /\ UNCHANGED <<disk, global, before, call, budget>>

----------------------------------------------------------------------------
(* parse_source_args: a cache that is there is used in favor of the text,  *)
(* one of fewer bits is made anew; several passes need one.                *)
UseCache(bits) == bits >= global.num_bits

OpenSource ==
  LET cached == IF call.cache = NoFile THEN NoFile ELSE disk.final[call.cache]
      bits == IF cached # NoFile /\ global.default_bits THEN cached.made.bits
              ELSE global.num_bits
      use == cached # NoFile /\ (global.default_bits \/ UseCache(cached.made.bits))
      make == call.cache # NoFile /\ ~use
      resettable == use \/ (make /\ call.data)
      g == [global EXCEPT !.num_bits = bits]
  IN /\ at_ = "source"
     /\ disk' = IF make THEN Written(call.cache, FALSE) ELSE disk
     /\ own' = [own EXCEPT !.mask = bits, !.resettable = resettable,
                           !.write_cache = IF make THEN call.cache ELSE NoFile]
     /\ IF ~(use \/ call.data) \/ (call.passes > 1 /\ ~resettable)
        THEN Leave(g)
        ELSE global' = Readable(g, call) /\ at_' = "run" /\ UNCHANGED before
     /\ UNCHANGED <<call, budget>>

(* The end of a pass: reset_source.  The cache is flushed and closed,      *)
(* renamed, and read from then on.                                         *)
Trained(o) == IF call.testonly \/ o.weight_bits = NoWeights THEN o.under
              ELSE o.under \cup {Weighs(global)}

MorePasses == own.passes_complete < call.passes

FlushCache ==
  /\ at_ = "run" /\ MorePasses /\ own.write_cache # NoFile
  /\ ~disk.writing[own.write_cache].whole
  /\ disk' = Written(own.write_cache, TRUE)
  /\ UNCHANGED <<global, before, call, at_, own, budget>>

ResetSource ==
  /\ at_ = "run" /\ MorePasses
  /\ own.write_cache # NoFile => disk.writing[own.write_cache].whole
  /\ disk' = IF own.write_cache # NoFile THEN Renamed(own.write_cache) ELSE disk
  /\ own' = [own EXCEPT !.write_cache = NoFile, !.passes_complete = @ + 1,
                        !.under = Trained(own)]
  /\ UNCHANGED <<global, before, call, at_, budget>>

(* The learner returns when the parser is done: end_parser.  The models to *)
(* save are those that were given a name.                                  *)
Named(f) == IF f = NoFile THEN <<>> ELSE <<f>>

EndParser ==
  /\ at_ = "run" /\ ~MorePasses
  /\ own' = [own EXCEPT !.dumps = Named(call.final) \o Named(global.text_regressor_name)]
  /\ at_' = "save"
  /\ UNCHANGED <<disk, global, before, call, budget>>

(* The learner gives up with Rf_error: nothing is closed or saved.         *)
LearnerError ==
  /\ at_ = "run"
  /\ Leave(global)
  /\ UNCHANGED <<disk, call, own, budget>>

----------------------------------------------------------------------------
(* Whoever starts again begins with the program's initial values.          *)
Die ==
  /\ at_' = "R" /\ global' = Fresh /\ before' = {} /\ own' = NewCall
  /\ call' = NoFile

(* finalize_regressor, dump_regressor: a file is opened as .writing,       *)
(* written, closed and renamed.  Without weights (--noop, --sendto) the    *)
(* first read of them ends the process.                                    *)
OpenWriting ==
  /\ at_ = "save" /\ own.dumps # <<>>
  /\ disk' = Written(Head(own.dumps), FALSE)
  /\ at_' = "writing"
  /\ UNCHANGED <<global, before, call, own, budget>>

WriteModel ==
  /\ at_ = "writing" /\ own.weight_bits # NoWeights
  /\ disk' = Written(Head(own.dumps), TRUE)
  /\ at_' = "rename"
  /\ UNCHANGED <<global, before, call, own, budget>>

NoModel ==
  /\ at_ = "writing" /\ own.weight_bits = NoWeights
  /\ Die
  /\ UNCHANGED <<disk, budget>>

RenameModel ==
  /\ at_ = "rename"
  /\ disk' = Renamed(Head(own.dumps))
  /\ own' = [own EXCEPT !.dumps = Tail(@)]
  /\ at_' = "save"
  /\ UNCHANGED <<global, before, call, budget>>

(* finalize_source; vw() returns.                                          *)
ReturnToR ==
  /\ at_ = "save" /\ own.dumps = <<>>
  /\ Leave(global)
  /\ UNCHANGED <<disk, call, own, budget>>

ProcessEnds ==
  /\ budget.deaths > 0
  /\ budget' = [budget EXCEPT !.deaths = @ - 1]
  /\ Die
  /\ UNCHANGED disk

(* R may call vw() again, or not; a call that has begun goes on.           *)
InCall ==
  \/ ReadVector \/ InitializeRegressor \/ OpenSource \/ FlushCache
  \/ ResetSource \/ EndParser \/ LearnerError \/ OpenWriting \/ WriteModel \/ NoModel
  \/ RenameModel \/ ReturnToR
SessionNext == ParseOptions \/ InCall \/ ProcessEnds
SessionSpec == SessionInit /\ [][SessionNext]_sessionVars /\ WF_sessionVars(InCall)

----------------------------------------------------------------------------
(* make_write_cache, reset_source, dump_regressor: under the name a call   *)
(* gives there is always a whole file, the old one or the new one,         *)
(* whenever the process dies, and whatever an earlier one left behind.     *)
WholeFiles ==
  \A f \in FileName : disk.final[f] # NoFile => disk.final[f].whole

(* parse_cache, initialize_regressor, dump_regressor: while a learner runs *)
(* and its model is saved, the indexes global.mask lets through and the    *)
(* bits of the model are those the weights were made for, and what was     *)
(* learnt before, in this call or in those whose models were loaded into   *)
(* each other, was learnt with the same bits and pairs, and by a learner   *)
(* that lays out its weights like this one.                                *)
WeightsFit ==
  at_ \in {"run", "save", "writing", "rename"} /\ own.weight_bits # NoWeights =>
    /\ own.mask = own.weight_bits /\ global.num_bits = own.weight_bits
    /\ own.under \subseteq {Weighs(global)}

(* A call in a process that made others before works with the settings it  *)
(* would have in a new one, but for what parse_args never resets and an    *)
(* earlier call gave, and what the files it reads decide.                  *)
SettingsOfTheCall ==
  /\ at_ = "regressor" =>
       \A o \in DOMAIN global \ before : global[o] = Parsed(Fresh, call)[o]
  /\ at_ = "run" =>
       LET read == (IF call.initial # NoFile
                    THEN {"num_bits", "default_bits", "pairs", "kind"} ELSE {})
                   \cup (IF call.cache # NoFile /\ call.bits = 0
                         THEN {"num_bits"} ELSE {})
       IN \A o \in DOMAIN global \ (before \cup read) :
            global[o] = Readable(Parsed(Fresh, call), call)[o]
=============================================================================
