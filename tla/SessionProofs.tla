--------------------------- MODULE SessionProofs ----------------------------
(***************************************************************************)
(* Proofs about Session, for any command lines, any number of calls and of *)
(* processes that die, wherever they die.                                  *)
(***************************************************************************)
EXTENDS Session, SequenceTheorems, TLAPS

----------------------------------------------------------------------------
(* The types.                                                              *)
Kinds == {"linear", "rank", "lda"}
Weighing == [bits : Nat, pairs : SUBSET STRING, kind : Kinds]
Held == [made : Weighing, under : SUBSET Weighing, whole : BOOLEAN]
Names == FileName \cup {NoFile}

DiskType ==
  disk \in [final : [FileName -> Held \cup {NoFile}],
            writing : [FileName -> Held \cup {NoFile}]]
GlobalType ==
  global \in [num_bits : Nat, default_bits : BOOLEAN, pairs : SUBSET STRING,
              kind : Kinds, text_regressor_name : Names, noop_mm : BOOLEAN]
CallType == at_ # "R" => call \in Calls
OwnType ==
  own \in [weight_bits : Nat \cup {NoWeights}, under : SUBSET Weighing,
           mask : Nat, write_cache : Names, resettable : BOOLEAN,
           passes_complete : Nat, dumps : Seq(FileName)]
SessionTypeOK == DiskType /\ GlobalType /\ CallType /\ OwnType

(* A file that is about to be renamed is complete.                         *)
DumpInv ==
  /\ at_ \in {"writing", "rename"} => own.dumps # <<>>
  /\ at_ = "rename" => /\ disk.writing[Head(own.dumps)] \in Held
                       /\ disk.writing[Head(own.dumps)].whole

FilesInv == SessionTypeOK /\ DumpInv /\ WholeFiles

----------------------------------------------------------------------------
(* What a file is filled with, and what happens to the disk.               *)
LEMMA ContentType ==
  ASSUME GlobalType, OwnType, NEW whole \in BOOLEAN
  PROVE  /\ Content(whole) \in Held /\ Content(whole).whole = whole
         /\ Content(whole).made = Weighs(global)
         /\ Content(whole).under = own.under
         /\ Weighs(global) \in Weighing
<1>1. Weighs(global) \in Weighing
  BY DEF GlobalType, Weighs, Weighing
<1> QED
  BY <1>1 DEF OwnType, Content, Held

LEMMA WrittenDisk ==
  ASSUME DiskType, GlobalType, OwnType, NEW f \in FileName, NEW whole \in BOOLEAN,
         disk' = Written(f, whole)
  PROVE  /\ DiskType' /\ disk'.final = disk.final
         /\ disk'.writing[f] = Content(whole)
         /\ \A g \in FileName \ {f} : disk'.writing[g] = disk.writing[g]
  BY ContentType DEF DiskType, Written

LEMMA RenamedDisk ==
  ASSUME DiskType, NEW f \in FileName, disk' = Renamed(f)
  PROVE  /\ DiskType'
         /\ disk'.final[f] = disk.writing[f] /\ disk'.writing[f] = NoFile
         /\ \A g \in FileName \ {f} : /\ disk'.final[g] = disk.final[g]
                                      /\ disk'.writing[g] = disk.writing[g]
  BY DEF DiskType, Renamed

LEMMA CallFields ==
  ASSUME NEW c \in Calls
  PROVE  /\ c.bits \in Nat /\ c.pairs \in SUBSET STRING
         /\ c.testonly \in BOOLEAN /\ c.cache \in Names /\ c.initial \in Names
         /\ c.final \in Names /\ c.readable \in Names
  BY SessionAssumption DEF Names

LEMMA NewCallType ==
  ASSUME own' = NewCall
  PROVE  OwnType'
<1>1. <<>> \in Seq(FileName)
  OBVIOUS
<1> QED
  BY <1>1 DEF NewCall, OwnType, Names

LEMMA FreshType ==
  ASSUME global' = Fresh
  PROVE  GlobalType'
  BY SessionAssumption DEF Fresh, GlobalType, Names, Kinds

LEMMA NamedType ==
  ASSUME NEW f \in Names
  PROVE  Named(f) \in Seq(FileName)
  BY DEF Named, Names

----------------------------------------------------------------------------
(* Files are whole: the initial state, and each step.                      *)
LEMMA InitFiles == SessionInit => FilesInv
<1> SUFFICES ASSUME SessionInit PROVE FilesInv
  OBVIOUS
<1>1. GlobalType
  BY SessionAssumption DEF SessionInit, Fresh, GlobalType, Names, Kinds
<1>2. OwnType
  <2>1. <<>> \in Seq(FileName)
    OBVIOUS
  <2> QED
    BY <2>1 DEF SessionInit, NewCall, OwnType, Names
<1>3. DiskType /\ WholeFiles /\ CallType /\ DumpInv
  BY DEF SessionInit, DiskType, WholeFiles, CallType, DumpInv
<1> QED
  BY <1>1, <1>2, <1>3 DEF FilesInv, SessionTypeOK

(* Steps that leave the disk alone, and are in the middle of no file.      *)
LEMMA DiskAlone ==
  ASSUME FilesInv, UNCHANGED disk, GlobalType', OwnType', CallType',
         at_' \notin {"writing", "rename"}
  PROVE  FilesInv'
  BY DEF FilesInv, SessionTypeOK, DiskType, DumpInv, WholeFiles

LEMMA OptionsFiles ==
  ASSUME FilesInv, ParseOptions
  PROVE  FilesInv'
<1>1. PICK c \in Calls : call' = c /\ global' = Parsed(global, c)
  BY DEF ParseOptions
<1>2. GlobalType'
  <2>1. c.bits \in Nat /\ c.pairs \in SUBSET STRING
    BY CallFields
  <2>2. Reset(global) \in
          [num_bits : Nat, default_bits : BOOLEAN, pairs : SUBSET STRING,
           kind : Kinds, text_regressor_name : Names, noop_mm : BOOLEAN]
    BY SessionAssumption DEF FilesInv, SessionTypeOK, GlobalType, Reset, Kinds
  <2> QED
    BY <1>1, <2>1, <2>2 DEF Parsed, GlobalType, Kinds
<1>3. OwnType' /\ CallType' /\ UNCHANGED disk /\ at_' = "regressor"
  BY <1>1, NewCallType DEF ParseOptions, CallType
<1> QED
  BY <1>2, <1>3, DiskAlone

(* vw() ends and nothing was changed but global.                           *)
LEMMA LeaveFiles ==
  ASSUME FilesInv, NEW g, Leave(g), UNCHANGED <<disk, own>>, GlobalType'
  PROVE  FilesInv'
<1>1. OwnType' /\ CallType'
  BY DEF FilesInv, SessionTypeOK, OwnType, CallType, Leave
<1> QED
  BY <1>1, DiskAlone DEF Leave

LEMMA DieFiles ==
  ASSUME FilesInv, Die, UNCHANGED disk
  PROVE  FilesInv'
  BY DiskAlone, FreshType, NewCallType DEF Die, CallType

LEMMA RegressorFiles ==
  ASSUME FilesInv, ReadVector \/ InitializeRegressor
  PROVE  FilesInv'
<1> USE DEF FilesInv, SessionTypeOK
<1>1. CASE InitializeRegressor
  <2>1. OwnType' /\ CallType' /\ GlobalType'
    BY <1>1 DEF InitializeRegressor, OwnType, CallType, GlobalType
  <2> QED
    BY <1>1, <2>1, DiskAlone DEF InitializeRegressor
<1>2. CASE ReadVector
  <2> DEFINE file == disk.final[call.initial]
  <2>1. CASE Leave(global) /\ UNCHANGED own
    <3>1. GlobalType' /\ UNCHANGED <<disk, own>>
      BY <1>2, <2>1 DEF ReadVector, Leave, GlobalType
    <3> QED
      BY <2>1, <3>1, LeaveFiles
  <2>2. CASE /\ file # NoFile
             /\ global' = Adopted(global, file.made)
             /\ own' = [own EXCEPT !.weight_bits = file.made.bits,
                                   !.under = file.under]
             /\ at_' = "source"
    <3>1. file \in Held
      <4>1. call \in Calls /\ call.initial # NoFile
        BY <1>2 DEF ReadVector, CallType
      <4>2. call.initial \in FileName
        BY <4>1, CallFields DEF Names
      <4> QED
        BY <4>2, <2>2 DEF DiskType
    <3>2. file.made \in Weighing /\ file.under \in SUBSET Weighing
      BY <3>1 DEF Held
    <3>3. GlobalType'
      BY <2>2, <3>2 DEF GlobalType, Adopted, Weighing
    <3>4. OwnType'
      BY <2>2, <3>2 DEF OwnType, Weighing
    <3>5. CallType' /\ UNCHANGED disk
      BY <1>2 DEF ReadVector, CallType
    <3> QED
      BY <2>2, <3>3, <3>4, <3>5, DiskAlone
  <2> QED
    BY <1>2, <2>1, <2>2 DEF ReadVector
<1> QED
  BY <1>1, <1>2

LEMMA SourceFiles ==
  ASSUME FilesInv, OpenSource
  PROVE  FilesInv'
<1> USE DEF FilesInv, SessionTypeOK
<1> DEFINE cached == IF call.cache = NoFile THEN NoFile ELSE disk.final[call.cache]
           bits == IF cached # NoFile /\ global.default_bits THEN cached.made.bits
                   ELSE global.num_bits
           use == cached # NoFile /\ (global.default_bits \/ UseCache(cached.made.bits))
           make == call.cache # NoFile /\ ~use
           g == [global EXCEPT !.num_bits = bits]
<1>1. call \in Calls /\ call.cache \in Names /\ call.data \in BOOLEAN
  <2>1. call \in Calls
    BY DEF OpenSource, CallType
  <2> QED
    BY <2>1, CallFields, SessionAssumption
<1>2. bits \in Nat
  BY <1>1 DEF DiskType, GlobalType, Held, Weighing, Names
<1>3. /\ disk' = IF make THEN Written(call.cache, FALSE) ELSE disk
      /\ own' = [own EXCEPT !.mask = bits, !.resettable = use \/ (make /\ call.data),
                            !.write_cache = IF make THEN call.cache ELSE NoFile]
      /\ call' = call
  BY DEF OpenSource
<1>4. OwnType'
  BY <1>1, <1>2, <1>3 DEF OwnType, Names
<1>5. DiskType' /\ disk'.final = disk.final
  <2>1. CASE make
    BY <1>1, <1>3, <2>1, WrittenDisk DEF Names
  <2>2. CASE ~make
    BY <1>3, <2>2 DEF DiskType
  <2> QED
    BY <2>1, <2>2
<1>6. GlobalType' /\ at_' \in {"R", "run"}
  <2>1. CASE Leave(g)
    BY <1>2, <2>1 DEF Leave, GlobalType
  <2>2. CASE global' = Readable(g, call) /\ at_' = "run"
    <3>1. call.readable \in Names /\ call.testonly \in BOOLEAN
      BY <1>1, CallFields
    <3> QED
      BY <1>2, <2>2, <3>1 DEF Readable, GlobalType
  <2> QED
    BY <2>1, <2>2 DEF OpenSource
<1> QED
  BY <1>1, <1>3, <1>4, <1>5, <1>6 DEF CallType, DumpInv, WholeFiles

(* reset_source: the cache is complete before it gets its name.            *)
LEMMA PassFiles ==
  ASSUME FilesInv, FlushCache \/ ResetSource
  PROVE  FilesInv'
<1> USE DEF FilesInv, SessionTypeOK
<1>1. CASE FlushCache
  <2>1. own.write_cache \in FileName
    BY <1>1 DEF FlushCache, OwnType, Names
  <2>2. DiskType' /\ disk'.final = disk.final
    BY <1>1, <2>1, WrittenDisk DEF FlushCache
  <2>3. GlobalType' /\ CallType' /\ OwnType' /\ at_' = "run"
    BY <1>1 DEF FlushCache, GlobalType, CallType, OwnType
  <2> QED
    BY <2>2, <2>3 DEF DumpInv, WholeFiles
<1>2. CASE ResetSource
  <2>1. DiskType' /\ WholeFiles'
    <3>1. CASE own.write_cache = NoFile
      BY <1>2, <3>1 DEF ResetSource, DiskType, WholeFiles
    <3>2. CASE own.write_cache # NoFile
      <4>1. own.write_cache \in FileName /\ disk' = Renamed(own.write_cache)
            /\ disk.writing[own.write_cache].whole
        BY <1>2, <3>2 DEF ResetSource, OwnType, Names
      <4> QED
        BY <4>1, RenamedDisk DEF WholeFiles
    <3> QED
      BY <3>1, <3>2
  <2>2. Trained(own) \in SUBSET Weighing
    BY ContentType DEF Trained, OwnType
  <2>3. OwnType'
    <3> DEFINE under == Trained(own)
    <3>1. own' = [own EXCEPT !.write_cache = NoFile,
                             !.passes_complete = own.passes_complete + 1,
                             !.under = under]
      BY <1>2 DEF ResetSource
    <3>2. own.passes_complete + 1 \in Nat
      BY DEF OwnType
    <3> HIDE DEF under
    <3> QED
      BY <2>2, <3>1, <3>2 DEF OwnType, Names, under
  <2>4. GlobalType' /\ CallType' /\ at_' = "run"
    BY <1>2 DEF ResetSource, GlobalType, CallType
  <2> QED
    BY <2>1, <2>3, <2>4 DEF DumpInv
<1> QED
  BY <1>1, <1>2

LEMMA EndFiles ==
  ASSUME FilesInv, EndParser
  PROVE  FilesInv'
<1> USE DEF FilesInv, SessionTypeOK
<1>1. call \in Calls
  BY DEF EndParser, CallType
<1>2. call.final \in Names /\ global.text_regressor_name \in Names
  BY <1>1, CallFields DEF GlobalType
<1>3. Named(call.final) \o Named(global.text_regressor_name) \in Seq(FileName)
  BY <1>2, NamedType
<1>4. OwnType'
  BY <1>3 DEF EndParser, OwnType
<1> QED
  BY <1>4, DiskAlone DEF EndParser, GlobalType, CallType

(* dump_regressor: opened, written, renamed.                               *)
LEMMA DumpFiles ==
  ASSUME FilesInv, OpenWriting \/ WriteModel \/ NoModel \/ RenameModel
  PROVE  FilesInv'
<1> USE DEF FilesInv, SessionTypeOK
<1>1. ASSUME own.dumps # <<>>
      PROVE  Head(own.dumps) \in FileName /\ Tail(own.dumps) \in Seq(FileName)
  BY <1>1 DEF OwnType
<1>2. CASE OpenWriting
  <2>1. own.dumps # <<>> /\ disk' = Written(Head(own.dumps), FALSE)
    BY <1>2 DEF OpenWriting
  <2>2. DiskType' /\ disk'.final = disk.final
    BY <1>1, <2>1, WrittenDisk
  <2>3. GlobalType' /\ CallType' /\ OwnType' /\ UNCHANGED own /\ at_' = "writing"
    BY <1>2 DEF OpenWriting, GlobalType, CallType, OwnType
  <2> QED
    BY <2>1, <2>2, <2>3 DEF DumpInv, WholeFiles
<1>3. CASE WriteModel
  <2>1. own.dumps # <<>> /\ disk' = Written(Head(own.dumps), TRUE)
    BY <1>3 DEF WriteModel, DumpInv
  <2>2. /\ DiskType' /\ disk'.final = disk.final
        /\ disk'.writing[Head(own.dumps)] = Content(TRUE)
    BY <1>1, <2>1, WrittenDisk
  <2>3. GlobalType' /\ CallType' /\ OwnType' /\ UNCHANGED own /\ at_' = "rename"
    BY <1>3 DEF WriteModel, GlobalType, CallType, OwnType
  <2>4. Content(TRUE) \in Held /\ Content(TRUE).whole
    BY ContentType
  <2> QED
    BY <2>1, <2>2, <2>3, <2>4 DEF DumpInv, WholeFiles
<1>4. CASE NoModel
  BY <1>4, DieFiles DEF NoModel
<1>5. CASE RenameModel
  <2>1. /\ own.dumps # <<>> /\ disk.writing[Head(own.dumps)].whole
        /\ disk' = Renamed(Head(own.dumps))
    BY <1>5 DEF RenameModel, DumpInv
  <2>2. DiskType' /\ WholeFiles'
    BY <1>1, <2>1, RenamedDisk DEF WholeFiles
  <2>3. OwnType'
    BY <1>1, <1>5, <2>1 DEF RenameModel, OwnType
  <2>4. GlobalType' /\ CallType' /\ at_' = "save"
    BY <1>5 DEF RenameModel, GlobalType, CallType
  <2> QED
    BY <2>2, <2>3, <2>4 DEF DumpInv
<1> QED
  BY <1>2, <1>3, <1>4, <1>5

LEMMA NextFiles ==
  ASSUME FilesInv, [SessionNext]_sessionVars
  PROVE  FilesInv'
<1>1. CASE ParseOptions
  BY <1>1, OptionsFiles
<1>2. CASE ReadVector \/ InitializeRegressor
  BY <1>2, RegressorFiles
<1>3. CASE OpenSource
  BY <1>3, SourceFiles
<1>4. CASE FlushCache \/ ResetSource
  BY <1>4, PassFiles
<1>5. CASE EndParser
  BY <1>5, EndFiles
<1>6. CASE LearnerError \/ ReturnToR
  BY <1>6, LeaveFiles
     DEF LearnerError, ReturnToR, Leave, FilesInv, SessionTypeOK, GlobalType
<1>7. CASE OpenWriting \/ WriteModel \/ NoModel \/ RenameModel
  BY <1>7, DumpFiles
<1>8. CASE ProcessEnds
  BY <1>8, DieFiles DEF ProcessEnds
<1>9. CASE UNCHANGED sessionVars
  BY <1>9 DEF sessionVars, FilesInv, SessionTypeOK, DiskType, GlobalType, CallType,
     OwnType, DumpInv, WholeFiles
<1> QED
  BY <1>1, <1>2, <1>3, <1>4, <1>5, <1>6, <1>7, <1>8, <1>9 DEF SessionNext, InCall

(* make_write_cache, reset_source, dump_regressor: a file has its name only *)
(* when it is complete, whatever calls are made, in however many processes *)
(* that end anywhere, with what files they leave behind.                   *)
THEOREM FilesAreWhole == SessionSpec => []WholeFiles
<1>1. FilesInv => WholeFiles
  BY DEF FilesInv
<1> QED
  BY <1>1, InitFiles, NextFiles, PTL DEF SessionSpec

----------------------------------------------------------------------------
(* The caches of calls that give neither -b nor a model, whose bits decide *)
(* when the weights are already there (finding SharedCache): such a call   *)
(* has them to itself, but for calls of the same size, and no model has    *)
(* the name of one.                                                        *)
DefaultCaches ==
  {f \in FileName : \E c \in Calls : c.cache = f /\ c.bits = 0 /\ c.initial = NoFile}
CachesApart ==
  \A c \in Calls :
    /\ c.final \notin DefaultCaches /\ c.readable \notin DefaultCaches
    /\ c.cache \in DefaultCaches => c.initial = NoFile /\ c.bits \in {0, DefaultBits}

(* What a file holds was learnt with the bits and pairs it is stored with, *)
(* and those caches have the default size.                                 *)
Consistent(f, content) ==
  content # NoFile =>
    /\ content.under \subseteq {content.made}
    /\ f \in DefaultCaches => content.made.bits = DefaultBits

FilesConsistent ==
  \A f \in FileName : Consistent(f, disk.final[f]) /\ Consistent(f, disk.writing[f])

(* -b, or the default, holds until a model is read.                        *)
BitsGiven(c) == IF c.bits # 0 THEN c.bits ELSE DefaultBits
OptionsHold ==
  /\ at_ = "regressor" =>
       /\ own = NewCall /\ global.num_bits = BitsGiven(call)
       /\ global.default_bits => call.bits = 0
  /\ at_ = "source" =>
       /\ call.initial = NoFile => global.num_bits = BitsGiven(call)
       /\ global.default_bits => call.bits = 0 /\ call.initial = NoFile

Running == {"run", "save", "writing", "rename"}
LearntAlike ==
  at_ \in Running \cup {"source"} =>
    /\ own.under \subseteq {Weighs(global)}
    /\ own.weight_bits # NoWeights => own.weight_bits = global.num_bits
MaskFits ==
  at_ \in Running =>
    /\ own.mask = global.num_bits
    /\ own.write_cache \in {NoFile, call.cache}
    /\ call.cache \in DefaultCaches => global.num_bits = DefaultBits
ModelsApart ==
  /\ global.text_regressor_name \notin DefaultCaches
  /\ at_ \in Running \ {"run"} => own.dumps \in Seq(FileName \ DefaultCaches)

FitInv == /\ FilesConsistent /\ OptionsHold /\ LearntAlike /\ MaskFits /\ ModelsApart

LEMMA InitFit == SessionInit => FitInv
<1>1. SessionInit => NoFile \notin DefaultCaches
  BY SessionAssumption DEF DefaultCaches
<1> QED
  BY <1>1 DEF SessionInit, FitInv, FilesConsistent, Consistent, OptionsHold, LearntAlike,
     MaskFits, ModelsApart, Running, Fresh

LEMMA FreshName == NoFile \notin DefaultCaches
  BY SessionAssumption DEF DefaultCaches

(* The files that calls and deaths leave alone.                            *)
LEMMA AtRest ==
  ASSUME FitInv, UNCHANGED disk, at_' = "R",
         global'.text_regressor_name \in {global.text_regressor_name, NoFile}
  PROVE  FitInv'
  BY FreshName DEF FitInv, FilesConsistent, Consistent, OptionsHold, LearntAlike, MaskFits,
     ModelsApart, Running

LEMMA OptionsFit ==
  ASSUME FilesInv, FitInv, ParseOptions
  PROVE  FitInv'
<1>1. PICK c \in Calls : call' = c /\ global' = Parsed(global, c)
  BY DEF ParseOptions
<1>2. c.bits \in Nat
  BY CallFields
<1>3. /\ global'.num_bits = BitsGiven(c)
      /\ global'.default_bits => c.bits = 0
      /\ global'.text_regressor_name = global.text_regressor_name
  BY <1>1, <1>2 DEF Parsed, Reset, BitsGiven, FilesInv, SessionTypeOK, GlobalType
<1> QED
  BY <1>1, <1>3 DEF ParseOptions, FitInv, FilesConsistent, OptionsHold, LearntAlike,
     MaskFits, ModelsApart, Running

LEMMA RegressorFit ==
  ASSUME FilesInv, FitInv, ReadVector \/ InitializeRegressor
  PROVE  FitInv'
<1>1. CASE InitializeRegressor
  <2>1. /\ own' = [NewCall EXCEPT !.weight_bits =
                     IF call.learner \in {"noop", "sendto"} THEN NoWeights
                     ELSE global.num_bits]
        /\ at_ = "regressor" /\ at_' = "source" /\ UNCHANGED <<disk, global, call>>
        /\ call.initial = NoFile
    BY <1>1 DEF InitializeRegressor, FitInv, OptionsHold
  <2>2. own'.under = {} /\ own'.weight_bits \in {NoWeights, global.num_bits}
    BY <2>1 DEF NewCall
  <2> QED
    BY <2>1, <2>2 DEF FitInv, FilesConsistent, OptionsHold, LearntAlike, MaskFits,
       ModelsApart, Running
<1>2. CASE ReadVector
  <2> DEFINE file == disk.final[call.initial]
  <2>1. CASE Leave(global)
    BY <1>2, <2>1, AtRest DEF ReadVector, Leave
  <2>2. CASE /\ file # NoFile
             /\ global' = Adopted(global, file.made)
             /\ own' = [own EXCEPT !.weight_bits = file.made.bits,
                                   !.under = file.under]
             /\ at_' = "source"
    <3>1. call.initial \in FileName
      <4>1. call \in Calls /\ call.initial # NoFile
        BY <1>2 DEF ReadVector, FilesInv, SessionTypeOK, CallType
      <4> QED
        BY <4>1, CallFields DEF Names
    <3>2. file \in Held /\ file.under \subseteq {file.made}
      BY <2>2, <3>1 DEF FilesInv, SessionTypeOK, DiskType, FitInv, FilesConsistent,
         Consistent
    <3>3. file.made \in Weighing
      BY <3>2 DEF Held
    <3>4. /\ Weighs(global') = file.made /\ global'.num_bits = file.made.bits
          /\ ~global'.default_bits
          /\ global'.text_regressor_name = global.text_regressor_name
      BY <2>2, <3>3 DEF Adopted, Weighs, Weighing, FilesInv, SessionTypeOK, GlobalType
    <3>5. own'.under = file.under /\ own'.weight_bits = file.made.bits
      BY <2>2 DEF FilesInv, SessionTypeOK, OwnType
    <3>6. call.initial # NoFile /\ UNCHANGED <<disk, call>>
      BY <1>2 DEF ReadVector
    <3> QED
      BY <2>2, <3>2, <3>4, <3>5, <3>6 DEF FitInv, FilesConsistent, Consistent, OptionsHold,
         LearntAlike, MaskFits, ModelsApart, Running
  <2> QED
    BY <1>2, <2>1, <2>2 DEF ReadVector
<1> QED
  BY <1>1, <1>2

LEMMA WrittenConsistent ==
  ASSUME FilesInv, FilesConsistent, NEW f \in FileName, NEW whole \in BOOLEAN,
         own.under \subseteq {Weighs(global)},
         f \in DefaultCaches => global.num_bits = DefaultBits,
         disk' = Written(f, whole)
  PROVE  FilesConsistent'
<1>1. Consistent(f, Content(whole))
  <2>1. Weighs(global).bits = global.num_bits
    BY DEF Weighs
  <2> QED
    BY <2>1, ContentType DEF FilesInv, SessionTypeOK, Consistent
<1>2. /\ disk'.final = disk.final /\ disk'.writing[f] = Content(whole)
      /\ \A g \in FileName \ {f} : disk'.writing[g] = disk.writing[g]
  BY WrittenDisk DEF FilesInv, SessionTypeOK
<1> QED
  BY <1>1, <1>2 DEF FilesConsistent, Consistent

LEMMA RenamedConsistent ==
  ASSUME FilesInv, FilesConsistent, NEW f \in FileName, disk' = Renamed(f)
  PROVE  FilesConsistent'
<1>1. /\ disk'.final[f] = disk.writing[f] /\ disk'.writing[f] = NoFile
      /\ \A g \in FileName \ {f} : /\ disk'.final[g] = disk.final[g]
                                   /\ disk'.writing[g] = disk.writing[g]
  BY RenamedDisk DEF FilesInv, SessionTypeOK
<1> QED
  BY <1>1 DEF FilesConsistent, Consistent

(* A cache that decides on the bits decides on what they are already.      *)
LEMMA SourceFit ==
  ASSUME CachesApart, FilesInv, FitInv, OpenSource
  PROVE  FitInv'
<1> DEFINE cached == IF call.cache = NoFile THEN NoFile ELSE disk.final[call.cache]
           bits == IF cached # NoFile /\ global.default_bits THEN cached.made.bits
                   ELSE global.num_bits
           use == cached # NoFile /\ (global.default_bits \/ UseCache(cached.made.bits))
           make == call.cache # NoFile /\ ~use
           resettable == use \/ (make /\ call.data)
           g == [global EXCEPT !.num_bits = bits]
<1>1. /\ call \in Calls /\ call.cache \in Names /\ call.bits \in Nat
      /\ call.readable \in Names
  <2>1. call \in Calls
    BY DEF OpenSource, FilesInv, SessionTypeOK, CallType
  <2> QED
    BY <2>1, CallFields
<1>2. /\ at_ = "source"
      /\ disk' = IF make THEN Written(call.cache, FALSE) ELSE disk
      /\ own' = [own EXCEPT !.mask = bits, !.resettable = resettable,
                            !.write_cache = IF make THEN call.cache ELSE NoFile]
      /\ call' = call
  BY DEF OpenSource
<1>3. call.cache \in DefaultCaches => global.num_bits = DefaultBits
  BY <1>1, <1>2 DEF CachesApart, FitInv, OptionsHold, BitsGiven
<1>4. bits = global.num_bits /\ g = global
  <2>1. CASE cached # NoFile /\ global.default_bits
    <3>1. call.cache \in FileName /\ call.bits = 0 /\ call.initial = NoFile
      BY <1>1, <1>2, <2>1 DEF Names, FitInv, OptionsHold
    <3>2. call.cache \in DefaultCaches
      BY <1>1, <3>1 DEF DefaultCaches
    <3>3. cached.made.bits = DefaultBits
      BY <2>1, <3>1, <3>2 DEF FitInv, FilesConsistent, Consistent
    <3> QED
      BY <1>3, <2>1, <3>2, <3>3 DEF FilesInv, SessionTypeOK, GlobalType
  <2>2. CASE ~(cached # NoFile /\ global.default_bits)
    BY <2>2 DEF FilesInv, SessionTypeOK, GlobalType
  <2> QED
    BY <2>1, <2>2
<1>5. /\ own.under \subseteq {Weighs(global)}
      /\ own.weight_bits # NoWeights => own.weight_bits = global.num_bits
  BY <1>2 DEF FitInv, LearntAlike
<1>6. FilesConsistent'
  <2>1. CASE make
    BY <1>1, <1>2, <1>3, <1>5, <2>1, WrittenConsistent DEF FitInv, Names
  <2>2. CASE ~make
    BY <1>2, <2>2 DEF FitInv, FilesConsistent, Consistent
  <2> QED
    BY <2>1, <2>2
<1>7. /\ own'.under = own.under /\ own'.weight_bits = own.weight_bits
      /\ own'.mask = global.num_bits /\ own'.write_cache \in {NoFile, call.cache}
  BY <1>2, <1>4 DEF FilesInv, SessionTypeOK, OwnType
<1>8. CASE Leave(g)
  BY <1>4, <1>6, <1>8 DEF Leave, FitInv, OptionsHold, LearntAlike, MaskFits, ModelsApart,
     Running
<1>9. CASE global' = Readable(g, call) /\ at_' = "run"
  <2>1. Weighs(global') = Weighs(global) /\ global'.num_bits = global.num_bits
    BY <1>4, <1>9 DEF Readable, Weighs, FilesInv, SessionTypeOK, GlobalType
  <2>2. global'.text_regressor_name \in {global.text_regressor_name, call.readable}
    BY <1>4, <1>9 DEF Readable, FilesInv, SessionTypeOK, GlobalType
  <2>3. global'.text_regressor_name \notin DefaultCaches
    BY <1>1, <2>2 DEF FitInv, ModelsApart, CachesApart
  <2> QED
    BY <1>2, <1>3, <1>5, <1>6, <1>7, <1>9, <2>1, <2>3
       DEF FitInv, OptionsHold, LearntAlike, MaskFits, ModelsApart, Running
<1> QED
  BY <1>8, <1>9 DEF OpenSource

LEMMA PassFit ==
  ASSUME FilesInv, FitInv, FlushCache \/ ResetSource
  PROVE  FitInv'
<1>1. CASE FlushCache
  <2>1. own.write_cache \in FileName /\ own.write_cache = call.cache
    BY <1>1 DEF FlushCache, FilesInv, SessionTypeOK, OwnType, Names, FitInv, MaskFits,
       Running
  <2>2. FilesConsistent'
    BY <1>1, <2>1, WrittenConsistent
       DEF FlushCache, FitInv, LearntAlike, MaskFits, Running
  <2> QED
    BY <1>1, <2>2 DEF FlushCache, FitInv, OptionsHold, LearntAlike, MaskFits, ModelsApart,
       Running
<1>2. CASE ResetSource
  <2>1. FilesConsistent'
    <3>1. CASE own.write_cache = NoFile
      BY <1>2, <3>1 DEF ResetSource, FitInv, FilesConsistent, Consistent
    <3>2. CASE own.write_cache # NoFile
      <4>1. own.write_cache \in FileName /\ disk' = Renamed(own.write_cache)
        BY <1>2, <3>2 DEF ResetSource, FilesInv, SessionTypeOK, OwnType, Names
      <4> QED
        BY <4>1, RenamedConsistent DEF FitInv
    <3> QED
      BY <3>1, <3>2
  <2>2. Trained(own) \subseteq {Weighs(global)}
    BY <1>2 DEF ResetSource, Trained, FitInv, LearntAlike, Running
  <2>3. /\ own'.under = Trained(own) /\ own'.weight_bits = own.weight_bits
        /\ own'.mask = own.mask /\ own'.write_cache = NoFile
    <3> DEFINE under == Trained(own)
    <3>1. own' = [own EXCEPT !.write_cache = NoFile,
                             !.passes_complete = own.passes_complete + 1,
                             !.under = under]
      BY <1>2 DEF ResetSource
    <3> HIDE DEF under
    <3>2. /\ own'.under = under /\ own'.weight_bits = own.weight_bits
          /\ own'.mask = own.mask /\ own'.write_cache = NoFile
      BY <3>1 DEF FilesInv, SessionTypeOK, OwnType
    <3> QED
      BY <3>2 DEF under
  <2> QED
    BY <1>2, <2>1, <2>2, <2>3 DEF ResetSource, FitInv, OptionsHold, LearntAlike, MaskFits,
       ModelsApart, Running
<1> QED
  BY <1>1, <1>2

LEMMA EndFit ==
  ASSUME CachesApart, FilesInv, FitInv, EndParser
  PROVE  FitInv'
<1>1. call \in Calls /\ at_ = "run"
  BY DEF EndParser, FilesInv, SessionTypeOK, CallType
<1>2. /\ call.final \in Names /\ call.final \notin DefaultCaches
      /\ global.text_regressor_name \in Names
      /\ global.text_regressor_name \notin DefaultCaches
  BY <1>1, CallFields
     DEF CachesApart, FilesInv, SessionTypeOK, GlobalType, FitInv, ModelsApart
<1>3. ASSUME NEW f \in Names, f \notin DefaultCaches
      PROVE  Named(f) \in Seq(FileName \ DefaultCaches)
  <2>1. CASE f = NoFile
    BY <2>1 DEF Named
  <2>2. CASE f # NoFile
    <3> DEFINE apart == FileName \ DefaultCaches
    <3>1. f \in apart /\ Named(f) = <<f>>
      BY <1>3, <2>2 DEF Named, Names
    <3> HIDE DEF apart
    <3>2. Named(f) \in Seq(apart)
      BY <3>1
    <3> QED
      BY <3>2 DEF apart
  <2> QED
    BY <2>1, <2>2
<1> DEFINE dumps == Named(call.final) \o Named(global.text_regressor_name)
<1>4. dumps \in Seq(FileName \ DefaultCaches)
  BY <1>2, <1>3
<1>5. own' = [own EXCEPT !.dumps = dumps]
  BY DEF EndParser
<1> HIDE DEF dumps
<1>6. /\ own'.dumps = dumps /\ own'.under = own.under /\ own'.mask = own.mask
      /\ own'.weight_bits = own.weight_bits /\ own'.write_cache = own.write_cache
  BY <1>5 DEF FilesInv, SessionTypeOK, OwnType
<1> QED
  BY <1>1, <1>4, <1>6 DEF EndParser, FitInv, FilesConsistent, OptionsHold, LearntAlike,
     MaskFits, ModelsApart, Running

LEMMA DumpFit ==
  ASSUME FilesInv, FitInv, OpenWriting \/ WriteModel \/ RenameModel
  PROVE  FitInv'
<1>1. own.dumps \in Seq(FileName \ DefaultCaches) /\ own.dumps # <<>>
  BY DEF OpenWriting, WriteModel, RenameModel, FitInv, ModelsApart, Running, FilesInv,
     DumpInv
<1>2. /\ Head(own.dumps) \in FileName \ DefaultCaches
      /\ Tail(own.dumps) \in Seq(FileName \ DefaultCaches)
  BY <1>1
<1>3. CASE OpenWriting \/ WriteModel
  <2>1. PICK whole \in BOOLEAN : disk' = Written(Head(own.dumps), whole)
    BY <1>3 DEF OpenWriting, WriteModel
  <2>2. at_ \in Running /\ at_' \in Running \ {"run"} /\ UNCHANGED <<global, call, own>>
    BY <1>3 DEF OpenWriting, WriteModel, Running
  <2>3. FilesConsistent'
    BY <1>2, <2>1, <2>2, WrittenConsistent DEF FitInv, LearntAlike
  <2> QED
    BY <1>1, <2>2, <2>3 DEF FitInv, OptionsHold, LearntAlike, MaskFits, ModelsApart,
       Running
<1>4. CASE RenameModel
  <2>1. FilesConsistent'
    BY <1>2, <1>4, RenamedConsistent DEF RenameModel, FitInv
  <2>2. /\ own'.dumps = Tail(own.dumps) /\ own'.under = own.under /\ own'.mask = own.mask
        /\ own'.weight_bits = own.weight_bits /\ own'.write_cache = own.write_cache
    BY <1>4 DEF RenameModel, FilesInv, SessionTypeOK, OwnType
  <2> QED
    BY <1>2, <1>4, <2>1, <2>2 DEF RenameModel, FitInv, OptionsHold, LearntAlike, MaskFits,
       ModelsApart, Running
<1> QED
  BY <1>3, <1>4

LEMMA NextFit ==
  ASSUME CachesApart, FilesInv, FitInv, [SessionNext]_sessionVars
  PROVE  FitInv'
<1>1. CASE ParseOptions
  BY <1>1, OptionsFit
<1>2. CASE ReadVector \/ InitializeRegressor
  BY <1>2, RegressorFit
<1>3. CASE OpenSource
  BY <1>3, SourceFit
<1>4. CASE FlushCache \/ ResetSource
  BY <1>4, PassFit
<1>5. CASE EndParser
  BY <1>5, EndFit
<1>6. CASE LearnerError \/ ReturnToR
  BY <1>6, AtRest DEF LearnerError, ReturnToR, Leave
<1>7. CASE OpenWriting \/ WriteModel \/ RenameModel
  BY <1>7, DumpFit
<1>8. CASE NoModel \/ ProcessEnds
  BY <1>8, AtRest DEF NoModel, ProcessEnds, Die, Fresh
<1>9. CASE UNCHANGED sessionVars
  BY <1>9 DEF sessionVars, FitInv, FilesConsistent, Consistent, OptionsHold, LearntAlike,
     MaskFits, ModelsApart, Running
<1> QED
  BY <1>1, <1>2, <1>3, <1>4, <1>5, <1>6, <1>7, <1>8, <1>9 DEF SessionNext, InCall

(* The weights fit the indexes and the model that is saved, and no learning *)
(* goes on from weights of other bits or pairs, when every call that leaves *)
(* its bits to a cache has that cache apart from calls of another size.    *)
THEOREM WeightsAlwaysFit ==
  ASSUME CachesApart
  PROVE  SessionSpec => []WeightsFit
<1>1. FitInv => WeightsFit
  BY DEF FitInv, LearntAlike, MaskFits, WeightsFit, Running
<1>2. FilesInv /\ FitInv /\ [SessionNext]_sessionVars => (FilesInv /\ FitInv)'
  BY NextFiles, NextFit
<1>3. SessionInit => FilesInv /\ FitInv
  BY InitFiles, InitFit
<1> QED
  BY <1>1, <1>2, <1>3, PTL DEF SessionSpec

----------------------------------------------------------------------------
(* The settings of a call.  What parse_args never resets is what a new     *)
(* process has as long as no call is noted in before for it; between calls *)
(* only that is compared, and from parse_args on every setting.            *)
Settings == {"num_bits", "default_bits", "pairs", "kind", "text_regressor_name",
             "noop_mm"}
NeverReset == {"pairs", "text_regressor_name", "noop_mm"}
Agree(settings, g, h) == \A o \in settings : g[o] = h[o]
ReadFrom(c) == (IF c.initial # NoFile
                THEN {"num_bits", "default_bits", "pairs", "kind"} ELSE {})
               \cup (IF c.cache # NoFile /\ c.bits = 0 THEN {"num_bits"} ELSE {})

SettingsInv ==
  /\ before \subseteq NeverReset
  /\ at_ = "R" => Agree(NeverReset \ before, global, Fresh)
  /\ at_ = "regressor" => Agree(Settings \ before, global, Parsed(Fresh, call))
  /\ at_ = "source" =>
       Agree(Settings \ (before \cup ReadFrom(call)), global, Parsed(Fresh, call))
  /\ at_ \in Running =>
       Agree(Settings \ (before \cup ReadFrom(call)), global,
             Readable(Parsed(Fresh, call), call))

LEMMA FreshSettings ==
  /\ Fresh.num_bits = DefaultBits /\ Fresh.default_bits = TRUE
  /\ Fresh.pairs = {} /\ Fresh.kind = "linear"
  /\ Fresh.text_regressor_name = NoFile /\ Fresh.noop_mm = FALSE
  BY DEF Fresh

(* What parse_args makes of each setting.                                  *)
GlobalRecord == [num_bits : Nat, default_bits : BOOLEAN, pairs : SUBSET STRING,
                 kind : Kinds, text_regressor_name : Names, noop_mm : BOOLEAN]

LEMMA ParsedSettings ==
  ASSUME NEW g \in GlobalRecord, NEW c
  PROVE  /\ Parsed(g, c).num_bits = IF c.bits # 0 THEN c.bits ELSE DefaultBits
         /\ Parsed(g, c).default_bits = (TRUE /\ c.bits = 0)
         /\ Parsed(g, c).pairs = IF c.pairs # {} THEN c.pairs ELSE g.pairs
         /\ Parsed(g, c).kind = IF c.learner \in {"rank", "lda"} THEN c.learner
                                ELSE "linear"
         /\ Parsed(g, c).text_regressor_name = g.text_regressor_name
         /\ Parsed(g, c).noop_mm = g.noop_mm
  BY DEF GlobalRecord, Parsed, Reset

LEMMA ReadableSettings ==
  ASSUME NEW g \in GlobalRecord, NEW c
  PROVE  /\ \A o \in {"num_bits", "default_bits", "pairs", "kind"} :
              Readable(g, c)[o] = g[o]
         /\ Readable(g, c).text_regressor_name =
              IF c.readable # NoFile THEN c.readable ELSE g.text_regressor_name
         /\ Readable(g, c).noop_mm = (g.noop_mm \/ c.testonly)
  BY DEF GlobalRecord, Readable

LEMMA ParsedType ==
  ASSUME NEW g \in GlobalRecord, NEW c \in Calls
  PROVE  Parsed(g, c) \in GlobalRecord
<1>1. c.bits \in Nat /\ c.pairs \in SUBSET STRING
  BY CallFields
<1>2. Reset(g) \in GlobalRecord
  BY SessionAssumption DEF GlobalRecord, Reset, Kinds
<1> QED
  BY <1>1, <1>2 DEF Parsed, GlobalRecord, Kinds

LEMMA FreshRecord == Fresh \in GlobalRecord
  BY SessionAssumption DEF Fresh, GlobalRecord, Names, Kinds

(* vw() ends: what before does not name has the value of a new process.    *)
LEMMA LeaveSettings ==
  ASSUME before \subseteq NeverReset, NEW g, Leave(g),
         "pairs" \notin before /\ call.pairs = {} /\ call.initial = NoFile =>
           g.pairs = {},
         g.noop_mm \in BOOLEAN
  PROVE  SettingsInv'
<1>1. /\ before' = before
           \cup (IF call.pairs # {} \/ call.initial # NoFile THEN {"pairs"} ELSE {})
           \cup (IF g.text_regressor_name # NoFile THEN {"text_regressor_name"} ELSE {})
           \cup (IF g.noop_mm THEN {"noop_mm"} ELSE {})
      /\ at_' = "R" /\ global' = g
  BY DEF Leave
<1>2. before' \subseteq NeverReset
  BY <1>1 DEF NeverReset
<1>3. Agree(NeverReset \ before', global', Fresh)
  <2>1. "pairs" \notin before' => g.pairs = Fresh.pairs
    BY <1>1, FreshSettings
  <2>2. "text_regressor_name" \notin before' =>
          g.text_regressor_name = Fresh.text_regressor_name
    BY <1>1, FreshSettings
  <2>3. "noop_mm" \notin before' => g.noop_mm = Fresh.noop_mm
    BY <1>1, FreshSettings
  <2> QED
    BY <1>1, <2>1, <2>2, <2>3 DEF Agree, NeverReset
<1> QED
  BY <1>1, <1>2, <1>3 DEF SettingsInv, Running

(* The pairs at the end of a call that named none and read no model.       *)
LEMMA PairsLeft ==
  ASSUME FilesInv, SettingsInv, at_ \in Running \cup {"regressor", "source"},
         "pairs" \notin before, call.pairs = {}, call.initial = NoFile
  PROVE  global.pairs = {}
<1>1. /\ Parsed(Fresh, call).pairs = {}
      /\ Readable(Parsed(Fresh, call), call).pairs = {}
  <2>1. call \in Calls
    BY DEF FilesInv, SessionTypeOK, CallType, Running
  <2> DEFINE fresh == Parsed(Fresh, call)
  <2>2. fresh \in GlobalRecord /\ fresh.pairs = {}
    BY <2>1, FreshRecord, FreshSettings, ParsedSettings, ParsedType
  <2> HIDE DEF fresh
  <2>3. Readable(fresh, call).pairs = {}
    BY <2>2, ReadableSettings
  <2> QED
    BY <2>2, <2>3 DEF fresh
<1>2. "pairs" \in Settings \ (before \cup ReadFrom(call))
  BY DEF Settings, ReadFrom
<1> QED
  BY <1>1, <1>2 DEF SettingsInv, Agree, Running

LEMMA InitSettings == SessionInit => SettingsInv
  BY DEF SessionInit, SettingsInv, Agree, NeverReset, Running

LEMMA OptionsSettings ==
  ASSUME FilesInv, SettingsInv, ParseOptions
  PROVE  SettingsInv'
<1>1. PICK c \in Calls : call' = c /\ global' = Parsed(global, c)
  BY DEF ParseOptions
<1>2. global \in GlobalRecord
  BY DEF FilesInv, SessionTypeOK, GlobalType, GlobalRecord
<1>3. Agree(NeverReset \ before, global, Fresh) /\ before \subseteq NeverReset
  BY DEF ParseOptions, SettingsInv
<1>4. Agree(Settings \ before, Parsed(global, c), Parsed(Fresh, c))
  <2> SUFFICES ASSUME NEW o \in Settings \ before
               PROVE  Parsed(global, c)[o] = Parsed(Fresh, c)[o]
    BY DEF Agree
  <2> DEFINE f == Parsed(global, c)
             h == Parsed(Fresh, c)
  <2>1. CASE o \in {"num_bits", "default_bits", "kind"}
    <3>1. f.num_bits = h.num_bits /\ f.default_bits = h.default_bits /\ f.kind = h.kind
      BY <1>2, FreshRecord, ParsedSettings
    <3> HIDE DEF f, h
    <3>2. f[o] = h[o]
      BY <2>1, <3>1
    <3> QED
      BY <3>2 DEF f, h
  <2>2. CASE o \in NeverReset
    <3>1. global[o] = Fresh[o]
      BY <1>3, <2>2 DEF Agree
    <3>2. /\ global.pairs = Fresh.pairs => f.pairs = h.pairs
          /\ f.text_regressor_name = global.text_regressor_name
          /\ h.text_regressor_name = Fresh.text_regressor_name
      <4>1. /\ f.pairs = IF c.pairs # {} THEN c.pairs ELSE global.pairs
            /\ f.text_regressor_name = global.text_regressor_name
        BY <1>2, ParsedSettings, Zenon
      <4>2. /\ h.pairs = IF c.pairs # {} THEN c.pairs ELSE Fresh.pairs
            /\ h.text_regressor_name = Fresh.text_regressor_name
        BY FreshRecord, ParsedSettings, Zenon
      <4> QED
        BY <4>1, <4>2, Zenon
    <3>3. f.noop_mm = global.noop_mm /\ h.noop_mm = Fresh.noop_mm
      BY <1>2, FreshRecord, ParsedSettings, Zenon
    <3> HIDE DEF f, h
    <3>4. f[o] = h[o]
      <4>1. CASE o = "pairs"
        BY <3>1, <3>2, <4>1
      <4>2. CASE o = "text_regressor_name"
        BY <3>1, <3>2, <4>2
      <4>3. CASE o = "noop_mm"
        BY <3>1, <3>3, <4>3
      <4> QED
        BY <2>2, <4>1, <4>2, <4>3 DEF NeverReset
    <3> QED
      BY <3>4 DEF f, h
  <2> QED
    BY <2>1, <2>2 DEF Settings, NeverReset
<1> QED
  BY <1>1, <1>3, <1>4 DEF ParseOptions, SettingsInv, Running

LEMMA RegressorSettings ==
  ASSUME FilesInv, SettingsInv, ReadVector \/ InitializeRegressor
  PROVE  SettingsInv'
<1>1. CASE InitializeRegressor
  BY <1>1 DEF InitializeRegressor, SettingsInv, Agree, Running
<1>2. CASE ReadVector
  <2>1. CASE Leave(global)
    <3>1. global.noop_mm \in BOOLEAN
      BY DEF FilesInv, SessionTypeOK, GlobalType
    <3>2. at_ = "regressor" /\ before \subseteq NeverReset
      BY <1>2 DEF ReadVector, SettingsInv
    <3> QED
      BY <2>1, <3>1, <3>2, PairsLeft, LeaveSettings
  <2>2. CASE /\ global' = Adopted(global, disk.final[call.initial].made)
             /\ at_' = "source" /\ UNCHANGED before
    <3>1. \A o \in {"text_regressor_name", "noop_mm"} : global'[o] = global[o]
      BY <2>2 DEF Adopted, FilesInv, SessionTypeOK, GlobalType
    <3>2. call' = call /\ call.initial # NoFile /\ at_ = "regressor"
      BY <1>2 DEF ReadVector
    <3> QED
      BY <2>2, <3>1, <3>2 DEF SettingsInv, Agree, Settings, ReadFrom, Running
  <2> QED
    BY <1>2, <2>1, <2>2 DEF ReadVector
<1> QED
  BY <1>1, <1>2

(* A cache decides on the bits only of a call that gives none, nor a model. *)
LEMMA SourceSettings ==
  ASSUME FilesInv, SettingsInv, OpenSource
  PROVE  SettingsInv'
<1> DEFINE cached == IF call.cache = NoFile THEN NoFile ELSE disk.final[call.cache]
           bits == IF cached # NoFile /\ global.default_bits THEN cached.made.bits
                   ELSE global.num_bits
           g == [global EXCEPT !.num_bits = bits]
<1>1. /\ at_ = "source" /\ call' = call
      /\ \/ Leave(g)
         \/ global' = Readable(g, call) /\ at_' = "run" /\ before' = before
  BY DEF OpenSource
<1>2. call \in Calls
  BY <1>1 DEF FilesInv, SessionTypeOK, CallType
<1>3. bits \in Nat
  BY <1>2, CallFields DEF FilesInv, SessionTypeOK, DiskType, GlobalType, Held, Weighing,
     Names
<1>4. global \in GlobalRecord
  BY DEF FilesInv, SessionTypeOK, GlobalType, GlobalRecord
<1>5. /\ g \in GlobalRecord /\ \A o \in Settings \ {"num_bits"} : g[o] = global[o]
      /\ g.num_bits = bits
  <2> HIDE DEF bits
  <2> QED
    BY <1>3, <1>4 DEF GlobalRecord, Settings
<1> DEFINE kept == Settings \ (before \cup ReadFrom(call))
           fresh == Parsed(Fresh, call)
<1>6. Agree(kept, global, fresh) /\ before \subseteq NeverReset
  BY <1>1 DEF SettingsInv
<1>7. fresh \in GlobalRecord
  BY <1>2, FreshRecord, ParsedType
<1>8. Agree(kept, g, fresh)
  <2>1. ASSUME "num_bits" \in kept
        PROVE  bits = global.num_bits
    <3>1. call.initial = NoFile /\ (call.cache = NoFile \/ call.bits # 0)
      BY <2>1 DEF ReadFrom
    <3>2. ASSUME call.bits # 0
          PROVE  global.default_bits = FALSE
      <4>1. "default_bits" \in kept
        BY <1>6, <3>1 DEF Settings, ReadFrom, NeverReset
      <4>2. fresh.default_bits = FALSE
        BY <3>2, FreshRecord, ParsedSettings
      <4> HIDE DEF kept, fresh
      <4> QED
        BY <1>6, <4>1, <4>2 DEF Agree
    <3> QED
      BY <3>1, <3>2
  <2> HIDE DEF bits, g, fresh
  <2> QED
    BY <1>5, <1>6, <2>1 DEF Agree
<1> HIDE DEF bits, g, fresh
<1>9. CASE Leave(g)
  <2>1. g.noop_mm \in BOOLEAN /\ g.pairs = global.pairs
    BY <1>5 DEF GlobalRecord, Settings
  <2> QED
    BY <1>1, <1>6, <1>9, <2>1, PairsLeft, LeaveSettings
<1>10. CASE global' = Readable(g, call) /\ at_' = "run" /\ before' = before
  <2>1. Agree(kept, Readable(g, call), Readable(fresh, call))
    <3> SUFFICES ASSUME NEW o \in kept
                 PROVE  Readable(g, call)[o] = Readable(fresh, call)[o]
      BY DEF Agree
    <3>1. g[o] = fresh[o] /\ o \in Settings
      BY <1>8 DEF Agree
    <3>2. CASE o \in {"num_bits", "default_bits", "pairs", "kind"}
      BY <1>5, <1>7, <3>1, <3>2, ReadableSettings
    <3>3. CASE o = "text_regressor_name"
      BY <1>5, <1>7, <3>1, <3>3, ReadableSettings
    <3>4. CASE o = "noop_mm"
      <4>1. g.noop_mm = fresh.noop_mm
        BY <3>1, <3>4
      <4>2. /\ Readable(g, call).noop_mm = (g.noop_mm \/ call.testonly)
            /\ Readable(fresh, call).noop_mm = (fresh.noop_mm \/ call.testonly)
        BY <1>5, <1>7, ReadableSettings, Zenon
      <4> QED
        BY <3>4, <4>1, <4>2, Zenon
    <3> QED
      BY <3>1, <3>2, <3>3, <3>4 DEF Settings
  <2> QED
    BY <1>1, <1>6, <1>10, <2>1 DEF SettingsInv, Running, fresh
<1> QED
  BY <1>1, <1>9, <1>10

LEMMA NextSettings ==
  ASSUME FilesInv, SettingsInv, [SessionNext]_sessionVars
  PROVE  SettingsInv'
<1>1. CASE ParseOptions
  BY <1>1, OptionsSettings
<1>2. CASE ReadVector \/ InitializeRegressor
  BY <1>2, RegressorSettings
<1>3. CASE OpenSource
  BY <1>3, SourceSettings
<1>4. CASE FlushCache \/ ResetSource \/ EndParser \/ OpenWriting \/ WriteModel \/ RenameModel
  <2>1. /\ UNCHANGED <<global, before, call>>
        /\ at_ \in Running /\ at_' \in Running
    BY <1>4 DEF FlushCache, ResetSource, EndParser, OpenWriting, WriteModel, RenameModel,
       Running
  <2> QED
    BY <2>1 DEF SettingsInv, Running
<1>5. CASE LearnerError \/ ReturnToR
  <2>1. Leave(global) /\ at_ \in Running /\ before \subseteq NeverReset
    BY <1>5 DEF LearnerError, ReturnToR, Running, SettingsInv
  <2>2. global.noop_mm \in BOOLEAN
    BY DEF FilesInv, SessionTypeOK, GlobalType
  <2> QED
    BY <2>1, <2>2, PairsLeft, LeaveSettings
<1>6. CASE NoModel \/ ProcessEnds
  BY <1>6 DEF NoModel, ProcessEnds, Die, SettingsInv, Agree, NeverReset, Running
<1>7. CASE UNCHANGED sessionVars
  BY <1>7 DEF sessionVars, SettingsInv, Agree, Running
<1> QED
  BY <1>1, <1>2, <1>3, <1>4, <1>5, <1>6, <1>7 DEF SessionNext, InCall

(* parse_args: whatever calls a process made before, also calls that ended *)
(* in an error, a call starts with the settings a new process would have,  *)
(* and runs with them, but for those of --pairs, --ngram and --skips,      *)
(* --readable_model and --testonly that an earlier call gave (before), and *)
(* for what the model and the cache it reads decide.                       *)
THEOREM SettingsAreTheCalls == SessionSpec => []SettingsOfTheCall
<1>1. FilesInv /\ SettingsInv => SettingsOfTheCall
  <2> SUFFICES ASSUME FilesInv, SettingsInv PROVE SettingsOfTheCall
    OBVIOUS
  <2>1. DOMAIN global = Settings
    BY DEF FilesInv, SessionTypeOK, GlobalType, Settings
  <2> QED
    BY <2>1 DEF SettingsInv, Agree, SettingsOfTheCall, ReadFrom, Running
<1>2. FilesInv /\ SettingsInv /\ [SessionNext]_sessionVars => (FilesInv /\ SettingsInv)'
  BY NextFiles, NextSettings
<1>3. SessionInit => FilesInv /\ SettingsInv
  BY InitFiles, InitSettings
<1> QED
  BY <1>1, <1>2, <1>3, PTL DEF SessionSpec

=============================================================================
