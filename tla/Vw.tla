--------------------------------- MODULE Vw ---------------------------------
(***************************************************************************)
(* vw(): a session of calls, and, in the call that is looked at in detail, *)
(* the learner that vw.cc hands the parser to.  The learner runs while the *)
(* call is at "run"; the parser thread ends a pass, and resets its source, *)
(* when it has read what the learner's module says there is, and says that *)
(* it is done after the last pass only; vw() goes on when the learner has  *)
(* returned.  With detail = "files" the learner is what Session makes of   *)
(* it, and calls follow each other, in processes that may die.             *)
(***************************************************************************)
EXTENDS Session, Bfgs, Lda, ClusterNode, IoBuf, Example

VARIABLE detail  \* which learner is looked at, or "files"

learnerVars == <<bfgsVars, ldaVars, nodeVars, ioVars, example>>
vwVars == <<detail, sessionVars, learnerVars>>

(* What is not looked at rests in one of its initial states.               *)
JobsIn(d, jobs) == IF detail = d THEN jobs ELSE {CHOOSE j \in jobs : TRUE}

VwInit ==
  /\ detail \in {"files", "bfgs", "lda", "node", "noop", "example"}
  /\ SessionInit
  /\ BfgsStart(JobsIn("bfgs", BfgsJobs))
  /\ LdaStart(JobsIn("lda", LdaJobs))
  /\ NodeStart(JobsIn("node", NodeJobs))
  /\ IoStart(JobsIn("noop", IoJobs))
  /\ ExampleStart

----------------------------------------------------------------------------
(* vw.cc: the options decide on the learner.  The one in detail gets the   *)
(* first call; what bfgs makes of files is what gd makes of them, and one  *)
(* call of gd is enough for an example.                                    *)
Dispatched ==
  CASE detail = "files" -> call'.learner # "bfgs"
    [] detail = "node" ->
         call'.learner = IF nodeJob.mode = "send" THEN "sendto" ELSE "gd"
    [] detail = "bfgs" -> call'.learner = "bfgs" /\ call'.passes = bfgsJob.numpasses
    [] detail = "example" ->
         call' = CHOOSE c \in Calls :
                   c.learner = "gd" /\ c.data /\ c.passes = 1 /\ c.initial = NoFile
    [] OTHER -> call'.learner = detail

Parse ==
  /\ ParseOptions
  /\ Dispatched
  /\ detail # "files" => budget.calls = MaxCalls /\ call'.data
  /\ detail \notin {"files", "bfgs"} => call'.passes = 1
  /\ UNCHANGED <<detail, learnerVars>>

Files(A) == A /\ UNCHANGED <<detail, learnerVars>>

(* The parser thread is at the end of a pass.  The sources of the nodes of *)
(* a cluster are reset at their own pace: this is the first node's.        *)
FirstNode == CHOOSE n \in BfgsNode : TRUE
PassRead ==
  CASE detail = "files" -> TRUE
    [] detail = "bfgs" -> /\ bfgs[FirstNode].pass = own.passes_complete
                          /\ bfgs[FirstNode].next > bfgsJob.shard[FirstNode]
    [] detail = "lda" -> parsedDocs = Len(ldaJob.docs)
    [] detail = "node" -> parsed = Len(nodeJob.source)
    [] detail = "noop" -> ioAt = "done"
    [] detail = "example" -> ExampleEnded

PassIsOver(A) == PassRead /\ A /\ UNCHANGED <<detail, learnerVars>>

LearnerEnded ==
  CASE detail = "bfgs" -> \A n \in BfgsNode : bfgs[n].pc = "done"
    [] detail = "lda" -> ldaEnded
    [] detail = "node" -> NodeEnded
    [] OTHER -> TRUE

LearnerReturns == LearnerEnded /\ EndParser /\ UNCHANGED <<detail, learnerVars>>

(* bfgs gives up with Rf_error: vw() is left where it is.                  *)
LearnerFails ==
  /\ detail = "bfgs" /\ BfgsEnded /\ ~LearnerEnded /\ LearnerError
  /\ UNCHANGED <<detail, learnerVars>>

Dies == /\ detail = "files" /\ ProcessEnds /\ UNCHANGED <<detail, learnerVars>>

(* A step of the learner.                                                  *)
Learns(d, A) == detail = d /\ at_ = "run" /\ A /\ UNCHANGED <<detail, sessionVars>>
InBfgs(A) == Learns("bfgs", A) /\ UNCHANGED <<ldaVars, nodeVars, ioVars, example>>
InLda(A) == Learns("lda", A) /\ UNCHANGED <<bfgsVars, nodeVars, ioVars, example>>
InNode(A) == Learns("node", A) /\ UNCHANGED <<bfgsVars, ldaVars, ioVars, example>>
InNoop(A) == Learns("noop", A) /\ UNCHANGED <<bfgsVars, ldaVars, nodeVars, example>>
InExample(A) ==
  Learns("example", A) /\ UNCHANGED <<bfgsVars, ldaVars, nodeVars, ioVars>>

(* The source of the next pass is there; there is no next pass.            *)
SourceReset(n) == n = FirstNode => own.passes_complete > bfgs[n].pass
Exhausted(n) == n = FirstNode /\ bfgs[n].pass = LastPass
                  /\ bfgs[n].next > bfgsJob.shard[n] => ~MorePasses

VwReads(n) == \/ TakeExample(n)
              \/ SourceReset(n) /\ NextBfgsPass(n)
              \/ Exhausted(n) /\ EndBfgsPass(n)
ParserIsDone(A) == ~MorePasses /\ A

Next ==
  \/ Parse
  \/ Files(ReadVector) \/ Files(InitializeRegressor) \/ Files(OpenSource)
  \/ PassIsOver(FlushCache) \/ PassIsOver(ResetSource)
  \/ LearnerReturns \/ LearnerFails
  \/ Files(OpenWriting) \/ Files(WriteModel) \/ Files(NoModel)
  \/ Files(RenameModel) \/ Files(ReturnToR) \/ Dies
  \/ \E n \in BfgsNode : InBfgs(VwReads(n) \/ BfgsDeciding(n))
  \/ InBfgs(BfgsReduce)
  \/ InLda(ParseDoc) \/ InLda(ParserIsDone(ParserEnds)) \/ InLda(LdaLearning)
  \/ InNode(NodeParse) \/ InNode(ParserIsDone(NodeParserDone))
  \/ \E t \in Threads : InNode(NodeThread(t))
  \/ InNode(Relay)
  \/ InNoop(IoReading) \/ InNoop(IoWriting)
  \/ InExample(ReadExample) \/ InExample(FinishExample)

(* Every thread runs on while it can, and a cluster answers.  Nobody has   *)
(* to call vw() again, and no process has to die.                          *)
VwFairness ==
  /\ WF_vwVars(\/ Files(ReadVector) \/ Files(InitializeRegressor)
               \/ Files(OpenSource) \/ PassIsOver(FlushCache)
               \/ PassIsOver(ResetSource))
  /\ WF_vwVars(\/ LearnerReturns \/ LearnerFails \/ Files(OpenWriting)
               \/ Files(WriteModel) \/ Files(NoModel) \/ Files(RenameModel)
               \/ Files(ReturnToR))
  /\ \A n \in BfgsNode : WF_vwVars(InBfgs(VwReads(n) \/ BfgsDeciding(n)))
  /\ WF_vwVars(InBfgs(BfgsReduce))
  /\ WF_vwVars(InLda(ParseDoc) \/ InLda(ParserIsDone(ParserEnds)))
  /\ WF_vwVars(InLda(LdaLearning))
  /\ WF_vwVars(InNode(NodeParse) \/ InNode(ParserIsDone(NodeParserDone)))
  /\ WF_vwVars(InNode(Relay))
  /\ \A t \in 1..2 : WF_vwVars(InNode(t \in Threads /\ NodeThread(t)))
  /\ WF_vwVars(InNoop(IoReading) \/ InNoop(IoWriting))
  /\ WF_vwVars(InExample(ReadExample) \/ InExample(FinishExample))

Spec == VwInit /\ [][Next]_vwVars /\ VwFairness

----------------------------------------------------------------------------
(* vw(): every call returns to R, or its process ends.  That takes that    *)
(* learners, relay and parser never all wait for each other, although a    *)
(* signal wakes one of the waiting threads only; that the ring of examples *)
(* holds a minibatch; that the nodes of a cluster agree on the number of   *)
(* calls of all_reduce; and that a buffer grows when a line does not fit.  *)
Termination == (at_ # "R") ~> (at_ = "R")
=============================================================================
