----------------------- MODULE InferencePipelineProofs -----------------------
(***************************************************************************)
(* Proofs about InferencePipeline, for every length of the ring and of the *)
(* queues, mono or color, with a camera that may overrun the ring and a    *)
(* program that may be stopped: type correctness, and that                 *)
(* postprocess_finish does what it is for.  For a camera that does not     *)
(* overrun the ring: results are published in the order of their frames;   *)
(* and, if it is mono, what is published together belongs together and the *)
(* program implements DetectionStream.                                     *)
(***************************************************************************)
EXTENDS InferencePipeline, TLAPS

(* TypeOK, variable by variable.                                           *)
RingTyped ==
  /\ metadata \in [Slots -> Numbers] /\ pixels \in [Slots -> Numbers]
  /\ insert_idx \in Slots /\ queue_index \in Slots

QueuesTyped ==
  /\ preprocess_inference_queue \in Seq(Jobs)
  /\ inference_postprocess_queue \in Seq(Jobs)

JobsTyped == job \in [Workers -> Jobs]

FlagsTyped ==
  /\ preprocessed \in Nat
  /\ resize_output \in Numbers
  /\ tensors \in [frame : Numbers, pixels : Numbers]
  /\ postprocess_finish \in BOOLEAN
  /\ published \in [frame : Numbers, image : Numbers, result : Numbers]
  /\ main_running \in BOOLEAN

PcTyped ==
  pc \in [Threads -> {"loop", "park", "asleep", "work", "push", "trim", "await",
                      "block", "asleep2", "finish", "notify", "copy", "publish",
                      "stopping", "join", "exit"}]

LEMMA TypeParts ==
  TypeOK <=> RingTyped /\ QueuesTyped /\ JobsTyped /\ FlagsTyped /\ PcTyped
BY DEF TypeOK, RingTyped, QueuesTyped, JobsTyped, FlagsTyped, PcTyped

LEMMA NextSlotTyped == ASSUME NEW i \in Slots PROVE NextSlot(i) \in Slots
BY InferencePipelineAssumption DEF NextSlot, Slots

(* Every step moves the threads' pcs to labels.                            *)
LEMMA PcInductive == PcTyped /\ [Next]_vars => PcTyped'
<1> SUFFICES ASSUME PcTyped, [Next]_vars
             PROVE  PcTyped'
  OBVIOUS
<1> USE DEF PcTyped, Goto, GotoAndWake
<1>1. CASE Camera
  BY <1>1 DEF Camera, ReceiveFrame, CopyPixels, PublishFrame
<1>2. CASE Preprocessor
  BY <1>2 DEF Preprocessor, TakeFrame, NoFrame, Park, Preprocess, PushPreprocessed, Leave
<1>3. CASE Inference
  <2>1. CASE BeginInferenceLoop \/ TakePreprocessed \/ RunInference \/ PushResult
    BY <2>1 DEF BeginInferenceLoop, TakePreprocessed, RunInference, PushResult
  <2>2. CASE Trim \/ AwaitPostprocess \/ Block \/ Leave("inf")
    BY <2>2 DEF Trim, AwaitPostprocess, Block, Leave
  <2> QED
    BY <1>3, <2>1, <2>2 DEF Inference
<1>4. CASE Postprocessor
  BY <1>4 DEF Postprocessor, EnterPostprocess, TakeResult, PublishResult, FlagFinished,
              NotifyFinished, Leave
<1>5. CASE Signal \/ Main
  BY <1>5 DEF Signal, Main, StopAndJoin, Exit
<1>6. CASE UNCHANGED vars
  BY <1>6 DEF vars
<1> QED
  BY <1>1, <1>2, <1>3, <1>4, <1>5, <1>6 DEF Next

(* Every step preserves the types.                                         *)
LEMMA TypeInductive == TypeOK /\ [Next]_vars => TypeOK'
<1> SUFFICES ASSUME RingTyped, QueuesTyped, JobsTyped, FlagsTyped, [Next]_vars
             PROVE  RingTyped' /\ QueuesTyped' /\ JobsTyped' /\ FlagsTyped'
  BY TypeParts, PcInductive, PTL
<1> USE DEF ringVars, queueVars, workVars, doneVars
<1>1. CASE ReceiveFrame
  <2>1. metadata' \in [Slots -> Numbers]
    <3>1. PICK newest \in 0 .. MaxFrames - 1 :
            metadata' = [metadata EXCEPT ![insert_idx] = newest + 1]
      BY <1>1 DEF ReceiveFrame
    <3>2. newest + 1 \in Numbers
      BY InferencePipelineAssumption DEF Numbers
    <3> QED
      BY <3>1, <3>2 DEF RingTyped
  <2> QED
    BY <1>1, <2>1 DEF ReceiveFrame, RingTyped, QueuesTyped, JobsTyped, FlagsTyped
<1>2. CASE CopyPixels
  BY <1>2 DEF CopyPixels, RingTyped, QueuesTyped, JobsTyped, FlagsTyped
<1>3. CASE PublishFrame
  BY <1>3, NextSlotTyped DEF PublishFrame, RingTyped, QueuesTyped, JobsTyped, FlagsTyped
<1>4. CASE TakeFrame
  <2>1. JobsTyped'
    BY <1>4 DEF TakeFrame, JobsTyped, RingTyped, Workers, Jobs
  <2> QED
    BY <1>4, <2>1, NextSlotTyped DEF TakeFrame, RingTyped, QueuesTyped, FlagsTyped
<1>5. CASE Preprocess
  <2> DEFINE frame == pixels[job["pre"].slot]
  <2>1. frame \in Numbers
    BY DEF JobsTyped, Workers, Jobs, RingTyped
  <2>2. JobsTyped'
    <3>1. CASE UNCHANGED job
      BY <3>1 DEF JobsTyped
    <3>2. CASE job' = [job EXCEPT !["pre"].preprocessed_image = PreprocessedImage(frame),
                                  !["pre"].output_image = OutputImage(frame)]
      <4>1. /\ PreprocessedImage(frame) \in Numbers \cup {Shared}
            /\ OutputImage(frame) \in Numbers \cup {Shared}
        BY <2>1 DEF PreprocessedImage, OutputImage
      <4> HIDE DEF frame
      <4> QED
        BY <3>2, <4>1 DEF JobsTyped, Workers, Jobs
    <3> QED
      BY <1>5, <3>1, <3>2 DEF Preprocess
  <2>3. FlagsTyped'
    BY <1>5, <2>1 DEF Preprocess, FlagsTyped
  <2> QED
    BY <1>5, <2>2, <2>3 DEF Preprocess, RingTyped, QueuesTyped
<1>6. CASE PushPreprocessed
  <2>1. [job["pre"] EXCEPT !.metadata = metadata[job["pre"].slot]] \in Jobs
    BY DEF JobsTyped, Workers, Jobs, RingTyped
  <2> QED
    BY <1>6, <2>1 DEF PushPreprocessed, Push, RingTyped, QueuesTyped, JobsTyped, FlagsTyped
<1>7. CASE TakePreprocessed
  <2>1. ASSUME preprocess_inference_queue # <<>>
        PROVE  /\ Head(preprocess_inference_queue) \in Jobs
               /\ Tail(preprocess_inference_queue) \in Seq(Jobs)
    BY <2>1 DEF QueuesTyped
  <2> QED
    BY <1>7, <2>1 DEF TakePreprocessed, RingTyped, QueuesTyped, JobsTyped, FlagsTyped, Workers
<1>8. CASE RunInference
  BY <1>8 DEF RunInference, RingTyped, QueuesTyped, JobsTyped, FlagsTyped, Workers, Jobs, Shared
<1>9. CASE PushResult
  BY <1>9 DEF PushResult, Push, RingTyped, QueuesTyped, JobsTyped, FlagsTyped, Workers
<1>10. CASE Trim
  <2>1. ASSUME NEW q \in Seq(Jobs)
        PROVE  DropOldest(q) \in Seq(Jobs)
    BY InferencePipelineAssumption DEF DropOldest
  <2> QED
    BY <1>10, <2>1 DEF Trim, RingTyped, QueuesTyped, JobsTyped, FlagsTyped
<1>11. CASE TakeResult
  <2>1. ASSUME inference_postprocess_queue # <<>>
        PROVE  /\ Head(inference_postprocess_queue) \in Jobs
               /\ Tail(inference_postprocess_queue) \in Seq(Jobs)
    BY <2>1 DEF QueuesTyped
  <2> QED
    BY <1>11, <2>1 DEF TakeResult, RingTyped, QueuesTyped, JobsTyped, FlagsTyped, Workers
<1>12. CASE PublishResult
  BY <1>12 DEF PublishResult, RingTyped, QueuesTyped, JobsTyped, FlagsTyped, Workers, Jobs,
               Shared
<1>13. CASE BeginInferenceLoop \/ FlagFinished \/ Signal
  BY <1>13 DEF BeginInferenceLoop, FlagFinished, Signal, RingTyped, QueuesTyped, JobsTyped,
               FlagsTyped
<1>14. CASE UNCHANGED <<ringVars, queueVars, workVars, doneVars>>
  BY <1>14 DEF RingTyped, QueuesTyped, JobsTyped, FlagsTyped
<1> QED
  BY <1>1, <1>2, <1>3, <1>4, <1>5, <1>6, <1>7, <1>8, <1>9, <1>10, <1>11, <1>12, <1>13, <1>14
  DEF Next, Camera, Preprocessor, Inference, Postprocessor, Main, NoFrame, Park, Leave,
      AwaitPostprocess, Block, EnterPostprocess, NotifyFinished, StopAndJoin, Exit, vars

(* The types of the pipeline, whatever the camera and the threads do.      *)
THEOREM TypeCorrect == Spec => []TypeOK
<1>1. Init => TypeOK
  <2>1. NoJob \in Jobs
    BY InferencePipelineAssumption DEF NoJob, Jobs, Numbers, Slots
  <2>2. 0 \in Numbers /\ 0 \in Slots
    BY InferencePipelineAssumption DEF Numbers, Slots
  <2>3. Init => RingTyped /\ QueuesTyped /\ JobsTyped /\ PcTyped
    BY <2>1, <2>2 DEF Init, RingTyped, QueuesTyped, JobsTyped, PcTyped
  <2>4. Init => FlagsTyped
    <3>1. /\ [frame |-> 0, pixels |-> 0] \in [frame : Numbers, pixels : Numbers]
          /\ [frame |-> 0, image |-> 0, result |-> 0]
               \in [frame : Numbers, image : Numbers, result : Numbers]
      BY <2>2
    <3>2. Init => postprocess_finish \in BOOLEAN /\ main_running \in BOOLEAN
      BY Zenon DEF Init
    <3>3. Init => /\ preprocessed \in Nat /\ resize_output \in Numbers
                  /\ tensors \in [frame : Numbers, pixels : Numbers]
                  /\ published \in [frame : Numbers, image : Numbers, result : Numbers]
      BY <2>2, <3>1 DEF Init
    <3> QED
      BY <3>2, <3>3, Zenon DEF FlagsTyped
  <2> QED
    BY <2>3, <2>4, TypeParts
<1> QED
  BY <1>1, TypeInductive, PTL DEF Spec

-----------------------------------------------------------------------------
(* The way of a result from RunInference to FlagFinished.                  *)

NoResultBehind ==
  inference_postprocess_queue = <<>> /\ pc["post"] \notin {"publish", "finish"}

(* While the inference thread works on a frame there is no result behind   *)
(* it, and the flag is reset; the flag is set only when there is none.     *)
FlightInv ==
  /\ pc["inf"] \in {"loop", "work", "asleep", "publish", "push", "exit"} => NoResultBehind
  /\ pc["inf"] \in {"work", "asleep", "publish", "push"} => ~postprocess_finish
  /\ postprocess_finish => NoResultBehind
  /\ Len(inference_postprocess_queue) <= 1
  /\ pc["post"] \in {"publish", "finish"} => inference_postprocess_queue = <<>>

(* The result in flight, wherever it is, is the one in the tensors.        *)
TensorInv ==
  /\ pc["inf"] = "push" => tensors.frame = job["inf"].metadata
  /\ inference_postprocess_queue # <<>> =>
       tensors.frame = Head(inference_postprocess_queue).metadata
  /\ pc["post"] = "publish" => tensors.frame = job["post"].metadata

(* The other threads do not disturb the way of a result.                   *)
LEMMA FlowUndisturbed ==
  ASSUME PcTyped, FlightInv, TensorInv,
         UNCHANGED <<inference_postprocess_queue, postprocess_finish, tensors>>,
         job'["inf"] = job["inf"] /\ job'["post"] = job["post"],
         pc'["post"] = pc["post"],
         \/ pc'["inf"] = pc["inf"]
         \/ pc["inf"] = "asleep" /\ pc'["inf"] = "work"
  PROVE  FlightInv' /\ TensorInv'
BY DEF FlightInv, TensorInv, NoResultBehind

(* Every step preserves the way of a result.                               *)
LEMMA FlowInductive ==
  TypeOK /\ FlightInv /\ TensorInv /\ [Next]_vars => FlightInv' /\ TensorInv'
<1> SUFFICES ASSUME TypeOK, FlightInv, TensorInv, [Next]_vars
             PROVE  FlightInv' /\ TensorInv'
  OBVIOUS
<1>t. PcTyped /\ JobsTyped /\ FlagsTyped /\ QueuesTyped
  BY TypeParts
<1> USE DEF Goto, GotoAndWake, ringVars, queueVars, workVars, doneVars
<1>1. CASE Camera \/ Signal \/ Main
  BY <1>1, <1>t, FlowUndisturbed
  DEF Camera, ReceiveFrame, CopyPixels, PublishFrame, Signal, Main, StopAndJoin, Exit,
      PcTyped, Threads, Workers
<1>2. CASE Preprocessor
  <2>1. CASE TakeFrame \/ Preprocess
    <3>1. job'["inf"] = job["inf"] /\ job'["post"] = job["post"]
      BY <1>t, <2>1 DEF TakeFrame, Preprocess, JobsTyped, Workers
    <3> QED
      BY <1>t, <2>1, <3>1, FlowUndisturbed DEF TakeFrame, Preprocess, PcTyped, Threads, Workers
  <2>2. CASE NoFrame \/ Park \/ PushPreprocessed \/ Leave("pre")
    BY <1>t, <2>2, FlowUndisturbed
    DEF NoFrame, Park, PushPreprocessed, Leave, PcTyped, Threads, Workers
  <2> QED
    BY <1>2, <2>1, <2>2 DEF Preprocessor
<1>3. CASE BeginInferenceLoop
  BY <1>t, <1>3 DEF BeginInferenceLoop, FlightInv, TensorInv, NoResultBehind, PcTyped, Threads,
                    Workers
<1>4. CASE TakePreprocessed
  <2>1. job'["post"] = job["post"]
    BY <1>t, <1>4 DEF TakePreprocessed, JobsTyped, Workers
  <2> QED
    BY <1>t, <1>4, <2>1 DEF TakePreprocessed, FlightInv, TensorInv, NoResultBehind, PcTyped,
                            Threads, Workers
<1>5. CASE RunInference
  BY <1>t, <1>5 DEF RunInference, FlightInv, TensorInv, NoResultBehind, PcTyped, Threads, Workers
<1>6. CASE PushResult
  <2>1. inference_postprocess_queue' = <<job["inf"]>>
    BY <1>6 DEF PushResult, Push, FlightInv, NoResultBehind
  <2>2. Len(<<job["inf"]>>) = 1 /\ Head(<<job["inf"]>>) = job["inf"] /\ <<job["inf"]>> # <<>>
    OBVIOUS
  <2>3. pc'["inf"] = "trim" /\ pc'["post"] \notin {"publish", "finish"}
    BY <1>t, <1>6 DEF PushResult, FlightInv, NoResultBehind, PcTyped, Threads, Workers
  <2> QED
    BY <1>6, <2>1, <2>2, <2>3 DEF PushResult, FlightInv, TensorInv, NoResultBehind
<1>7. CASE Trim
  <2>1. \/ inference_postprocess_queue' = inference_postprocess_queue
        \/ inference_postprocess_queue' = <<>>
    BY <1>t, <1>7, InferencePipelineAssumption DEF Trim, DropOldest, FlightInv, QueuesTyped
  <2>2. pc'["inf"] \in {"trim", "await"} /\ pc'["post"] = pc["post"]
    BY <1>t, <1>7 DEF Trim, PcTyped, Threads, Workers
  <2>3. Len(<<>>) = 0
    OBVIOUS
  <2> QED
    BY <1>7, <2>1, <2>2, <2>3 DEF Trim, FlightInv, TensorInv, NoResultBehind
<1>8. CASE AwaitPostprocess \/ Block \/ Leave("inf")
  BY <1>t, <1>8 DEF AwaitPostprocess, Block, Leave, FlightInv, TensorInv, NoResultBehind, PcTyped,
                    Threads, Workers
<1>9. CASE TakeResult
  <2>1. CASE pc'["post"] = "publish"
    <3>1. /\ inference_postprocess_queue # <<>>
          /\ job' = [job EXCEPT !["post"] = Head(inference_postprocess_queue)]
          /\ inference_postprocess_queue' = Tail(inference_postprocess_queue)
      BY <1>t, <1>9, <2>1 DEF TakeResult, PcTyped, Threads, Workers
    <3>2. inference_postprocess_queue' = <<>>
      BY <1>t, <3>1 DEF FlightInv, QueuesTyped
    <3>3. pc["inf"] \in {"trim", "await", "block", "asleep2"} \/ pc["inf"] \notin
             {"loop", "work", "asleep", "publish", "push", "exit"}
      BY <3>1 DEF FlightInv, NoResultBehind
    <3>4. pc'["inf"] = pc["inf"]
      BY <1>t, <1>9 DEF TakeResult, PcTyped, Threads, Workers
    <3>5. job'["post"] = Head(inference_postprocess_queue)
      BY <1>t, <3>1 DEF JobsTyped, Workers
    <3>6. Len(<<>>) = 0
      OBVIOUS
    <3> QED
      BY <1>9, <2>1, <3>1, <3>2, <3>3, <3>4, <3>5, <3>6
      DEF TakeResult, FlightInv, TensorInv, NoResultBehind
  <2>2. CASE pc'["post"] # "publish"
    BY <1>t, <1>9, <2>2 DEF TakeResult, FlightInv, TensorInv, NoResultBehind, PcTyped, Threads,
                            Workers
  <2> QED
    BY <2>1, <2>2
<1>10. CASE EnterPostprocess \/ PublishResult \/ FlagFinished \/ NotifyFinished \/ Leave("post")
  BY <1>t, <1>10 DEF EnterPostprocess, PublishResult, FlagFinished, NotifyFinished, Leave, FlightInv,
                     TensorInv, NoResultBehind, PcTyped, Threads, Workers
<1>11. CASE UNCHANGED vars
  BY <1>11 DEF vars, FlightInv, TensorInv, NoResultBehind
<1> QED
  BY <1>1, <1>2, <1>3, <1>4, <1>5, <1>6, <1>7, <1>8, <1>9, <1>10, <1>11
  DEF Next, Inference, Postprocessor

LEMMA FlowInvariant == Spec => [](TypeOK /\ FlightInv /\ TensorInv)
<1>1. Init => FlightInv /\ TensorInv
  BY DEF Init, FlightInv, TensorInv, NoResultBehind, Threads, Workers
<1> QED
  BY <1>1, TypeCorrect, FlowInductive, PTL DEF Spec

(* While a result is postprocessed no other inference writes to the        *)
(* tensors, also when postprocessing fails and when frames are dropped.    *)
THEOREM TensorsAreHeld == Spec => []TensorsHeld
<1>1. TensorInv => TensorsHeld
  BY DEF TensorInv, TensorsHeld
<1> QED
  BY <1>1, FlowInvariant, PTL

(* At most one result is between inference and the end of postprocessing.  *)
THEOREM OneResultAtATime == Spec => []OneResultInFlight
<1>1. TypeOK /\ FlightInv => OneResultInFlight
  <2> SUFFICES ASSUME TypeOK, FlightInv
               PROVE  OneResultInFlight
    OBVIOUS
  <2>1. Len(<<>>) = 0 /\ Len(inference_postprocess_queue) \in Nat
    BY DEF TypeOK
  <2>2. CASE pc["post"] \in {"publish", "finish"}
    <3>1. inference_postprocess_queue = <<>> /\ pc["inf"] # "push"
      BY <2>2 DEF FlightInv, NoResultBehind
    <3> QED
      BY <2>1, <2>2, <3>1 DEF OneResultInFlight
  <2>3. CASE pc["post"] \notin {"publish", "finish"}
    <3>1. pc["inf"] = "push" => inference_postprocess_queue = <<>>
      BY DEF FlightInv, NoResultBehind
    <3>2. Len(inference_postprocess_queue) <= 1
      BY DEF FlightInv
    <3> QED
      BY <2>1, <2>3, <3>1, <3>2 DEF OneResultInFlight
  <2> QED
    BY <2>2, <2>3
<1> QED
  BY <1>1, FlowInvariant, PTL
-----------------------------------------------------------------------------
(* What belongs to one frame stays together, for a mono camera that does   *)
(* not overrun the ring.                                                   *)

Filling == pc["cam"] \in {"copy", "publish"}

(* The camera is not filling slot s.                                       *)
Kept(s) == Filling => s # insert_idx

(* A job whose slot still holds the frame it was made from.                *)
Held(j) ==
  /\ Kept(j.slot)
  /\ j.metadata = metadata[j.slot]
  /\ j.preprocessed_image = pixels[j.slot]
  /\ j.output_image = Shared

HeldJobs == {j \in Jobs : Held(j)}

SlotsMatch ==
  \A s \in Slots : metadata[s] = pixels[s] \/ (pc["cam"] = "copy" /\ s = insert_idx)

PreprocessorHolds ==
  /\ pc["pre"] \in {"work", "push"} => Kept(job["pre"].slot)
  /\ pc["pre"] = "push" =>
       /\ job["pre"].preprocessed_image = pixels[job["pre"].slot]
       /\ job["pre"].output_image = Shared

WorkersHold ==
  /\ pc["inf"] \in {"publish", "push"} => job["inf"] \in HeldJobs
  /\ pc["post"] = "publish" => job["post"] \in HeldJobs

QueuesHold ==
  /\ \A k \in 1 .. Len(preprocess_inference_queue) :
       preprocess_inference_queue[k] \in HeldJobs
  /\ \A k \in 1 .. Len(inference_postprocess_queue) :
       inference_postprocess_queue[k] \in HeldJobs

SlotInv == SlotsMatch /\ PreprocessorHolds /\ WorkersHold /\ QueuesHold

PairInv == SlotInv /\ QueuedImageIsUsed /\ PublishedMatches

(* A sequence whose elements are in S.                                     *)
LEMMA QueueElements ==
  ASSUME NEW S, NEW q \in Seq(Jobs), \A k \in 1 .. Len(q) : q[k] \in S
  PROVE  /\ q # <<>> => Head(q) \in S /\ \A k \in 1 .. Len(Tail(q)) : Tail(q)[k] \in S
         /\ \A j \in Jobs \cap S :
              \A k \in 1 .. Len(Append(q, j)) : Append(q, j)[k] \in S
OBVIOUS

(* A slot's frame is untouched while a job on it is in hand.               *)
LEMMA HeldUndisturbed ==
  ASSUME UNCHANGED <<metadata, pixels, insert_idx>>, pc'["cam"] = pc["cam"]
  PROVE  HeldJobs' = HeldJobs /\ (SlotsMatch => SlotsMatch')
BY DEF HeldJobs, Held, Kept, Filling, SlotsMatch

(* The camera disturbs no job in hand.                                     *)
LEMMA CameraKeeps ==
  ASSUME TypeOK, ~MayOverrun, SlotInv, Camera
  PROVE  SlotInv'
<1>t. RingTyped /\ PcTyped /\ JobsTyped /\ QueuesTyped
  BY TypeParts
<1> USE DEF Goto, GotoAndWake, queueVars, workVars, doneVars, Filling, Kept
<1>1. /\ UNCHANGED <<preprocess_inference_queue, inference_postprocess_queue, job>>
      /\ \A t \in Workers : pc'[t] = pc[t] \/ (t = "pre" /\ pc'[t] = "loop")
  BY <1>t DEF Camera, ReceiveFrame, CopyPixels, PublishFrame, PcTyped, Threads, Workers
<1>2. \A s \in Slots :
        /\ pc["cam"] = "loop" => s # insert_idx
        /\ Kept(s)
        => Kept(s)' /\ metadata'[s] = metadata[s] /\ pixels'[s] = pixels[s]
  BY <1>t DEF Camera, ReceiveFrame, CopyPixels, PublishFrame, RingTyped, PcTyped, Threads
<1>3. SlotsMatch'
  BY <1>t DEF SlotInv, SlotsMatch, Camera, ReceiveFrame, CopyPixels, PublishFrame,
     RingTyped, PcTyped, Threads
<1>4. \A j \in JobsInHand : pc["cam"] = "loop" => j.slot # insert_idx
  BY DEF Camera, ReceiveFrame, CopyPixels, PublishFrame, RoomInRing
<1>5. \A j \in HeldJobs : (pc["cam"] = "loop" => j.slot # insert_idx) => j \in HeldJobs'
  BY <1>2 DEF HeldJobs, Held, Jobs
<1>6. PreprocessorHolds'
  <2>1. pc["pre"] \in {"work", "push"} => job["pre"] \in JobsInHand
    BY DEF JobsInHand, Workers
  <2>2. job["pre"].slot \in Slots
    BY <1>t DEF JobsTyped, Jobs, Workers
  <2> QED
    BY <1>1, <1>2, <1>4, <2>1, <2>2 DEF SlotInv, PreprocessorHolds, Workers
<1>7. WorkersHold'
  <2>1. pc["inf"] \in {"publish", "push"} => job["inf"] \in JobsInHand
    BY DEF JobsInHand, Workers
  <2>2. pc["post"] = "publish" => job["post"] \in JobsInHand
    BY DEF JobsInHand, Workers
  <2> QED
    BY <1>1, <1>4, <1>5, <2>1, <2>2 DEF SlotInv, WorkersHold, Workers
<1>8. QueuesHold'
  <2>1. /\ \A k \in 1 .. Len(preprocess_inference_queue) :
             preprocess_inference_queue[k] \in JobsInHand
        /\ \A k \in 1 .. Len(inference_postprocess_queue) :
             inference_postprocess_queue[k] \in JobsInHand
    BY DEF JobsInHand
  <2> QED
    BY <1>1, <1>4, <1>5, <2>1 DEF SlotInv, QueuesHold
<1> QED
  BY <1>3, <1>6, <1>7, <1>8 DEF SlotInv

(* The workers pass jobs on as they are.                                   *)
LEMMA WorkersKeep ==
  ASSUME TypeOK, ~Color, SlotInv,
         Preprocessor \/ Inference \/ Postprocessor \/ Signal \/ Main
  PROVE  SlotInv'
<1>t. RingTyped /\ PcTyped /\ JobsTyped /\ QueuesTyped
  BY TypeParts
<1> USE DEF Goto, GotoAndWake, ringVars, queueVars, workVars, doneVars
<1>1. CASE Preprocessor \/ Inference \/ Postprocessor \/ Signal
  <2>u. UNCHANGED <<metadata, pixels, insert_idx>> /\ pc'["cam"] = pc["cam"]
    BY <1>1, <1>t DEF Preprocessor, TakeFrame, NoFrame, Park, Preprocess, PushPreprocessed,
       Leave, Inference, BeginInferenceLoop, TakePreprocessed, RunInference, PushResult,
       Trim, AwaitPostprocess, Block, Postprocessor, EnterPostprocess, TakeResult,
       PublishResult, FlagFinished, NotifyFinished, Signal, PcTyped, Threads, Workers
  <2>h. HeldJobs' = HeldJobs /\ SlotsMatch'
    BY <2>u, HeldUndisturbed DEF SlotInv
  <2>1. CASE TakeFrame
    <3>1. job'["pre"].slot = queue_index /\ job'["inf"] = job["inf"]
          /\ job'["post"] = job["post"]
      BY <1>t, <2>1 DEF TakeFrame, JobsTyped, Jobs, Workers
    <3> QED
      BY <1>t, <2>1, <2>u, <2>h, <3>1 DEF TakeFrame, SlotInv, PreprocessorHolds,
         WorkersHold, QueuesHold, Kept, Filling, PcTyped, Threads, Workers
  <2>2. CASE Preprocess
    <3>1. job'["inf"] = job["inf"] /\ job'["post"] = job["post"]
          /\ job'["pre"].slot = job["pre"].slot
      BY <1>t, <2>2 DEF Preprocess, JobsTyped, Jobs, Workers
    <3>2. pc'["pre"] = "push" => /\ job'["pre"].preprocessed_image = pixels[job["pre"].slot]
                                 /\ job'["pre"].output_image = Shared
      BY <1>t, <2>2 DEF Preprocess, PreprocessedImage, OutputImage, JobsTyped, Jobs,
         Workers, PcTyped, Threads
    <3> QED
      BY <1>t, <2>2, <2>u, <2>h, <3>1, <3>2 DEF Preprocess, SlotInv, PreprocessorHolds,
         WorkersHold, QueuesHold, Kept, Filling, PcTyped, Threads, Workers
  <2>3. CASE PushPreprocessed
    <3>1. PICK j : j = [job["pre"] EXCEPT !.metadata = metadata[job["pre"].slot]]
      OBVIOUS
    <3>2. j \in Jobs
      BY <1>t, <3>1 DEF JobsTyped, Jobs, Workers, RingTyped
    <3>3. Held(j)
      BY <1>t, <2>3, <3>1 DEF PushPreprocessed, Held, SlotInv, PreprocessorHolds,
         JobsTyped, Jobs, Workers
    <3>4. \A k \in 1 .. Len(preprocess_inference_queue') :
            preprocess_inference_queue'[k] \in HeldJobs
      BY <1>t, <2>3, <3>1, <3>2, <3>3, QueueElements DEF PushPreprocessed, Push, SlotInv,
         QueuesHold, QueuesTyped, HeldJobs
    <3> QED
      BY <1>t, <2>3, <2>u, <2>h, <3>4 DEF PushPreprocessed, SlotInv, PreprocessorHolds,
         WorkersHold, QueuesHold, PcTyped, Threads, Workers
  <2>4. CASE TakePreprocessed
    <3>1. CASE pc'["inf"] = "publish"
      <4>1. /\ preprocess_inference_queue # <<>>
            /\ job'["inf"] = Head(preprocess_inference_queue)
            /\ job'["post"] = job["post"] /\ job'["pre"] = job["pre"]
            /\ preprocess_inference_queue' = Tail(preprocess_inference_queue)
        BY <1>t, <2>4, <3>1 DEF TakePreprocessed, JobsTyped, Workers, PcTyped, Threads
      <4>2. /\ job'["inf"] \in HeldJobs
            /\ \A k \in 1 .. Len(preprocess_inference_queue') :
                 preprocess_inference_queue'[k] \in HeldJobs
        BY <1>t, <4>1, QueueElements DEF SlotInv, QueuesHold, QueuesTyped
      <4> QED
        BY <1>t, <2>4, <2>u, <2>h, <4>1, <4>2 DEF TakePreprocessed, SlotInv,
           PreprocessorHolds, WorkersHold, QueuesHold, Kept, Filling, PcTyped, Threads,
           Workers
    <3>2. CASE pc'["inf"] # "publish"
      BY <1>t, <2>4, <2>u, <2>h, <3>2 DEF TakePreprocessed, SlotInv, PreprocessorHolds,
         WorkersHold, QueuesHold, Kept, Filling, PcTyped, Threads, Workers
    <3> QED BY <3>1, <3>2
  <2>5. CASE PushResult
    <3>1. \A k \in 1 .. Len(inference_postprocess_queue') :
            inference_postprocess_queue'[k] \in HeldJobs
      BY <1>t, <2>5, QueueElements DEF PushResult, Push, SlotInv, QueuesHold, WorkersHold,
         QueuesTyped, JobsTyped, Workers
    <3> QED
      BY <1>t, <2>5, <2>u, <2>h, <3>1 DEF PushResult, SlotInv, PreprocessorHolds,
         WorkersHold, QueuesHold, Kept, Filling, PcTyped, Threads, Workers
  <2>6. CASE Trim
    <3>1. /\ preprocess_inference_queue' \in
               {preprocess_inference_queue, Tail(preprocess_inference_queue)}
          /\ preprocess_inference_queue = <<>> =>
               preprocess_inference_queue' = preprocess_inference_queue
          /\ inference_postprocess_queue' \in
               {inference_postprocess_queue, Tail(inference_postprocess_queue)}
          /\ inference_postprocess_queue = <<>> =>
               inference_postprocess_queue' = inference_postprocess_queue
      BY <1>t, <2>6, InferencePipelineAssumption DEF Trim, DropOldest, QueuesTyped
    <3>2. /\ \A k \in 1 .. Len(preprocess_inference_queue') :
               preprocess_inference_queue'[k] \in HeldJobs
          /\ \A k \in 1 .. Len(inference_postprocess_queue') :
               inference_postprocess_queue'[k] \in HeldJobs
      BY <1>t, <3>1, QueueElements DEF SlotInv, QueuesHold, QueuesTyped
    <3> QED
      BY <1>t, <2>6, <2>u, <2>h, <3>2 DEF Trim, SlotInv, PreprocessorHolds, WorkersHold,
         QueuesHold, Kept, Filling, PcTyped, Threads, Workers
  <2>7. CASE TakeResult
    <3>1. CASE pc'["post"] = "publish"
      <4>1. /\ inference_postprocess_queue # <<>>
            /\ job'["post"] = Head(inference_postprocess_queue)
            /\ job'["inf"] = job["inf"] /\ job'["pre"] = job["pre"]
            /\ inference_postprocess_queue' = Tail(inference_postprocess_queue)
        BY <1>t, <2>7, <3>1 DEF TakeResult, JobsTyped, Workers, PcTyped, Threads
      <4>2. /\ job'["post"] \in HeldJobs
            /\ \A k \in 1 .. Len(inference_postprocess_queue') :
                 inference_postprocess_queue'[k] \in HeldJobs
        BY <1>t, <4>1, QueueElements DEF SlotInv, QueuesHold, QueuesTyped
      <4> QED
        BY <1>t, <2>7, <2>u, <2>h, <4>1, <4>2 DEF TakeResult, SlotInv, PreprocessorHolds,
           WorkersHold, QueuesHold, Kept, Filling, PcTyped, Threads, Workers
    <3>2. CASE pc'["post"] # "publish"
      BY <1>t, <2>7, <2>u, <2>h, <3>2 DEF TakeResult, SlotInv, PreprocessorHolds,
         WorkersHold, QueuesHold, Kept, Filling, PcTyped, Threads, Workers
    <3> QED BY <3>1, <3>2
  <2>8. CASE NoFrame \/ Park \/ Leave("pre") \/ BeginInferenceLoop \/ RunInference
             \/ AwaitPostprocess \/ Block \/ Leave("inf")
    BY <1>t, <2>8, <2>u, <2>h DEF NoFrame, Park, Leave, BeginInferenceLoop, RunInference,
       AwaitPostprocess, Block, SlotInv, PreprocessorHolds, WorkersHold, QueuesHold, Kept,
       Filling, PcTyped, Threads, Workers
  <2>9. CASE EnterPostprocess \/ PublishResult \/ FlagFinished \/ NotifyFinished
             \/ Leave("post") \/ Signal
    BY <1>t, <2>9, <2>u, <2>h DEF EnterPostprocess, PublishResult, FlagFinished,
       NotifyFinished, Leave, Signal, SlotInv, PreprocessorHolds, WorkersHold, QueuesHold,
       Kept, Filling, PcTyped, Threads, Workers
  <2> QED
    BY <1>1, <2>1, <2>2, <2>3, <2>4, <2>5, <2>6, <2>7, <2>8, <2>9
       DEF Preprocessor, Inference, Postprocessor
<1>2. CASE Main
  BY <1>t, <1>2 DEF Main, StopAndJoin, Exit, SlotInv, SlotsMatch, PreprocessorHolds,
     WorkersHold, QueuesHold, HeldJobs, Held, Kept, Filling, PcTyped, Threads, Workers
<1> QED
  BY <1>1, <1>2

(* What was computed and published was of one frame, and stays so.         *)
LEMMA PairStep ==
  ASSUME TypeOK, TensorInv, ~Color, PairInv, [Next]_vars
  PROVE  QueuedImageIsUsed' /\ PublishedMatches'
<1>t. RingTyped /\ JobsTyped /\ FlagsTyped
  BY TypeParts
<1>s. SlotInv
  BY DEF PairInv
<1>h. ASSUME NEW j \in HeldJobs
      PROVE  /\ j.metadata = j.preprocessed_image /\ j.preprocessed_image # Shared
             /\ pixels[j.slot] = j.metadata /\ j.output_image = Shared
  BY <1>s, <1>t DEF HeldJobs, Held, Kept, Filling, Jobs, SlotInv, SlotsMatch, RingTyped,
     Numbers, Shared
<1> USE DEF ringVars, queueVars, workVars, doneVars
<1>1. CASE RunInference
  <2>1. PICK j \in HeldJobs : j = job["inf"]
    BY <1>s, <1>1 DEF RunInference, SlotInv, WorkersHold
  <2>2. j.metadata = j.preprocessed_image /\ j.preprocessed_image # Shared
    BY <1>h
  <2>3. tensors' = [frame |-> j.metadata, pixels |-> j.preprocessed_image]
    BY <1>1, <2>1, <2>2 DEF RunInference
  <2>4. published' = published
    BY <1>1 DEF RunInference
  <2> QED
    BY <2>2, <2>3, <2>4 DEF PairInv, QueuedImageIsUsed, PublishedMatches
<1>2. CASE PublishResult
  <2>1. PICK j \in HeldJobs : j = job["post"]
    BY <1>s, <1>2 DEF PublishResult, SlotInv, WorkersHold
  <2>2. pixels[j.slot] = j.metadata /\ j.output_image = Shared
    BY <1>h
  <2>3. tensors.pixels = j.metadata
    BY <1>2, <2>1 DEF PublishResult, PairInv, QueuedImageIsUsed, TensorInv
  <2>4. \/ published' = [frame |-> j.metadata, image |-> j.metadata, result |-> j.metadata]
        \/ published' = published
    BY <1>2, <2>1, <2>2, <2>3 DEF PublishResult
  <2>5. tensors' = tensors
    BY <1>2 DEF PublishResult
  <2>6. published'.frame = published'.image /\ published'.frame = published'.result
    <3>1. CASE published' = [frame |-> j.metadata, image |-> j.metadata,
                             result |-> j.metadata]
      BY <3>1
    <3>2. CASE published' = published
      BY <3>2 DEF PairInv, PublishedMatches
    <3> QED
      BY <2>4, <3>1, <3>2
  <2>7. tensors'.pixels = tensors'.frame
    BY <2>5 DEF PairInv, QueuedImageIsUsed
  <2> QED
    BY <2>6, <2>7 DEF QueuedImageIsUsed, PublishedMatches
<1>3. CASE UNCHANGED <<tensors, published>>
  BY <1>3 DEF PairInv, QueuedImageIsUsed, PublishedMatches
<1>4. \/ RunInference \/ PublishResult \/ UNCHANGED <<tensors, published>>
  BY DEF Next, vars, Camera, ReceiveFrame, CopyPixels, PublishFrame, Preprocessor,
     TakeFrame, NoFrame, Park, Preprocess, PushPreprocessed, Leave, Inference,
     BeginInferenceLoop, TakePreprocessed, PushResult, Trim, AwaitPostprocess, Block,
     Postprocessor, EnterPostprocess, TakeResult, FlagFinished, NotifyFinished, Signal,
     Main, StopAndJoin, Exit
<1> QED
  BY <1>1, <1>2, <1>3, <1>4

(* Both hold throughout.                                                   *)
LEMMA PairInvariant ==
  ASSUME ~Color, ~MayOverrun
  PROVE  Spec => []PairInv
<1>1. Init => PairInv
  BY DEF Init, PairInv, SlotInv, SlotsMatch, PreprocessorHolds, WorkersHold, QueuesHold,
     QueuedImageIsUsed, PublishedMatches, Kept, Filling, Threads, Workers
<1>2. TypeOK /\ TensorInv /\ PairInv /\ [Next]_vars => PairInv'
  <2> SUFFICES ASSUME TypeOK, TensorInv, PairInv, [Next]_vars
               PROVE  PairInv'
    OBVIOUS
  <2>1. SlotInv
    BY DEF PairInv
  <2>2. CASE Camera
    BY <2>1, <2>2, CameraKeeps, PairStep DEF PairInv
  <2>3. CASE Preprocessor \/ Inference \/ Postprocessor \/ Signal \/ Main
    BY <2>1, <2>3, WorkersKeep, PairStep DEF PairInv
  <2>4. CASE UNCHANGED vars
    BY <2>4 DEF vars, PairInv, SlotInv, SlotsMatch, PreprocessorHolds, WorkersHold,
       QueuesHold, HeldJobs, Held, Kept, Filling, QueuedImageIsUsed, PublishedMatches
  <2> QED
    BY <2>2, <2>3, <2>4 DEF Next
<1> QED
  BY <1>1, <1>2, TypeCorrect, FlowInvariant, PTL DEF Spec

(* With a mono camera that the workers keep up with, what is published     *)
(* together is of one frame, however many frames were dropped.             *)
THEOREM PublishedTogether ==
  ASSUME ~Color, ~MayOverrun
  PROVE  Spec => []PublishedMatches
BY PairInvariant, PTL DEF PairInv

-----------------------------------------------------------------------------
(* Frames keep their order, whatever is dropped on the way, with a camera  *)
(* that does not overrun the ring.  First the ring itself.                 *)

(* The camera is going round between slot s and the slot after it.         *)
RoundStarts(s) == IF Filling THEN s = insert_idx ELSE NextSlot(s) = insert_idx

(* Anywhere else a slot holds an older frame than the slot after it.       *)
RingOrdered ==
  \A s \in Slots : ~RoundStarts(s) /\ metadata[NextSlot(s)] # 0 =>
    metadata[s] < metadata[NextSlot(s)]

(* What "pre" has not read yet was written.                                *)
RingWritten ==
  /\ Filling => metadata[insert_idx] # 0
  /\ \/ \A s \in Slots : metadata[s] # 0
     \/ /\ queue_index <= insert_idx
        /\ \A s \in Slots : s < insert_idx => metadata[s] # 0

(* Frame n is newer than frame l and those of the jobs in q.               *)
NewerThan(n, l, q) == l < n /\ \A k \in 1 .. Len(q) : q[k].metadata < n

(* q holds jobs on frames newer than l, the oldest first.                  *)
InOrder(l, q) ==
  /\ \A k \in 1 .. Len(q) : l < q[k].metadata
  /\ \A k, m \in 1 .. Len(q) : k < m => q[k].metadata < q[m].metadata

(* n is newer than every frame that was queued for inference, and so than  *)
(* those taken from the queue since.                                       *)
Newer(n) == NewerThan(n, job["inf"].metadata, preprocess_inference_queue)

QueueOrdered == InOrder(job["inf"].metadata, preprocess_inference_queue)

(* The frame "pre" works on is newer than those, and the one it will take  *)
(* next is newer still.                                                    *)
InHand == pc["pre"] \in {"work", "push"}
Unread == queue_index # insert_idx \/ Filling

HandOrdered ==
  /\ InHand => Newer(metadata[job["pre"].slot])
  /\ Unread => Newer(metadata[queue_index])
  /\ InHand /\ Unread => metadata[job["pre"].slot] < metadata[queue_index]

(* The ring's newest frame is no older than any that was queued.           *)
NewestInRing == \E s \in Slots : Newer(metadata[s] + 1)

FrameOrderInv == RingOrdered /\ RingWritten /\ QueueOrdered /\ HandOrdered /\ NewestInRing

(* The result is that of the last frame taken, or of one before.  While it *)
(* is on its way it is newer than what was published last.                 *)
ResultOrdered ==
  /\ published.frame <= tensors.frame /\ tensors.frame <= job["inf"].metadata
  /\ pc["inf"] = "publish" => tensors.frame < job["inf"].metadata
  /\ \/ pc["inf"] = "push"
     \/ inference_postprocess_queue # <<>>
     \/ pc["post"] = "publish"
     => published.frame < tensors.frame

(* What happens to the order when a queue loses its first job ...          *)
LEMMA InOrderTail ==
  ASSUME NEW q \in Seq(Jobs), q # <<>>, NEW l \in Numbers, InOrder(l, q)
  PROVE  /\ l < Head(q).metadata /\ Head(q).metadata \in Numbers
         /\ InOrder(l, Tail(q)) /\ InOrder(Head(q).metadata, Tail(q))
         /\ \A n \in Int : NewerThan(n, l, q) =>
              NewerThan(n, l, Tail(q)) /\ NewerThan(n, Head(q).metadata, Tail(q))
<1>1. /\ Len(q) \in Nat /\ Len(q) >= 1 /\ Tail(q) \in Seq(Jobs)
      /\ Len(Tail(q)) = Len(q) - 1 /\ Head(q) = q[1] /\ 1 \in 1 .. Len(q)
  OBVIOUS
<1>2. ASSUME NEW k \in 1 .. Len(Tail(q))
      PROVE  Tail(q)[k] = q[k + 1] /\ k + 1 \in 1 .. Len(q) /\ k + 1 > 1
  <2>1. k \in Nat /\ k >= 1 /\ k <= Len(q) - 1
    BY <1>1
  <2>2. Tail(q)[k] = q[k + 1]
    OBVIOUS
  <2> QED
    BY <1>1, <2>1, <2>2
<1>3. ASSUME NEW k \in 1 .. Len(q)
      PROVE  q[k].metadata \in Numbers /\ l < q[k].metadata
  <2>1. q[k] \in Jobs
    OBVIOUS
  <2> QED
    BY <2>1 DEF Jobs, InOrder
<1>4. ASSUME NEW k \in 1 .. Len(Tail(q)), NEW m \in 1 .. Len(Tail(q)), k < m
      PROVE  Tail(q)[k].metadata < Tail(q)[m].metadata
  <2>1. k + 1 < m + 1
    BY <1>4
  <2> QED
    BY <1>2, <2>1 DEF InOrder
<1>5. ASSUME NEW k \in 1 .. Len(Tail(q))
      PROVE  Head(q).metadata < Tail(q)[k].metadata /\ l < Tail(q)[k].metadata
  BY <1>1, <1>2, <1>3 DEF InOrder
<1>6. ASSUME NEW n \in Int, NewerThan(n, l, q)
      PROVE  NewerThan(n, l, Tail(q)) /\ NewerThan(n, Head(q).metadata, Tail(q))
  BY <1>1, <1>2, <1>6 DEF NewerThan
<1> QED
  BY <1>1, <1>3, <1>4, <1>5, <1>6 DEF InOrder

(* ... and when a newer one joins it.                                      *)
LEMMA InOrderAppend ==
  ASSUME NEW q \in Seq(Jobs), NEW j \in Jobs, NEW l \in Numbers, InOrder(l, q),
         NewerThan(j.metadata, l, q)
  PROVE  /\ InOrder(l, Append(q, j))
         /\ \A n \in Int : NewerThan(n, l, q) /\ j.metadata < n => NewerThan(n, l, Append(q, j))
<1> DEFINE a == Append(q, j)
<1>1. /\ Len(q) \in Nat /\ Len(a) = Len(q) + 1 /\ a[Len(q) + 1] = j
      /\ \A k \in 1 .. Len(q) : a[k] = q[k]
  OBVIOUS
<1> HIDE DEF a
<1>2. ASSUME NEW k \in 1 .. Len(a)
      PROVE  \/ k \in 1 .. Len(q) /\ a[k] = q[k]
             \/ k = Len(q) + 1 /\ a[k] = j
  <2>1. k \in 1 .. Len(q) \/ k = Len(q) + 1
    BY <1>1
  <2> QED
    BY <1>1, <2>1
<1>3. ASSUME NEW k \in 1 .. Len(a)
      PROVE  l < a[k].metadata
  BY <1>2 DEF InOrder, NewerThan
<1>4. ASSUME NEW k \in 1 .. Len(a), NEW m \in 1 .. Len(a), k < m
      PROVE  a[k].metadata < a[m].metadata
  <2>1. k \in 1 .. Len(q) /\ a[k] = q[k]
    BY <1>1, <1>2, <1>4
  <2>2. CASE m \in 1 .. Len(q) /\ a[m] = q[m]
    BY <1>4, <2>1, <2>2 DEF InOrder
  <2>3. CASE a[m] = j
    BY <2>1, <2>3 DEF NewerThan
  <2> QED
    BY <1>2, <2>2, <2>3
<1>5. ASSUME NEW n \in Int, NewerThan(n, l, q), j.metadata < n
      PROVE  NewerThan(n, l, a)
  BY <1>2, <1>5 DEF NewerThan
<1> QED
  BY <1>3, <1>4, <1>5 DEF InOrder, a

LEMMA NewerStill ==
  ASSUME NEW q \in Seq(Jobs), NEW l \in Numbers, NEW n \in Int, NEW m \in Int, n <= m,
         NewerThan(n, l, q)
  PROVE  NewerThan(m, l, q)
<1>1. l \in Int
  BY InferencePipelineAssumption DEF Numbers
<1>2. ASSUME NEW k \in 1 .. Len(q)
      PROVE  q[k].metadata < m
  <2>0. q[k] \in Jobs
    OBVIOUS
  <2>1. q[k].metadata \in Int /\ q[k].metadata < n
    BY <2>0, InferencePipelineAssumption DEF Numbers, Jobs, NewerThan
  <2> QED
    BY <2>1
<1> QED
  BY <1>1, <1>2 DEF NewerThan

LEMMA NextSlotFacts ==
  ASSUME NEW s \in Slots
  PROVE  /\ NextSlot(s) \in Slots
         /\ s < QueueSize - 1 => NextSlot(s) = s + 1
         /\ s = QueueSize - 1 => NextSlot(s) = 0
         /\ \A t \in Slots : NextSlot(t) = NextSlot(s) => t = s
<1>1. ASSUME NEW t \in Slots
      PROVE  /\ t \in Nat /\ t <= QueueSize - 1
             /\ t < QueueSize - 1 => NextSlot(t) = t + 1
             /\ t = QueueSize - 1 => NextSlot(t) = 0
  BY InferencePipelineAssumption DEF NextSlot, Slots
<1>2. ASSUME NEW t \in Slots, NextSlot(t) = NextSlot(s)
      PROVE  t = s
  BY <1>1, <1>2, InferencePipelineAssumption
<1> QED
  BY <1>1, <1>2, NextSlotTyped

(* The camera keeps the order, as long as there is room in the ring.       *)
LEMMA CameraOrders ==
  ASSUME TypeOK, ~MayOverrun, FrameOrderInv, Camera
  PROVE  FrameOrderInv'
<1> USE DEF Goto, GotoAndWake, queueVars, workVars, doneVars
<1> DEFINE q == preprocess_inference_queue
           l == job["inf"].metadata
<1>t. /\ metadata \in [Slots -> Numbers] /\ insert_idx \in Slots /\ queue_index \in Slots
      /\ q \in Seq(Jobs) /\ l \in Numbers /\ job["pre"].slot \in Slots
      /\ PcTyped
  BY TypeParts DEF RingTyped, QueuesTyped, JobsTyped, Workers, Jobs
<1>n. \A n \in Numbers : n \in Int /\ n >= 0
  BY InferencePipelineAssumption DEF Numbers
<1>k. /\ UNCHANGED <<preprocess_inference_queue, job, queue_index>>
      /\ InHand' = InHand
  BY <1>t DEF Camera, ReceiveFrame, CopyPixels, PublishFrame, InHand, PcTyped, Threads, Workers
<1>o. RingOrdered /\ RingWritten /\ QueueOrdered /\ HandOrdered /\ NewestInRing
  BY DEF FrameOrderInv
<1>q. QueueOrdered'
  BY <1>k, <1>o DEF QueueOrdered
<1>1. CASE ReceiveFrame
  <2>1. PICK newest \in 0 .. MaxFrames - 1 :
          /\ \A s \in Slots : metadata[s] <= newest
          /\ metadata' = [metadata EXCEPT ![insert_idx] = newest + 1]
    BY <1>1 DEF ReceiveFrame
  <2>2. newest \in Int /\ newest >= 0 /\ newest + 1 > 0
    OBVIOUS
  <2>3. /\ metadata'[insert_idx] = newest + 1
        /\ \A s \in Slots \ {insert_idx} : metadata'[s] = metadata[s]
    BY <1>t, <2>1
  <2>4. /\ ~Filling /\ Filling' /\ insert_idx' = insert_idx
        /\ InHand => job["pre"].slot # insert_idx
    BY <1>1, <1>t DEF ReceiveFrame, Filling, PcTyped, Threads, RoomInRing, JobsInHand,
       InHand, Workers
  <2>5. RingOrdered'
    <3> SUFFICES ASSUME NEW s \in Slots, s # insert_idx, metadata'[NextSlot(s)] # 0
                 PROVE  metadata'[s] < metadata'[NextSlot(s)]
      BY <2>4 DEF RingOrdered, RoundStarts
    <3>1. NextSlot(s) \in Slots
      BY NextSlotTyped
    <3>2. CASE NextSlot(s) = insert_idx
      BY <1>t, <1>n, <2>1, <2>2, <2>3, <3>2
    <3>3. CASE NextSlot(s) # insert_idx
      BY <1>o, <2>3, <2>4, <3>1, <3>3 DEF RingOrdered, RoundStarts
    <3> QED
      BY <3>2, <3>3
  <2>6. RingWritten'
    BY <1>k, <1>o, <1>t, <2>2, <2>3, <2>4 DEF RingWritten
  <2>7. \A n \in Int : n > newest => Newer(n)
    <3>1. PICK s \in Slots : Newer(metadata[s] + 1)
      BY <1>o DEF NewestInRing
    <3>2. metadata[s] + 1 \in Int /\ \A n \in Int : n > newest => metadata[s] + 1 <= n
      BY <1>t, <1>n, <2>1, <2>2
    <3> QED
      BY <1>t, <3>1, <3>2, NewerStill DEF Newer
  <2>8. HandOrdered'
    <3>1. InHand => /\ metadata'[job["pre"].slot] = metadata[job["pre"].slot]
                    /\ Newer(metadata[job["pre"].slot])
                    /\ metadata[job["pre"].slot] < newest + 1
      BY <1>o, <1>t, <1>n, <2>1, <2>2, <2>3, <2>4 DEF HandOrdered
    <3>2. CASE queue_index = insert_idx
      BY <1>k, <2>2, <2>3, <2>7, <3>1, <3>2 DEF HandOrdered, Newer
    <3>3. CASE queue_index # insert_idx
      BY <1>k, <1>o, <1>t, <2>3, <3>1, <3>3 DEF HandOrdered, Newer, Unread
    <3> QED
      BY <3>2, <3>3
  <2>9. NewestInRing'
    <3>1. Newer(newest + 1 + 1)
      BY <2>2, <2>7
    <3> QED
      BY <1>k, <1>t, <2>3, <2>4, <3>1 DEF NewestInRing, Newer
  <2> QED
    BY <1>q, <2>5, <2>6, <2>8, <2>9 DEF FrameOrderInv
<1>2. CASE CopyPixels
  <2>1. UNCHANGED <<metadata, insert_idx>> /\ Filling' = Filling
    BY <1>2, <1>t DEF CopyPixels, Filling, PcTyped, Threads
  <2> QED
    BY <1>k, <1>o, <1>q, <2>1 DEF FrameOrderInv, RingOrdered, RoundStarts, RingWritten,
       HandOrdered, Unread, NewestInRing, Newer
<1>3. CASE PublishFrame
  <2>1. Filling /\ ~Filling' /\ UNCHANGED metadata /\ insert_idx' = NextSlot(insert_idx)
    BY <1>3, <1>t DEF PublishFrame, Filling, PcTyped, Threads
  <2>2. RingOrdered'
    <3>1. \A s \in Slots : RoundStarts(s) => RoundStarts(s)'
      BY <1>t, <2>1 DEF RoundStarts
    <3> QED
      BY <1>o, <2>1, <3>1 DEF RingOrdered
  <2>3. RingWritten'
    <3>1. metadata[insert_idx] # 0
      BY <1>o, <2>1 DEF RingWritten
    <3>2. CASE \A s \in Slots : metadata[s] # 0
      BY <2>1, <3>2 DEF RingWritten
    <3>3. CASE queue_index <= insert_idx /\ \A s \in Slots : s < insert_idx => metadata[s] # 0
      <4>1. insert_idx \in Nat /\ queue_index \in Nat /\ \A s \in Slots : s \in Nat
        BY <1>t DEF Slots
      <4>2. CASE insert_idx = QueueSize - 1
        <5>1. \A s \in Slots : s < insert_idx \/ s = insert_idx
          BY <4>2, InferencePipelineAssumption DEF Slots
        <5> QED
          BY <2>1, <3>1, <3>3, <5>1 DEF RingWritten
      <4>3. CASE insert_idx # QueueSize - 1
        <5>1. insert_idx' = insert_idx + 1
          BY <1>t, <2>1, <4>3, NextSlotFacts, InferencePipelineAssumption DEF Slots
        <5>2. \A s \in Slots : s < insert_idx + 1 => s < insert_idx \/ s = insert_idx
          BY <4>1
        <5> QED
          BY <1>k, <2>1, <3>1, <3>3, <4>1, <5>1, <5>2 DEF RingWritten
      <4> QED
        BY <4>2, <4>3
    <3> QED
      BY <1>o, <3>2, <3>3 DEF RingWritten
  <2>4. HandOrdered' /\ NewestInRing'
    BY <1>k, <1>o, <2>1 DEF HandOrdered, Unread, NewestInRing, Newer
  <2> QED
    BY <1>q, <2>2, <2>3, <2>4 DEF FrameOrderInv
<1> QED
  BY <1>1, <1>2, <1>3 DEF Camera

(* The position of "pre" and the camera's: what is read is the oldest.     *)
LEMMA TakeFrameOrders ==
  ASSUME TypeOK, FrameOrderInv, TakeFrame
  PROVE  FrameOrderInv'
<1> USE DEF Goto, queueVars, doneVars
<1> DEFINE q == preprocess_inference_queue
           l == job["inf"].metadata
           next == NextSlot(queue_index)
<1>t. /\ metadata \in [Slots -> Numbers] /\ insert_idx \in Slots /\ queue_index \in Slots
      /\ q \in Seq(Jobs) /\ l \in Numbers /\ next \in Slots
      /\ PcTyped
  BY TypeParts, NextSlotTyped DEF RingTyped, QueuesTyped, JobsTyped, Workers, Jobs
<1>n. \A n \in Numbers : n \in Int /\ n >= 0
  BY InferencePipelineAssumption DEF Numbers
<1>k. /\ UNCHANGED <<metadata, insert_idx, preprocess_inference_queue>>
      /\ job'["inf"] = job["inf"] /\ job'["pre"].slot = queue_index
      /\ queue_index # insert_idx /\ queue_index' = next
      /\ ~InHand /\ InHand' /\ Filling' = Filling
  BY TypeParts DEF TakeFrame, InHand, Filling, PcTyped, Threads, Workers, JobsTyped, Jobs
<1>o. RingOrdered /\ RingWritten /\ QueueOrdered /\ HandOrdered /\ NewestInRing
  BY DEF FrameOrderInv
<1>f. \A n : Newer(n)' <=> Newer(n)
  BY <1>k DEF Newer
<1>1. RingOrdered' /\ QueueOrdered' /\ NewestInRing'
  BY <1>k, <1>o DEF RingOrdered, RoundStarts, QueueOrdered, NewestInRing, Newer
<1> DEFINE Goal == RingWritten' /\ (Unread' => metadata[queue_index] < metadata[next])
<1>2. ASSUME \A s \in Slots : metadata[s] # 0
      PROVE  Goal
  <2>1. RingWritten'
    BY <1>k, <1>t, <1>2 DEF RingWritten
  <2>2. Unread' => metadata[queue_index] < metadata[next]
    BY <1>k, <1>t, <1>o, <1>2 DEF RingOrdered, RoundStarts, Unread
  <2> QED
    BY <2>1, <2>2
<1>3. ASSUME queue_index <= insert_idx, \A s \in Slots : s < insert_idx => metadata[s] # 0
      PROVE  Goal
  <2>1. next = queue_index + 1 /\ next <= insert_idx
    BY <1>k, <1>t, <1>3, NextSlotFacts, InferencePipelineAssumption DEF Slots
  <2>2. Filling => metadata[insert_idx] # 0
    BY <1>o DEF RingWritten
  <2>3. RingWritten'
    BY <1>k, <1>3, <2>1, <2>2 DEF RingWritten
  <2>4. Unread' => metadata[next] # 0
    <3>1. next # insert_idx => next < insert_idx
      BY <1>t, <2>1 DEF Slots
    <3> QED
      BY <1>k, <1>t, <1>3, <2>2, <3>1 DEF Unread
  <2>5. Unread' => metadata[queue_index] < metadata[next]
    BY <1>k, <1>t, <1>o, <2>4 DEF RingOrdered, RoundStarts, Unread
  <2> QED
    BY <2>3, <2>5
<1>4. Goal
  BY <1>o, <1>2, <1>3 DEF RingWritten
<1>5. Newer(metadata[queue_index])
  BY <1>k, <1>o DEF HandOrdered, Unread
<1>6. Unread' => Newer(metadata[next])
  <2>1. metadata[queue_index] \in Int /\ metadata[next] \in Int
    BY <1>t, <1>n
  <2>2. metadata[queue_index] < metadata[next] => metadata[queue_index] <= metadata[next]
    BY <2>1
  <2> QED
    BY <1>t, <1>4, <1>5, <2>1, <2>2, NewerStill DEF Newer
<1>7. HandOrdered'
  BY <1>k, <1>4, <1>5, <1>6 DEF HandOrdered, Newer
<1> QED
  BY <1>1, <1>4, <1>7 DEF FrameOrderInv

(* The queue for inference keeps the order.                                *)
LEMMA QueueOrders ==
  ASSUME TypeOK, FrameOrderInv, PushPreprocessed \/ TakePreprocessed \/ Trim
  PROVE  FrameOrderInv'
<1> USE DEF Goto, GotoAndWake, ringVars, workVars, doneVars
<1> DEFINE q == preprocess_inference_queue
           l == job["inf"].metadata
<1>t. /\ metadata \in [Slots -> Numbers] /\ insert_idx \in Slots /\ queue_index \in Slots
      /\ q \in Seq(Jobs) /\ l \in Numbers /\ job["pre"].slot \in Slots
      /\ PcTyped
  BY TypeParts DEF RingTyped, QueuesTyped, JobsTyped, Workers, Jobs
<1>n. \A s \in Slots : metadata[s] \in Int /\ metadata[s] + 1 \in Int
  BY <1>t, InferencePipelineAssumption DEF Numbers
<1>r. UNCHANGED <<metadata, insert_idx, queue_index>> /\ Filling' = Filling
  BY <1>t DEF PushPreprocessed, TakePreprocessed, Trim, Filling, PcTyped, Threads, Workers
<1>o. RingOrdered /\ RingWritten /\ QueueOrdered /\ HandOrdered /\ NewestInRing
  BY DEF FrameOrderInv
<1>1. RingOrdered' /\ RingWritten' /\ Unread' = Unread
  BY <1>r, <1>o DEF RingOrdered, RoundStarts, RingWritten, Unread
<1>2. CASE PushPreprocessed
  <2> DEFINE m == metadata[job["pre"].slot]
  <2>1. PICK j : j = [job["pre"] EXCEPT !.metadata = m]
    OBVIOUS
  <2>2. j \in Jobs /\ j.metadata = m
    BY <1>t, <2>1, TypeParts DEF JobsTyped, Workers, Jobs
  <2>3. q' = Append(q, j) /\ job' = job /\ InHand /\ ~InHand'
    BY <1>2, <1>t, <2>1 DEF PushPreprocessed, Push, InHand, PcTyped, Threads, Workers
  <2>4. NewerThan(j.metadata, l, q) /\ InOrder(l, q)
    BY <1>o, <2>2, <2>3 DEF HandOrdered, Newer, QueueOrdered
  <2>5. QueueOrdered'
    BY <1>t, <2>2, <2>3, <2>4, InOrderAppend DEF QueueOrdered
  <2>6. \A n \in Int : Newer(n) /\ m < n => Newer(n)'
    BY <1>t, <2>2, <2>3, <2>4, InOrderAppend DEF Newer
  <2>7. HandOrdered'
    BY <1>n, <1>t, <1>o, <1>r, <1>1, <2>3, <2>6 DEF HandOrdered
  <2>8. NewestInRing'
    <3>1. Newer(m + 1)
      <4>1. m \in Int /\ m + 1 \in Int /\ m <= m + 1
        BY <1>n, <1>t
      <4> QED
        BY <1>t, <2>2, <2>4, <4>1, NewerStill DEF Newer
    <3>2. Newer(m + 1)'
      BY <1>n, <1>t, <1>r, <2>3, <2>6, <3>1
    <3> QED
      BY <1>t, <1>r, <2>3, <3>2 DEF NewestInRing
  <2> QED
    BY <1>1, <2>5, <2>7, <2>8 DEF FrameOrderInv
<1>3. CASE TakePreprocessed \/ Trim
  <2>1. /\ InHand' = InHand /\ job'["pre"] = job["pre"]
        /\ \/ q' = q /\ job'["inf"].metadata = l
           \/ q # <<>> /\ q' = Tail(q) /\ job'["inf"].metadata \in {l, Head(q).metadata}
    BY <1>3, <1>t, TypeParts, InferencePipelineAssumption
    DEF TakePreprocessed, Trim, DropOldest, InHand, PcTyped, JobsTyped, Threads, Workers
  <2>2. InOrder(l, q)
    BY <1>o DEF QueueOrdered
  <2>3. QueueOrdered'
    BY <1>t, <2>1, <2>2, InOrderTail DEF QueueOrdered
  <2>4. \A n \in Int : Newer(n) => Newer(n)'
    BY <1>t, <2>1, <2>2, InOrderTail DEF Newer
  <2>5. HandOrdered'
    BY <1>n, <1>t, <1>o, <1>r, <1>1, <2>1, <2>4 DEF HandOrdered
  <2>6. NewestInRing'
    BY <1>n, <1>o, <1>r, <2>4 DEF NewestInRing
  <2> QED
    BY <1>1, <2>3, <2>5, <2>6 DEF FrameOrderInv
<1> QED
  BY <1>2, <1>3

(* Nothing else touches the ring, the queue or what is queued.             *)
LEMMA OrderUndisturbed ==
  ASSUME FrameOrderInv, UNCHANGED <<metadata, insert_idx, queue_index>>,
         UNCHANGED <<preprocess_inference_queue>>,
         job'["inf"].metadata = job["inf"].metadata, job'["pre"].slot = job["pre"].slot,
         InHand' => InHand, Filling' = Filling
  PROVE  FrameOrderInv'
BY DEF FrameOrderInv, RingOrdered, RoundStarts, RingWritten, QueueOrdered, HandOrdered,
       Unread, NewestInRing, Newer

LEMMA FrameOrderStep ==
  ASSUME TypeOK, ~MayOverrun, FrameOrderInv, [Next]_vars
  PROVE  FrameOrderInv'
<1>t. PcTyped /\ JobsTyped
  BY TypeParts
<1> USE DEF Goto, GotoAndWake, ringVars, queueVars, workVars, doneVars
<1>1. CASE Camera
  BY <1>1, CameraOrders
<1>2. CASE TakeFrame
  BY <1>2, TakeFrameOrders
<1>3. CASE PushPreprocessed \/ TakePreprocessed \/ Trim
  BY <1>3, QueueOrders
<1>4. CASE Preprocess
  <2>1. job'["inf"] = job["inf"] /\ job'["pre"].slot = job["pre"].slot
    BY <1>t, <1>4 DEF Preprocess, JobsTyped, Jobs, Workers
  <2> QED
    BY <1>t, <1>4, <2>1, OrderUndisturbed DEF Preprocess, InHand, Filling, PcTyped, Threads,
       Workers
<1>5. CASE NoFrame \/ Park \/ Leave("pre") \/ BeginInferenceLoop \/ RunInference
           \/ PushResult \/ AwaitPostprocess \/ Block \/ Leave("inf")
  BY <1>t, <1>5, OrderUndisturbed DEF NoFrame, Park, Leave, BeginInferenceLoop,
     RunInference, PushResult, AwaitPostprocess, Block, InHand, Filling, PcTyped, Threads,
     Workers
<1>6. CASE TakeResult
  <2>1. job'["inf"] = job["inf"] /\ job'["pre"] = job["pre"]
    BY <1>t, <1>6 DEF TakeResult, JobsTyped, Workers
  <2> QED
    BY <1>t, <1>6, <2>1, OrderUndisturbed DEF TakeResult, InHand, Filling, PcTyped, Threads,
       Workers
<1>7. CASE EnterPostprocess \/ PublishResult \/ FlagFinished \/ NotifyFinished
           \/ Leave("post") \/ Signal \/ Main
  BY <1>t, <1>7, OrderUndisturbed DEF EnterPostprocess, PublishResult, FlagFinished,
     NotifyFinished, Leave, Signal, Main, StopAndJoin, Exit, InHand, Filling, PcTyped,
     Threads, Workers
<1>8. CASE UNCHANGED vars
  BY <1>8, OrderUndisturbed DEF vars, InHand, Filling
<1> QED
  BY <1>1, <1>2, <1>3, <1>4, <1>5, <1>6, <1>7, <1>8
     DEF Next, Preprocessor, Inference, Postprocessor

LEMMA FrameOrderInvariant ==
  ASSUME ~MayOverrun
  PROVE  Spec => []FrameOrderInv
<1>1. ASSUME Init
      PROVE  FrameOrderInv
  <2>1. /\ 0 \in Slots /\ \A s \in Slots : metadata[s] = 0 /\ NextSlot(s) \in Slots
        /\ insert_idx = 0 /\ queue_index = 0 /\ preprocess_inference_queue = <<>>
        /\ job["inf"].metadata = 0 /\ ~Filling /\ ~InHand /\ Len(<<>>) = 0
    BY <1>1, NextSlotTyped, InferencePipelineAssumption
       DEF Init, Slots, NoJob, Workers, Threads, Filling, InHand
  <2>2. \A s \in Slots : s >= 0
    BY InferencePipelineAssumption DEF Slots
  <2>3. RingOrdered /\ HandOrdered
    BY <2>1 DEF RingOrdered, HandOrdered, Unread
  <2>4. RingWritten
    <3>1. queue_index <= insert_idx /\ \A s \in Slots : ~(s < insert_idx)
      BY <2>1, <2>2, InferencePipelineAssumption DEF Slots
    <3> QED
      BY <2>1, <3>1 DEF RingWritten
  <2>5. QueueOrdered /\ Newer(0 + 1)
    BY <2>1 DEF QueueOrdered, InOrder, Newer, NewerThan
  <2>6. NewestInRing
    BY <2>1, <2>5 DEF NewestInRing
  <2> QED
    BY <2>3, <2>4, <2>5, <2>6 DEF FrameOrderInv
<1> QED
  BY <1>1, FrameOrderStep, TypeCorrect, PTL DEF Spec

(* Nothing but inference and publishing moves a result on.                 *)
LEMMA ResultUndisturbed ==
  ASSUME ResultOrdered, UNCHANGED <<tensors, published>>,
         job'["inf"].metadata = job["inf"].metadata,
         inference_postprocess_queue' # <<>> => inference_postprocess_queue # <<>>,
         pc'["inf"] \in {"publish", "push"} => pc'["inf"] = pc["inf"],
         pc'["post"] = "publish" =>
           pc["post"] = "publish" \/ inference_postprocess_queue # <<>>
  PROVE  ResultOrdered'
BY DEF ResultOrdered

LEMMA ResultOrderStep ==
  ASSUME TypeOK, FlightInv, TensorInv, QueueOrdered, ResultOrdered, [Next]_vars
  PROVE  /\ ResultOrdered'
         /\ published' # published => published'.frame > published.frame
<1>t. PcTyped /\ JobsTyped /\ FlagsTyped /\ QueuesTyped
  BY TypeParts
<1>n. /\ published.frame \in Int /\ tensors.frame \in Int /\ job["inf"].metadata \in Int
      /\ published.frame <= tensors.frame /\ tensors.frame <= job["inf"].metadata
  BY <1>t, InferencePipelineAssumption
     DEF FlagsTyped, JobsTyped, Jobs, Workers, Numbers, ResultOrdered
<1> USE DEF Goto, GotoAndWake, ringVars, queueVars, workVars, doneVars
<1>1. CASE Camera \/ Signal \/ Main
  BY <1>t, <1>1, ResultUndisturbed
     DEF Camera, ReceiveFrame, CopyPixels, PublishFrame, Signal, Main, StopAndJoin, Exit,
         PcTyped, Threads, Workers
<1>2. CASE Preprocessor
  <2>1. CASE TakeFrame \/ Preprocess
    <3>1. job'["inf"] = job["inf"]
      BY <1>t, <2>1 DEF TakeFrame, Preprocess, JobsTyped, Workers
    <3> QED
      BY <1>t, <2>1, <3>1, ResultUndisturbed
         DEF TakeFrame, Preprocess, PcTyped, Threads, Workers
  <2>2. CASE NoFrame \/ Park \/ PushPreprocessed \/ Leave("pre")
    BY <1>t, <2>2, ResultUndisturbed
       DEF NoFrame, Park, PushPreprocessed, Leave, PcTyped, Threads, Workers
  <2> QED
    BY <1>2, <2>1, <2>2 DEF Preprocessor
<1>3. CASE TakePreprocessed
  <2>1. CASE pc'["inf"] # "publish"
    <3>1. job'["inf"] = job["inf"] /\ pc'["inf"] # "push"
      BY <1>t, <1>3, <2>1 DEF TakePreprocessed, PcTyped, Threads, Workers
    <3> QED
      BY <1>t, <1>3, <2>1, <3>1, ResultUndisturbed
         DEF TakePreprocessed, PcTyped, Threads, Workers
  <2>2. CASE pc'["inf"] = "publish"
    <3> DEFINE q == preprocess_inference_queue
               l == job["inf"].metadata
    <3>1. q # <<>> /\ job'["inf"] = Head(q) /\ pc["inf"] = "work"
      BY <1>t, <1>3, <2>2
         DEF TakePreprocessed, PcTyped, JobsTyped, Threads, Workers
    <3>2. q \in Seq(Jobs) /\ l \in Numbers /\ InOrder(l, q)
      BY <1>t DEF QueuesTyped, JobsTyped, Jobs, Workers, QueueOrdered
    <3>3. l < Head(q).metadata /\ Head(q).metadata \in Int
      BY <3>1, <3>2, InOrderTail, InferencePipelineAssumption DEF Numbers
    <3>4. UNCHANGED <<tensors, published, inference_postprocess_queue>>
          /\ pc'["post"] = pc["post"]
      BY <1>t, <1>3 DEF TakePreprocessed, PcTyped, Threads, Workers
    <3>5. inference_postprocess_queue = <<>> /\ pc["post"] # "publish"
      BY <3>1 DEF FlightInv, NoResultBehind
    <3>6. tensors.frame < job'["inf"].metadata
      BY <1>n, <3>1, <3>3
    <3> QED
      BY <1>n, <2>2, <3>1, <3>3, <3>4, <3>5, <3>6 DEF ResultOrdered
  <2> QED
    BY <2>1, <2>2
<1>4. CASE RunInference
  <2>1. tensors'.frame = job["inf"].metadata /\ job' = job /\ published' = published
    BY <1>4 DEF RunInference
  <2>2. inference_postprocess_queue' = <<>> /\ pc'["post"] # "publish"
        /\ pc["inf"] = "publish" /\ pc'["inf"] \in {"push", "loop"}
    BY <1>t, <1>4 DEF RunInference, FlightInv, NoResultBehind, PcTyped, Threads, Workers
  <2>3. published.frame < job["inf"].metadata
    BY <1>n, <2>2 DEF ResultOrdered
  <2> QED
    BY <1>n, <2>1, <2>2, <2>3 DEF ResultOrdered
<1>5. CASE PushResult
  <2>1. UNCHANGED <<tensors, published, job>> /\ pc["inf"] = "push" /\ pc'["inf"] = "trim"
    BY <1>t, <1>5 DEF PushResult, PcTyped, Threads, Workers
  <2> QED
    BY <1>n, <2>1 DEF ResultOrdered
<1>6. CASE Trim
  <2>1. inference_postprocess_queue' # <<>> => inference_postprocess_queue # <<>>
    BY <1>t, <1>6, InferencePipelineAssumption DEF Trim, DropOldest, FlightInv, QueuesTyped
  <2>2. pc'["inf"] \in {"trim", "await"} /\ pc'["post"] = pc["post"] /\ job' = job
    BY <1>t, <1>6 DEF Trim, PcTyped, Threads, Workers
  <2> QED
    BY <1>6, <2>1, <2>2, ResultUndisturbed DEF Trim
<1>7. CASE BeginInferenceLoop \/ AwaitPostprocess \/ Block \/ Leave("inf")
  BY <1>t, <1>7, ResultUndisturbed
     DEF BeginInferenceLoop, AwaitPostprocess, Block, Leave, PcTyped, Threads, Workers
<1>8. CASE TakeResult
  <2>1. inference_postprocess_queue' # <<>> => inference_postprocess_queue # <<>>
    BY <1>8 DEF TakeResult
  <2>2. job'["inf"] = job["inf"] /\ pc'["inf"] = pc["inf"]
        /\ (pc'["post"] = "publish" => inference_postprocess_queue # <<>>)
    BY <1>t, <1>8 DEF TakeResult, PcTyped, JobsTyped, Threads, Workers
  <2> QED
    BY <1>8, <2>1, <2>2, ResultUndisturbed DEF TakeResult
<1>9. CASE PublishResult
  <2>1. /\ pc["post"] = "publish" /\ pc'["post"] = "finish" /\ pc'["inf"] = pc["inf"]
        /\ UNCHANGED <<job, tensors, inference_postprocess_queue>>
    BY <1>t, <1>9 DEF PublishResult, PcTyped, Threads, Workers
  <2>2. inference_postprocess_queue = <<>> /\ pc["inf"] # "push"
    BY <2>1 DEF FlightInv, NoResultBehind
  <2>3. published.frame < tensors.frame
    BY <2>1 DEF ResultOrdered
  <2>4. published' = published \/ published'.frame = tensors.frame
    BY <1>9, <2>1 DEF PublishResult, TensorInv
  <2> QED
    BY <1>n, <2>1, <2>2, <2>3, <2>4 DEF ResultOrdered
<1>10. CASE EnterPostprocess \/ FlagFinished \/ NotifyFinished \/ Leave("post")
  BY <1>t, <1>10, ResultUndisturbed
     DEF EnterPostprocess, FlagFinished, NotifyFinished, Leave, PcTyped, Threads, Workers
<1>11. CASE UNCHANGED vars
  BY <1>11, ResultUndisturbed DEF vars
<1> QED
  BY <1>1, <1>2, <1>3, <1>4, <1>5, <1>6, <1>7, <1>8, <1>9, <1>10, <1>11
     DEF Next, Inference, Postprocessor

LEMMA ResultOrderInvariant ==
  ASSUME ~MayOverrun
  PROVE  Spec => [](TypeOK /\ FlightInv /\ TensorInv /\ QueueOrdered /\ ResultOrdered)
<1>1. Init => ResultOrdered
  BY DEF Init, ResultOrdered, NoJob, Workers, Threads
<1>2. FrameOrderInv => QueueOrdered
  BY DEF FrameOrderInv
<1>3. TypeOK /\ FlightInv /\ TensorInv /\ QueueOrdered /\ ResultOrdered /\ [Next]_vars
      => ResultOrdered'
  BY ResultOrderStep
<1> QED
  BY <1>1, <1>2, <1>3, FlowInvariant, FrameOrderInvariant, PTL DEF Spec

(* Detections are published in the order of their frames and never twice   *)
(* for one frame, whatever the order in which the worker threads run,      *)
(* however many frames the trimming of the queues drops and whichever      *)
(* steps fail (the three workers of inference_handler.cpp), as long as the *)
(* camera does not overrun the ring.                                       *)
THEOREM ResultsInOrder ==
  ASSUME ~MayOverrun
  PROVE  Spec => PublishedInOrder
<1>1. TypeOK /\ FlightInv /\ TensorInv /\ QueueOrdered /\ ResultOrdered /\ [Next]_vars
      => [published' # published => published'.frame > published.frame]_vars
  BY ResultOrderStep
<1> QED
  BY <1>1, ResultOrderInvariant, PTL DEF Spec, PublishedInOrder

-----------------------------------------------------------------------------
(* The program is the filter of DetectionStream.                           *)

(* A result that is still to be published belongs to a job whose frame is  *)
(* in the ring.                                                            *)
LEMMA PendingHeld ==
  ASSUME TypeOK, TensorInv, SlotInv, ResultPending
  PROVE  \E j \in JobsInHand : j \in HeldJobs /\ j.metadata = tensors.frame
<1>1. CASE pc["inf"] = "push"
  <2>1. job["inf"] \in JobsInHand
    BY <1>1 DEF JobsInHand, Workers
  <2> QED
    BY <1>1, <2>1 DEF TensorInv, SlotInv, WorkersHold
<1>2. CASE inference_postprocess_queue # <<>>
  <2>1. /\ 1 \in 1 .. Len(inference_postprocess_queue)
        /\ Head(inference_postprocess_queue) = inference_postprocess_queue[1]
    BY <1>2 DEF TypeOK
  <2>2. inference_postprocess_queue[1] \in JobsInHand
    BY <2>1 DEF JobsInHand
  <2>3. inference_postprocess_queue[1] \in HeldJobs
    BY <2>1 DEF SlotInv, QueuesHold
  <2> QED
    BY <1>2, <2>1, <2>2, <2>3 DEF TensorInv
<1>3. CASE pc["post"] = "publish"
  <2>1. job["post"] \in JobsInHand
    BY <1>3 DEF JobsInHand, Workers
  <2> QED
    BY <1>3, <2>1 DEF TensorInv, SlotInv, WorkersHold
<1> QED
  BY <1>1, <1>2, <1>3 DEF ResultPending

(* A new frame spares the one whose result is to be published.             *)
LEMMA FramesReceived ==
  ASSUME TypeOK, TensorInv, SlotInv, ~MayOverrun, ReceiveFrame
  PROVE  Stream!Receive
<1> USE DEF queueVars, workVars, doneVars
<1>t. /\ metadata \in [Slots -> Numbers] /\ insert_idx \in Slots /\ PcTyped
      /\ \A s \in Slots : metadata[s] \in Int
  BY TypeParts, InferencePipelineAssumption DEF RingTyped, Numbers
<1>1. PICK newest \in 0 .. MaxFrames - 1 :
        /\ \A s \in Slots : metadata[s] <= newest
        /\ metadata' = [metadata EXCEPT ![insert_idx] = newest + 1]
  BY DEF ReceiveFrame
<1>2. /\ metadata'[insert_idx] = newest + 1
      /\ \A s \in Slots \ {insert_idx} : metadata'[s] = metadata[s]
  BY <1>t, <1>1
<1>3. newest + 1 \in RingFrames' /\ RingFrames' \ {newest + 1} \subseteq RingFrames
  BY <1>t, <1>2 DEF RingFrames
<1>4. \A m \in RingFrames : m < newest + 1
  <2>1. \A s \in Slots : metadata[s] < newest + 1
    BY <1>t, <1>1
  <2> QED
    BY <2>1 DEF RingFrames
<1>5. ASSUME ResultPending
      PROVE  tensors.frame \in RingFrames'
  <2>1. PICK j \in JobsInHand : j \in HeldJobs /\ j.metadata = tensors.frame
    BY <1>5, PendingHeld
  <2>2. j.slot \in Slots /\ metadata[j.slot] = tensors.frame
    BY <2>1 DEF HeldJobs, Held, Jobs
  <2>3. j.slot # insert_idx
    BY <2>1 DEF ReceiveFrame, RoomInRing
  <2> QED
    BY <1>2, <2>2, <2>3 DEF RingFrames
<1>6. UNCHANGED <<tensors, published>> /\ ResultPending' = ResultPending
  BY <1>t DEF ReceiveFrame, Goto, ResultPending, PcTyped, Threads, Workers
<1> QED
  BY <1>3, <1>4, <1>5, <1>6 DEF Stream!Receive

(* The model runs on a frame in the ring, newer than those before.         *)
LEMMA FramesTaken ==
  ASSUME TypeOK, FlightInv, SlotInv, ResultOrdered, RunInference
  PROVE  \E n \in RingFrames : Stream!Take(n)
<1> DEFINE j == job["inf"]
<1>1. /\ pc["inf"] = "publish" /\ tensors'.frame = j.metadata
      /\ UNCHANGED <<metadata, published>>
  BY DEF RunInference, ringVars, doneVars
<1>2. j \in Jobs /\ j.metadata = metadata[j.slot]
  BY <1>1 DEF SlotInv, WorkersHold, HeldJobs, Held
<1>3. j.metadata \in RingFrames
  BY <1>2 DEF RingFrames, Jobs
<1>4. ~ResultPending
  BY <1>1 DEF FlightInv, NoResultBehind, ResultPending
<1>5. j.metadata > tensors.frame
  <2>1. tensors.frame \in Int /\ j.metadata \in Int
    BY <1>2, InferencePipelineAssumption DEF TypeOK, Jobs, Numbers
  <2> QED
    BY <1>1, <2>1 DEF ResultOrdered
<1>6. RingFrames' = RingFrames
  BY <1>1 DEF RingFrames
<1>7. ResultPending' \in BOOLEAN
  BY DEF ResultPending
<1> QED
  BY <1>1, <1>3, <1>4, <1>5, <1>6, <1>7 DEF Stream!Take

(* What is published is the frame taken up, its image and its result.      *)
LEMMA FramesPublished ==
  ASSUME TypeOK, FlightInv, TensorInv, PairInv, PublishResult
  PROVE  Stream!Publish \/ Stream!GiveUp
<1>t. RingTyped /\ PcTyped /\ JobsTyped
  BY TypeParts
<1> USE DEF ringVars, queueVars, workVars
<1>1. pc["post"] = "publish" /\ UNCHANGED <<metadata, tensors, inference_postprocess_queue>>
  BY DEF PublishResult
<1>2. ResultPending /\ ResultPending' = FALSE
  BY <1>t, <1>1 DEF PublishResult, Goto, FlightInv, NoResultBehind, ResultPending, PcTyped,
     Threads, Workers
<1>3. PICK j \in HeldJobs : j = job["post"]
  BY <1>1 DEF PairInv, SlotInv, WorkersHold
<1>4. /\ j.metadata = tensors.frame /\ tensors.pixels = tensors.frame
      /\ j.output_image = Shared
  BY <1>1, <1>3 DEF TensorInv, PairInv, QueuedImageIsUsed, HeldJobs, Held
<1>5. pixels[j.slot] = j.metadata
  BY <1>t, <1>3 DEF HeldJobs, Held, Kept, Filling, Jobs, PairInv, SlotInv, SlotsMatch, RingTyped
<1>6. \/ published' = [frame |-> tensors.frame, image |-> tensors.frame,
                       result |-> tensors.frame]
      \/ published' = published
  BY <1>3, <1>4, <1>5 DEF PublishResult
<1>7. RingFrames' = RingFrames
  BY <1>1 DEF RingFrames
<1> QED
  BY <1>1, <1>2, <1>6, <1>7 DEF Stream!Publish, Stream!GiveUp

(* Other steps do nothing to it ...                                        *)
LEMMA StreamRests ==
  ASSUME UNCHANGED <<metadata, tensors, published>>, ResultPending' = ResultPending
  PROVE  UNCHANGED Stream!vars
<1>1. RingFrames' = RingFrames
  BY DEF RingFrames
<1> QED
  BY <1>1 DEF Stream!vars

(* ... the way of a result through the queue included.                     *)
LEMMA QueueRests ==
  ASSUME TypeOK, FlightInv, PushResult \/ TakeResult
  PROVE  UNCHANGED Stream!vars
<1>t. PcTyped /\ QueuesTyped
  BY TypeParts
<1> USE DEF Goto, GotoAndWake, ringVars, workVars, doneVars, PcTyped, Threads, Workers
<1>1. UNCHANGED <<metadata, tensors, published>>
  BY DEF PushResult, TakeResult
<1>2. CASE PushResult
  <2>1. inference_postprocess_queue' # <<>>
    BY <1>t, <1>2 DEF PushResult, Push, QueuesTyped
  <2>2. pc["inf"] = "push"
    BY <1>2 DEF PushResult
  <2>3. ResultPending' = ResultPending
    BY <2>1, <2>2 DEF ResultPending
  <2> QED
    BY <1>1, <2>3, StreamRests
<1>3. CASE TakeResult
  <2>1. pc["post"] = "work" /\ pc'["inf"] = pc["inf"]
    BY <1>t, <1>3 DEF TakeResult
  <2>2. CASE inference_postprocess_queue' = inference_postprocess_queue
             /\ pc'["post"] # "publish"
    BY <1>1, <2>1, <2>2, StreamRests DEF ResultPending
  <2>3. CASE inference_postprocess_queue # <<>> /\ pc'["post"] = "publish"
    <3>1. ResultPending' = ResultPending
      BY <2>3 DEF ResultPending
    <3> QED
      BY <1>1, <3>1, StreamRests
  <2> QED
    BY <1>t, <1>3, <2>2, <2>3 DEF TakeResult
<1> QED
  BY <1>2, <1>3

(* Every step is one of the filter, or none.                               *)
LEMMA StreamStep ==
  ASSUME ~MayOverrun, TypeOK, FlightInv, TensorInv, PairInv, ResultOrdered, [Next]_vars
  PROVE  [Stream!Next]_Stream!vars
<1>t. PcTyped /\ QueuesTyped
  BY TypeParts
<1>s. SlotInv
  BY DEF PairInv
<1> USE DEF Goto, GotoAndWake, ringVars, queueVars, workVars, doneVars
<1>1. CASE ReceiveFrame
  BY <1>1, <1>s, FramesReceived DEF Stream!Next
<1>2. CASE RunInference
  BY <1>2, <1>s, FramesTaken DEF Stream!Next
<1>3. CASE PublishResult
  BY <1>3, FramesPublished DEF Stream!Next
<1>4. CASE PushResult \/ TakeResult
  BY <1>4, QueueRests
<1>5. CASE Trim
  <2>1. /\ UNCHANGED <<metadata, tensors, published>>
        /\ pc["inf"] = "trim" /\ pc'["inf"] # "push" /\ pc'["post"] = pc["post"]
    BY <1>t, <1>5 DEF Trim, PcTyped, Threads, Workers
  <2>2. CASE inference_postprocess_queue' = inference_postprocess_queue
    <3>1. ResultPending' = ResultPending
      BY <2>1, <2>2 DEF ResultPending
    <3> QED
      BY <2>1, <3>1, StreamRests
  <2>3. CASE inference_postprocess_queue' # inference_postprocess_queue
    <3>1. inference_postprocess_queue # <<>> /\ inference_postprocess_queue' = <<>>
      BY <1>t, <1>5, <2>3, InferencePipelineAssumption
         DEF Trim, DropOldest, FlightInv, QueuesTyped
    <3>2. ResultPending /\ ResultPending' = FALSE
      BY <2>1, <3>1 DEF FlightInv, ResultPending
    <3>3. RingFrames' = RingFrames
      BY <2>1 DEF RingFrames
    <3> QED
      BY <2>1, <3>2, <3>3 DEF Stream!Next, Stream!GiveUp
  <2> QED
    BY <2>2, <2>3
<1>6. CASE CopyPixels \/ PublishFrame \/ Preprocessor \/ Signal \/ Main
  <2>1. UNCHANGED <<metadata, tensors, published>>
    BY <1>6 DEF CopyPixels, PublishFrame, Preprocessor, TakeFrame, NoFrame, Park, Preprocess,
       PushPreprocessed, Leave, Signal, Main, StopAndJoin, Exit
  <2>2. /\ UNCHANGED inference_postprocess_queue
        /\ pc'["inf"] = "push" <=> pc["inf"] = "push"
        /\ pc'["post"] = pc["post"]
    BY <1>t, <1>6 DEF CopyPixels, PublishFrame, Preprocessor, TakeFrame, NoFrame, Park,
       Preprocess, PushPreprocessed, Leave, Signal, Main, StopAndJoin, Exit, PcTyped,
       Threads, Workers
  <2>3. ResultPending' = ResultPending
    BY <2>2 DEF ResultPending
  <2> QED
    BY <2>1, <2>3, StreamRests
<1>7. CASE BeginInferenceLoop \/ TakePreprocessed \/ AwaitPostprocess \/ Block \/ Leave("inf")
           \/ EnterPostprocess \/ FlagFinished \/ NotifyFinished \/ Leave("post")
  <2>1. UNCHANGED <<metadata, tensors, published>>
    BY <1>7 DEF BeginInferenceLoop, TakePreprocessed, AwaitPostprocess, Block, Leave,
       EnterPostprocess, FlagFinished, NotifyFinished
  <2>2. /\ UNCHANGED inference_postprocess_queue
        /\ pc'["inf"] = "push" <=> pc["inf"] = "push"
        /\ pc'["post"] = "publish" <=> pc["post"] = "publish"
    BY <1>t, <1>7 DEF BeginInferenceLoop, TakePreprocessed, AwaitPostprocess, Block, Leave,
       EnterPostprocess, FlagFinished, NotifyFinished, PcTyped, Threads, Workers
  <2>3. ResultPending' = ResultPending
    BY <2>2 DEF ResultPending
  <2> QED
    BY <2>1, <2>3, StreamRests
<1>8. CASE UNCHANGED vars
  BY <1>8, StreamRests DEF vars, ResultPending
<1> QED
  BY <1>1, <1>2, <1>3, <1>4, <1>5, <1>6, <1>7, <1>8
     DEF Next, Camera, Inference, Postprocessor

(* With a mono camera that does not overrun the ring, the threads of       *)
(* inference_handler.cpp and the camera callback implement the filter of   *)
(* DetectionStream: a frame whose detections are to be published is not    *)
(* written over, and no other is taken up meanwhile.                       *)
THEOREM ImplementsStream ==
  ASSUME ~Color, ~MayOverrun
  PROVE  Spec => StreamSpec
<1>1. Init => Stream!Init
  <2> SUFFICES ASSUME Init PROVE Stream!Init
    OBVIOUS
  <2>1. 0 \in Slots /\ \A s \in Slots : metadata[s] = 0
    BY InferencePipelineAssumption DEF Init, Slots
  <2>2. RingFrames = {0}
    BY <2>1 DEF RingFrames
  <2>3. ResultPending = FALSE
    BY DEF Init, ResultPending, Workers, Threads
  <2> QED
    BY <2>2, <2>3 DEF Init, Stream!Init
<1>2. TypeOK /\ FlightInv /\ TensorInv /\ PairInv /\ ResultOrdered /\ [Next]_vars
      => [Stream!Next]_Stream!vars
  BY StreamStep
<1> QED
  BY <1>1, <1>2, PairInvariant, ResultOrderInvariant, PTL
     DEF Spec, StreamSpec, Stream!Spec
=============================================================================
