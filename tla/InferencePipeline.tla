-------------------------- MODULE InferencePipeline --------------------------
(***************************************************************************)
(* The three worker threads of voxl-tflite-server (inference_handler.cpp)  *)
(* and what feeds and stops them (main.cpp):                               *)
(*                                                                         *)
(*  - "cam", the camera pipe's helper thread in _camera_helper_cb, fills   *)
(*    the ring camera_queue;                                               *)
(*  - "pre" takes frames from the ring and pushes preprocessed images to   *)
(*    preprocess_inference_queue;                                          *)
(*  - "inf" runs the model and pushes to inference_postprocess_queue, then *)
(*    waits until postprocessing is done, because the interpreter's        *)
(*    tensors hold the result;                                             *)
(*  - "post" publishes the result and sets postprocess_finish;             *)
(*  - "main" stops the program.                                            *)
(*                                                                         *)
(* A frame is its number.  A thread blocked on a condition variable is     *)
(* where its pc says: "asleep", or "asleep2" for "inf" on postprocess_cond.*)
(* A notify that finds nobody asleep is lost.  A queue operation inside    *)
(* its mutex is one step; trimming the queues, done without it, is one     *)
(* step per frame dropped.                                                 *)
(***************************************************************************)
EXTENDS Integers, Sequences

CONSTANTS
  QueueSize,   \* QUEUE_SIZE, 24 in the code
  QueueLimit,  \* QUEUE_LIMIT, 1 in the code
  Color,       \* whether the camera sends color images
  MayStop,     \* whether the program receives SIGINT or SIGTERM
  MayOverrun,  \* whether the camera may get a whole ring ahead of the workers
  MaxFrames    \* bound: frames the camera sends

ASSUME InferencePipelineAssumption ==
  /\ QueueSize \in Nat \ {0}
  /\ QueueLimit \in Nat
  /\ Color \in BOOLEAN
  /\ MayStop \in BOOLEAN
  /\ MayOverrun \in BOOLEAN
  /\ MaxFrames \in Nat

VARIABLES
  metadata, pixels,             \* camera_queue.queue, by slot
  insert_idx, queue_index,      \* the camera's and the preprocessor's position
  preprocessed,                 \* num_frames_processed
  resize_output,                \* the frame in the one resize buffer
  preprocess_inference_queue,
  inference_postprocess_queue,
  job,                          \* the PipelineData a worker has in hand
  tensors,                      \* the frame the result belongs to, and the
                                \* frame whose pixels went into it
  postprocess_finish,
  published,                    \* what was published last
  main_running,
  pc

ringVars  == <<metadata, pixels, insert_idx, queue_index>>
queueVars == <<preprocess_inference_queue, inference_postprocess_queue>>
workVars  == <<preprocessed, resize_output, job, tensors>>
doneVars  == <<postprocess_finish, published, main_running>>
vars == <<metadata, pixels, insert_idx, queue_index, preprocessed, resize_output,
          preprocess_inference_queue, inference_postprocess_queue, job, tensors,
          postprocess_finish, published, main_running, pc>>

Slots   == 0 .. QueueSize - 1
Numbers == 0 .. MaxFrames
Workers == {"pre", "inf", "post"}
Threads == Workers \cup {"cam", "main"}

(* A preprocessed image is a frame of its own, or the resize buffer; an    *)
(* output image is a frame of its own, or the pixels of a ring slot.       *)
Shared == -1
Jobs == [metadata : Numbers, preprocessed_image : Numbers \cup {Shared},
         output_image : Numbers \cup {Shared}, slot : Slots]
NoJob == [metadata |-> 0, preprocessed_image |-> 0, output_image |-> 0, slot |-> 0]

Goto(t, label) == pc' = [pc EXCEPT ![t] = label]

(* Wake thread t, if it sleeps at "from", and let the caller go on.        *)
GotoAndWake(t, label, u, from, to) ==
  pc' = [pc EXCEPT ![t] = label, ![u] = IF @ = from THEN to ELSE @]

TypeOK ==
  /\ metadata \in [Slots -> Numbers] /\ pixels \in [Slots -> Numbers]
  /\ insert_idx \in Slots /\ queue_index \in Slots
  /\ preprocessed \in Nat
  /\ resize_output \in Numbers
  /\ preprocess_inference_queue \in Seq(Jobs)
  /\ inference_postprocess_queue \in Seq(Jobs)
  /\ job \in [Workers -> Jobs]
  /\ tensors \in [frame : Numbers, pixels : Numbers]
  /\ postprocess_finish \in BOOLEAN
  /\ published \in [frame : Numbers, image : Numbers, result : Numbers]
  /\ main_running \in BOOLEAN
  /\ pc \in [Threads -> {"loop", "park", "asleep", "work", "push", "trim", "await",
                         "block", "asleep2", "finish", "notify", "copy", "publish",
                         "stopping", "join", "exit"}]

Init ==
  /\ metadata = [s \in Slots |-> 0] /\ pixels = [s \in Slots |-> 0]
  /\ insert_idx = 0 /\ queue_index = 0
  /\ preprocessed = 0
  /\ resize_output = 0
  /\ preprocess_inference_queue = <<>>
  /\ inference_postprocess_queue = <<>>
  /\ job = [t \in Workers |-> NoJob]
  /\ tensors = [frame |-> 0, pixels |-> 0]
  /\ postprocess_finish = FALSE
  /\ published = [frame |-> 0, image |-> 0, result |-> 0]
  /\ main_running = TRUE
  /\ pc = [t \in Threads |-> "loop"]

-----------------------------------------------------------------------------
(* The camera callback                                                     *)

(* Mutant: the position does not wrap.                                     *)
NextSlotUnwrapped(i) == i + 1

(* The slot after i.                                                       *)
NextSlot(i) == (i + 1) % QueueSize

(* The jobs whose slot is still read: those queued or in a worker's hands. *)
JobsInHand ==
  {preprocess_inference_queue[k] : k \in 1 .. Len(preprocess_inference_queue)}
    \cup {inference_postprocess_queue[k] : k \in 1 .. Len(inference_postprocess_queue)}
    \cup {job[t] : t \in {u \in Workers : pc[u] \in {"work", "push", "publish"}}}

(* The assumption under which the ring works, which the camera callback    *)
(* does not check: its slot is no longer in use, and the ring does not     *)
(* fill up (when it does, it looks empty).                                 *)
RoomInRing ==
  /\ NextSlot(insert_idx) # queue_index
  /\ \A j \in JobsInHand : j.slot # insert_idx

(* A new frame's metadata goes into the slot at insert_idx ...             *)
ReceiveFrame ==
  /\ pc["cam"] = "loop"
  /\ ~MayOverrun => RoomInRing
  /\ \E newest \in 0 .. MaxFrames - 1 :
       /\ \E s \in Slots : metadata[s] = newest
       /\ \A s \in Slots : metadata[s] <= newest
       /\ metadata' = [metadata EXCEPT ![insert_idx] = newest + 1]
  /\ Goto("cam", "copy")
  /\ UNCHANGED <<pixels, insert_idx, queue_index, queueVars, workVars, doneVars>>

(* ... then its pixels ...                                                 *)
CopyPixels ==
  /\ pc["cam"] = "copy"
  /\ pixels' = [pixels EXCEPT ![insert_idx] = metadata[insert_idx]]
  /\ Goto("cam", "publish")
  /\ UNCHANGED <<metadata, insert_idx, queue_index, queueVars, workVars, doneVars>>

(* ... and insert_idx moves on, whether "pre" has kept up or not; cond_var *)
(* is notified without its mutex.                                          *)
PublishFrame ==
  /\ pc["cam"] = "publish"
  /\ insert_idx' = NextSlot(insert_idx)
  /\ GotoAndWake("cam", "loop", "pre", "asleep", "loop")
  /\ UNCHANGED <<metadata, pixels, queue_index, queueVars, workVars, doneVars>>

-----------------------------------------------------------------------------
(* preprocess_worker                                                       *)

TakeFrame ==
  /\ pc["pre"] = "loop"
  /\ main_running
  /\ queue_index # insert_idx
  /\ job' = [job EXCEPT !["pre"].slot = queue_index]
  /\ queue_index' = NextSlot(queue_index)
  /\ Goto("pre", "work")
  /\ UNCHANGED <<metadata, pixels, insert_idx, preprocessed, resize_output, tensors,
                 queueVars, doneVars>>

(* No frame, seen without the mutex ...                                    *)
NoFrame ==
  /\ pc["pre"] = "loop"
  /\ main_running
  /\ queue_index = insert_idx
  /\ Goto("pre", "park")
  /\ UNCHANGED <<ringVars, queueVars, workVars, doneVars>>

(* ... and the wait has no predicate.                                      *)
Park ==
  /\ pc["pre"] = "park"
  /\ Goto("pre", "asleep")
  /\ UNCHANGED <<ringVars, queueVars, workVars, doneVars>>

(* Mutant: the mono image, too, stays in the one buffer.                   *)
PreprocessedMono(frame) == Shared

(* A color image is resized into the buffer, and the result refers to it;  *)
(* a mono image is merged into an image of its own.                        *)
PreprocessedImage(frame) == IF Color THEN Shared ELSE frame

(* A color image is converted into an image of its own; a mono image stays *)
(* in the ring.                                                            *)
OutputImage(frame) == IF Color THEN frame ELSE Shared

(* preprocess() fails on the first frame, for which it sets up the buffer, *)
(* and on a frame of a format that it does not know.                       *)
Preprocess ==
  /\ pc["pre"] = "work"
  /\ preprocessed' = preprocessed + 1
  /\ LET frame == pixels[job["pre"].slot] IN
       \/ /\ Goto("pre", "loop")
          /\ UNCHANGED <<resize_output, job>>
       \/ /\ preprocessed > 0
          /\ resize_output' = frame
          /\ job' = [job EXCEPT !["pre"].preprocessed_image = PreprocessedImage(frame),
                                !["pre"].output_image = OutputImage(frame)]
          /\ Goto("pre", "push")
  /\ UNCHANGED <<ringVars, queueVars, tensors, doneVars>>

(* Mutant: the newest job goes first.                                      *)
PushFirst(q, j) == <<j>> \o q

(* A queue takes its newest job at the back.                               *)
Push(q, j) == Append(q, j)

(* The metadata is read from the ring when the job is queued.              *)
PushPreprocessed ==
  /\ pc["pre"] = "push"
  /\ preprocess_inference_queue' =
       Push(preprocess_inference_queue,
            [job["pre"] EXCEPT !.metadata = metadata[job["pre"].slot]])
  /\ GotoAndWake("pre", "loop", "inf", "asleep", "work")
  /\ UNCHANGED <<ringVars, inference_postprocess_queue, workVars, doneVars>>

-----------------------------------------------------------------------------
(* inference_worker                                                        *)

(* Mutant: the flag of the previous frame stays set.                       *)
BeginInferenceLoop_NoReset ==
  /\ pc["inf"] = "loop"
  /\ main_running
  /\ Goto("inf", "work")
  /\ UNCHANGED <<ringVars, queueVars, workVars, doneVars>>

BeginInferenceLoop ==
  /\ pc["inf"] = "loop"
  /\ main_running
  /\ postprocess_finish' = FALSE
  /\ Goto("inf", "work")
  /\ UNCHANGED <<ringVars, queueVars, workVars, published, main_running>>

(* The wait for a job: its predicate also ends it when main_running is 0,  *)
(* for which nobody notifies.                                              *)
TakePreprocessed ==
  /\ pc["inf"] = "work"
  /\ \/ /\ ~main_running
        /\ Goto("inf", "exit")
        /\ UNCHANGED <<preprocess_inference_queue, job>>
     \/ /\ main_running /\ preprocess_inference_queue = <<>>
        /\ Goto("inf", "asleep")
        /\ UNCHANGED <<preprocess_inference_queue, job>>
     \/ /\ main_running /\ preprocess_inference_queue # <<>>
        /\ job' = [job EXCEPT !["inf"] = Head(preprocess_inference_queue)]
        /\ preprocess_inference_queue' = Tail(preprocess_inference_queue)
        /\ Goto("inf", "publish")
  /\ UNCHANGED <<ringVars, inference_postprocess_queue, preprocessed, resize_output,
                 tensors, doneVars>>

(* run_inference() reads the image into the tensors and invokes the model, *)
(* or fails, and the loop starts again.                                    *)
RunInference ==
  /\ pc["inf"] = "publish"
  /\ tensors' = [frame  |-> job["inf"].metadata,
                 pixels |-> IF job["inf"].preprocessed_image = Shared
                              THEN resize_output
                              ELSE job["inf"].preprocessed_image]
  /\ \/ Goto("inf", "push")
     \/ Goto("inf", "loop")
  /\ UNCHANGED <<ringVars, queueVars, preprocessed, resize_output, job, doneVars>>

PushResult ==
  /\ pc["inf"] = "push"
  /\ inference_postprocess_queue' = Push(inference_postprocess_queue, job["inf"])
  /\ GotoAndWake("inf", "trim", "post", "asleep", "work")
  /\ UNCHANGED <<ringVars, preprocess_inference_queue, workVars, doneVars>>

(* A queue over the limit loses its oldest frame.                          *)
DropOldest(q) == IF Len(q) > QueueLimit THEN Tail(q) ELSE q

(* Both queues are cut down to the limit, without their mutexes, the first *)
(* before the second.                                                      *)
Trim ==
  /\ pc["inf"] = "trim"
  /\ preprocess_inference_queue' = DropOldest(preprocess_inference_queue)
  /\ inference_postprocess_queue' =
       IF Len(preprocess_inference_queue) > QueueLimit
         THEN inference_postprocess_queue
         ELSE DropOldest(inference_postprocess_queue)
  /\ IF queueVars' = queueVars THEN Goto("inf", "await") ELSE UNCHANGED pc
  /\ UNCHANGED <<ringVars, workVars, doneVars>>

(* The wait for postprocess_finish.  "post" sets it and notifies without   *)
(* the mutex, so both can fall between the look at the flag and the sleep. *)
AwaitPostprocess ==
  /\ pc["inf"] = "await"
  /\ IF postprocess_finish THEN Goto("inf", "loop") ELSE Goto("inf", "block")
  /\ UNCHANGED <<ringVars, queueVars, workVars, doneVars>>

Block ==
  /\ pc["inf"] = "block"
  /\ Goto("inf", "asleep2")
  /\ UNCHANGED <<ringVars, queueVars, workVars, doneVars>>

-----------------------------------------------------------------------------
(* postprocess_worker                                                      *)

EnterPostprocess ==
  /\ pc["post"] = "loop"
  /\ main_running
  /\ Goto("post", "work")
  /\ UNCHANGED <<ringVars, queueVars, workVars, doneVars>>

TakeResult ==
  /\ pc["post"] = "work"
  /\ \/ /\ ~main_running
        /\ Goto("post", "exit")
        /\ UNCHANGED <<inference_postprocess_queue, job>>
     \/ /\ main_running /\ inference_postprocess_queue = <<>>
        /\ Goto("post", "asleep")
        /\ UNCHANGED <<inference_postprocess_queue, job>>
     \/ /\ main_running /\ inference_postprocess_queue # <<>>
        /\ job' = [job EXCEPT !["post"] = Head(inference_postprocess_queue)]
        /\ inference_postprocess_queue' = Tail(inference_postprocess_queue)
        /\ Goto("post", "publish")
  /\ UNCHANGED <<ringVars, preprocess_inference_queue, preprocessed, resize_output,
                 tensors, doneVars>>

(* The model's worker(): reads the tensors, draws on the output image and  *)
(* publishes both, or fails.                                               *)
PublishResult ==
  /\ pc["post"] = "publish"
  /\ \/ published' = [frame  |-> job["post"].metadata,
                      image  |-> IF job["post"].output_image = Shared
                                   THEN pixels[job["post"].slot]
                                   ELSE job["post"].output_image,
                      result |-> tensors.pixels]
     \/ UNCHANGED published
  /\ Goto("post", "finish")
  /\ UNCHANGED <<ringVars, queueVars, workVars, postprocess_finish, main_running>>

FlagFinished ==
  /\ pc["post"] = "finish"
  /\ postprocess_finish' = TRUE
  /\ Goto("post", "notify")
  /\ UNCHANGED <<ringVars, queueVars, workVars, published, main_running>>

NotifyFinished ==
  /\ pc["post"] = "notify"
  /\ GotoAndWake("post", "loop", "inf", "asleep2", "await")
  /\ UNCHANGED <<ringVars, queueVars, workVars, doneVars>>

-----------------------------------------------------------------------------
(* Stopping                                                                *)

(* The signal handler clears main_running.                                 *)
Signal ==
  /\ MayStop
  /\ main_running
  /\ main_running' = FALSE
  /\ Goto("main", "stopping")
  /\ UNCHANGED <<ringVars, queueVars, workVars, postprocess_finish, published>>

(* The camera pipe is closed, which waits for a callback in progress; then *)
(* cond_var is notified, and only that, and main joins the threads.        *)
StopAndJoin ==
  /\ pc["main"] = "stopping"
  /\ pc["cam"] = "loop"
  /\ pc' = [pc EXCEPT !["main"] = "join", !["cam"] = "exit",
                      !["pre"] = IF @ = "asleep" THEN "loop" ELSE @]
  /\ UNCHANGED <<ringVars, queueVars, workVars, doneVars>>

(* A thread that finds main_running at 0 at the top of its loop returns.   *)
Leave(t) ==
  /\ pc[t] = "loop"
  /\ ~main_running
  /\ Goto(t, "exit")
  /\ UNCHANGED <<ringVars, queueVars, workVars, doneVars>>

Exit ==
  /\ pc["main"] = "join"
  /\ \A t \in Workers : pc[t] = "exit"
  /\ Goto("main", "exit")
  /\ UNCHANGED <<ringVars, queueVars, workVars, doneVars>>

-----------------------------------------------------------------------------
Camera == ReceiveFrame \/ CopyPixels \/ PublishFrame
Preprocessor == TakeFrame \/ NoFrame \/ Park \/ Preprocess \/ PushPreprocessed \/ Leave("pre")
Inference ==
  \/ BeginInferenceLoop \/ TakePreprocessed \/ RunInference \/ PushResult \/ Trim
  \/ AwaitPostprocess \/ Block \/ Leave("inf")
Postprocessor ==
  \/ EnterPostprocess \/ TakeResult \/ PublishResult \/ FlagFinished
  \/ NotifyFinished \/ Leave("post")
Main == StopAndJoin \/ Exit

Next == Camera \/ Preprocessor \/ Inference \/ Postprocessor \/ Signal \/ Main

Spec == Init /\ [][Next]_vars

(* Every thread that can run does; a callback that has begun returns.      *)
FairSpec ==
  /\ Spec
  /\ WF_vars(CopyPixels \/ PublishFrame)
  /\ WF_vars(Preprocessor)
  /\ WF_vars(Inference)
  /\ WF_vars(Postprocessor)
  /\ WF_vars(Main)

-----------------------------------------------------------------------------
(* The interpreter's tensors hold one result: while it is postprocessed no *)
(* other inference has written to them (the reason for postprocess_finish).*)
TensorsHeld ==
  pc["post"] = "publish" => tensors.frame = job["post"].metadata

(* At most one frame is between inference and the end of postprocessing:   *)
(* a result, once computed, is never dropped for a newer one.              *)
OneResultInFlight ==
  Len(inference_postprocess_queue)
    + (IF pc["post"] \in {"publish", "finish"} THEN 1 ELSE 0)
    + (IF pc["inf"] = "push" THEN 1 ELSE 0) <= 1

(* What is published belongs together: the metadata, the image and the     *)
(* detections are those of one frame.                                      *)
PublishedMatches ==
  published.frame = published.image /\ published.frame = published.result

(* Results are published in the order of their frames, each at most once,  *)
(* however many frames are dropped on the way.                             *)
PublishedInOrder == [][published' # published => published'.frame > published.frame]_vars

(* The frames in the ring, and whether a result waits to be published.     *)
RingFrames == {metadata[s] : s \in Slots}

ResultPending ==
  \/ pc["inf"] = "push"
  \/ inference_postprocess_queue # <<>>
  \/ pc["post"] = "publish"

Stream == INSTANCE DetectionStream
  WITH ring <- RingFrames, taken <- tensors.frame, pending <- ResultPending,
       out <- published

(* The program is a filter on the frames: one frame at a time, each newer  *)
(* than the last, which the camera does not write over before its result   *)
(* is published with it or given up, whatever the threads do, fail, drop   *)
(* or leave when the program stops.                                        *)
StreamSpec == Stream!Spec

(* The image that goes through the model is the one that was queued ("it   *)
(* populates the preprocessed frame into the inference queue",             *)
(* inference_handler.cpp).                                                 *)
QueuedImageIsUsed == tensors.pixels = tensors.frame

(* Each queue holds at most QUEUE_LIMIT images (CHANGELOG 0.4.0, "default  *)
(* max size 1"), with one more allowed for the one just pushed.            *)
QueuesWithinLimit ==
  /\ Len(preprocess_inference_queue) <= QueueLimit + 1
  /\ Len(inference_postprocess_queue) <= QueueLimit + 1

(* Liveness: a preprocessed frame is dealt with by the inference worker:   *)
(* it is run through the model, or dropped for a newer one.                *)
InQueue(n) ==
  \E k \in 1 .. Len(preprocess_inference_queue) : preprocess_inference_queue[k].metadata = n
FramesDealtWith == \A n \in Numbers \ {0} : InQueue(n) ~> ~InQueue(n)

(* Liveness: after SIGINT or SIGTERM the program exits ("so we can exit    *)
(* cleanly", main.cpp).                                                    *)
ExitsCleanly == ~main_running ~> pc["main"] = "exit"
=============================================================================
