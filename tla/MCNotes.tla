------------------------------ MODULE MCNotes ------------------------------
(* From fetched messages to a chat file: the pipeline that processes and   *)
(* writes them in order (AsyncPipeline), with two workers, so that results *)
(* can overtake each other; and what the processing of a message makes of  *)
(* its sender and its media (MessageNotes), with three messages in every   *)
(* setting and a download queue that can jam.  They share no state here; a *)
(* behaviour is one of the component that "which" names, with fairness for *)
(* that component.                                                         *)
EXTENDS AsyncPipeline

CONSTANTS N, Senders, batch_size, max_concurrent, max_queue_size, max_workers,
          MaxFaults

VARIABLES which,
          message, config, _sender_name_cache, first, pc, name, reference,
          text, queue, retrying, working, _pending_tasks, gave_up, file,
          notes_written, phase, faults

notesVars == <<message, config, _sender_name_cache, first, pc, name, reference,
               text, queue, retrying, working, _pending_tasks, gave_up, file,
               notes_written, phase, faults>>

Notes == INSTANCE MessageNotes WITH written <- notes_written

ASSUME NotesBounds == Notes!NotesAssumption

(* A component that does not run rests in one of its initial states.       *)
NotesRest ==
  /\ message = [m \in 1 .. N |-> [sender |-> CHOOSE s \in Senders : TRUE,
                                  attached |-> TRUE, media |-> "none"]]
  /\ config.loop = "pipeline" /\ ~config.media_download /\ ~config.transcription

(* The first message has any media and may lack its sender's entity; the   *)
(* others compete with it for the queues.                                  *)
NotesInit ==
  /\ Init /\ Notes!Init
  /\ \/ which = "pipeline" /\ NotesRest
     \/ /\ which = "notes"
        /\ \A m \in 2 .. N :
             message[m].attached /\ message[m].media \in {"none", "voice"}

OfPipeline(A) == which = "pipeline" /\ A /\ UNCHANGED <<which, notesVars>>
OfNotes(A)    == which = "notes" /\ A /\ UNCHANGED <<which, vars>>

NotesNext == OfPipeline(Next) \/ OfNotes(Notes!Next)

NotesSpec ==
  /\ NotesInit /\ [][NotesNext]_<<which, vars, notesVars>>
  /\ WF_<<which, vars>>(OfPipeline(Fetcher))
  /\ \A w \in Workers : WF_<<which, vars>>(OfPipeline(Worker(w)))
  /\ WF_<<which, vars>>(OfPipeline(Writer))
  /\ WF_<<which, vars>>(OfPipeline(Main))
  /\ WF_<<which, notesVars>>(OfNotes(Notes!Main \/ Notes!Background
                                       \/ \E m \in 1 .. N : Notes!Process(m)))

(* A processed message of a run that is not aborted is settled in the end. *)
PipelineSettles == which = "pipeline" => ProcessedIsSettled

(* A run of the pipeline nobody asks to shut down comes to an end.         *)
PipelineEnds == which = "pipeline" => EndsWithoutShutdown

(* What a note says of its file is true when the export is over.           *)
NoteTellsFile == Notes!NoteTellsFile

(* Every message comes into the chat file, unless the downloads jam.       *)
EveryNoteWritten == which = "notes" => Notes!EveryNoteWritten
=============================================================================
