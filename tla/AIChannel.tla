------------------------------ MODULE AIChannel ------------------------------
(***************************************************************************)
(* An AI channel with variables of its own, so that it can be used beside  *)
(* a traditional channel: a program has channels of both kinds.            *)
(***************************************************************************)
EXTENDS AIConstants

VARIABLES
  online, runType, images, groupHash, groups, aiInference, answers,
  aiHistory  \* history of AICtrl

AI == INSTANCE AICtrl WITH history <- aiHistory

AISpec == AI!Spec
AIFairSpec == AI!FairSpec

Served == INSTANCE Answering
            WITH asked <- aiHistory.taken,
                 answered <- [k \in DOMAIN answers |-> AI!AnsweredImage(answers[k])]

(* The channel keeps the promise of Answering, which ImageMultipler builds on:
   only images that it took are answered, each once, those of a group together. *)
AnswersWhatIsAsked == Served!Spec

(* Every image taken is in one place, and is answered at most once. *)
NoImageLostOrDoubled == AI!NoImageLostOrDoubled

(* A group sent before its time has an image of every camera on line. *)
SentTogether == AI!SentTogether

(* Every image is eventually answered. *)
ImagesAnswered == AI!ImagesAnswered
=============================================================================
