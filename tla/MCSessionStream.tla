-------------------------- MODULE MCSessionStream --------------------------
(***************************************************************************)
(* SessionStream on small instances: which frames the phone may send.      *)
(***************************************************************************)
EXTENDS SessionStream

Budget(start, chunk, end, odd) ==
    [kind \in {"start", "chunk", "badChunk", "end", "metrics", "serverFrame",
              "invalid", "notJson"} |->
        CASE kind = "start" -> start
          [] kind = "chunk" -> chunk
          [] kind = "end"   -> end
          [] OTHER          -> odd]

\* Every kind of frame, one utterance.
MCAnyFrames      == Budget(2, 1, 1, 1)
\* Two utterances whose audio a bad chunk may interrupt.
MCBothUtterances == [Budget(1, 2, 2, 0) EXCEPT !["badChunk"] = 1]
============================================================================
