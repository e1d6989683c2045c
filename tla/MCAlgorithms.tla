---------------------------- MODULE MCAlgorithms ----------------------------
(***************************************************************************)
(* The programs that compute: detectors, synchroniser and backlog, words.  *)
(* As in MCBringup a behaviour runs one of them.                           *)
(***************************************************************************)
EXTENDS SeqDetect, ToggleSync, BitLoops

VARIABLE running

vars == <<running, seqVars, safeFsmVars, toggleVars, backlogVars, wordVars,
          loopVars>>

Init ==
    /\ running \in {"detect", "safe", "toggle", "backlog", "words", "loops"}
    /\ SeqInit    /\ (running # "detect" => plen = 1 /\ pattern = 0)
    /\ SafeFsmInit
    /\ ToggleInit /\ (running # "toggle" => dest_div = 2 /\ clocks = 0)
    /\ BacklogInit
    /\ WordsInit  /\ (running # "words" => operand = {} /\ second = {})
    /\ LoopInit   /\ (running # "loops" => /\ loop = "popcount_kern"
                                           /\ argument = {} /\ size = 0)
                  /\ (loop \in {"xor_unique", "xor_missing"} => argument = {})
                  /\ (loop \notin {"xor_unique", "xor_missing"} => size = 0)

Only(name, others) == running = name /\ UNCHANGED <<running, others>>

Next ==
    \/ SeqNext /\ Only("detect", <<safeFsmVars, toggleVars, backlogVars,
                                   wordVars, loopVars>>)
    \/ SafeFsmNext /\ Only("safe", <<seqVars, toggleVars, backlogVars,
                                     wordVars, loopVars>>)
    \/ ToggleNext /\ Only("toggle", <<seqVars, safeFsmVars, backlogVars,
                                      wordVars, loopVars>>)
    \/ BacklogNext /\ Only("backlog", <<seqVars, safeFsmVars, toggleVars,
                                        wordVars, loopVars>>)
    \/ WordsNext /\ Only("words", <<seqVars, safeFsmVars, toggleVars,
                                    backlogVars, loopVars>>)
    \/ LoopNext /\ Only("loops", <<seqVars, safeFsmVars, toggleVars,
                                   backlogVars, wordVars>>)

Spec == Init /\ [][Next]_vars

(* Second arguments: 0, all ones, every other bit.                         *)
MCSeconds == {{}, W32, Lower(1)}

(* No bit, one at either end, all, and some in between.                    *)
MCArguments == {{}, {0}, {31}, W32, {5, 12, 30}, Lower(1)}

(* The numbers an array of four may miss, and one it may not hold.         *)
MCValues == {{}, {0}, {1}, {0, 1}, {31}}
==============================================================================
