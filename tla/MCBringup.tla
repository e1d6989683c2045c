------------------------------ MODULE MCBringup ------------------------------
(***************************************************************************)
(* The bring-up programs: clocks and resets, the boot ladder, polling a    *)
(* device, its power handshake, the link.  Each is a program of its own    *)
(* (check-sol runs one after another), so a behaviour runs one of them and *)
(* the others stay at one of their initial states.                         *)
(***************************************************************************)
EXTENDS ClockReset, BringupLadder, RegisterPoll, PmStep, Ltssm

CONSTANT Running        (* the programs                                    *)
ASSUME RunningAssumption ==
    Running = {"mux", "divider", "reset", "ladder", "poll", "pm", "link"}

VARIABLE running

Init ==
    /\ running \in Running
    /\ MuxInit
    /\ DividerInit /\ (running # "divider" => n = 2)
    /\ ResetInit   /\ (running # "reset" => order = [d \in Domains |-> d])
    /\ LadderInit  /\ (running # "ladder" => max_retries = 0)
    /\ PollInit    /\ (running # "poll" => program = csr_init /\ ctrl = {}
                                                             /\ status = {})
    /\ PmInit      /\ (running # "pm" => state = "PM_IDLE")
    /\ LtssmInit

Only(name, others) == running = name /\ UNCHANGED <<running, others>>

Next ==
    \/ MuxNext /\ Only("mux", <<dividerVars, resetVars, ladderVars, pollVars,
                                pmVars, ltssmVars>>)
    \/ DividerNext /\ Only("divider", <<muxVars, resetVars, ladderVars,
                                        pollVars, pmVars, ltssmVars>>)
    \/ ResetNext /\ Only("reset", <<muxVars, dividerVars, ladderVars,
                                    pollVars, pmVars, ltssmVars>>)
    \/ LadderNext /\ Only("ladder", <<muxVars, dividerVars, resetVars,
                                      pollVars, pmVars, ltssmVars>>)
    \/ PollNext /\ Only("poll", <<muxVars, dividerVars, resetVars,
                                  ladderVars, pmVars, ltssmVars>>)
    \/ PmNext /\ Only("pm", <<muxVars, dividerVars, resetVars, ladderVars,
                              pollVars, ltssmVars>>)
    \/ LtssmNext /\ Only("link", <<muxVars, dividerVars, resetVars,
                                   ladderVars, pollVars, pmVars>>)

vars == <<running, muxVars, dividerVars, resetVars, ladderVars, pollVars,
          pmVars, ltssmVars>>

FairSpec == Init /\ [][Next]_vars /\ PmFairness

==============================================================================
