--------------------------- MODULE MCTestnetBot ---------------------------
(* The bot's process, and the set-up of its accounts, on small instances:  *)
(* a behaviour picks one of the two and stays with it.                     *)
EXTENDS TestnetBot, BotSetup

VARIABLE part  \* "process" or "setup"

botVars == <<part, vars, setupVars>>

MCBotInit == part \in {"process", "setup"} /\ Init /\ SetupInit
MCBotNext ==
  /\ \/ part = "process" /\ Next /\ UNCHANGED setupVars
     \/ part = "setup" /\ SetupNext /\ UNCHANGED vars
  /\ UNCHANGED part

MCBotSpec == MCBotInit /\ [][MCBotNext]_botVars /\ BotFairness
=============================================================================
