------------------------------ MODULE MCLibrary ------------------------------
(***************************************************************************)
(* MCRag, MCTools and Splitters in one specification: a behaviour is one   *)
(* of one of their components, the others stay at rest.                    *)
(***************************************************************************)
EXTENDS MCRag, MCTools

CONSTANTS DefaultSize, PlaceholderLen, NoText

VARIABLES call, doc, sem, result

splitVars == <<call, doc, sem, result>>

Texts == INSTANCE MCText
Splits == INSTANCE Splitters WITH Calls <- Texts!MCCalls

NoSplit ==
    call = [strategy |-> "none"] /\ doc = Splits!Unread /\ sem = Splits!Idle /\ result = Splits!Pending

LibraryInit ==
    \/ tool = "none" /\ ToolsInit /\ RagInit /\ part # "none" /\ NoSplit
    \/ part = "none" /\ RagInit /\ ToolsInit /\ tool # "none" /\ NoSplit
    \/ part = "none" /\ tool = "none" /\ RagInit /\ ToolsInit /\ Splits!SplitInit

LibraryNext ==
    \/ RagNext /\ UNCHANGED <<toolsVars, splitVars>>
    \/ ToolsNext /\ UNCHANGED <<ragVars, splitVars>>
    \/ /\ call.strategy # "none" /\ Splits!SplitNext
       /\ UNCHANGED <<ragVars, toolsVars>>

LibrarySpec == LibraryInit /\ [][LibraryNext]_<<ragVars, toolsVars, splitVars>>

\* The properties of Splitters.
SplitWell == Splits!SplitWell
PartsKeptTogether == Splits!PartsKeptTogether
==============================================================================
