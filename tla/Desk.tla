--------------------------------- MODULE Desk ---------------------------------
(***************************************************************************)
(* The parts of the desk around the ledger that take it into positions,    *)
(* side by side: what a situation is worth (Sizing), the ways into a       *)
(* position (Entries), the AI (AiDesk), the guards of the router           *)
(* (ClaimGuards) and the followed wallets (CopyTracker).                   *)
(*                                                                         *)
(* In the code they meet in the decision cycle, which runs one of them at  *)
(* a time, and share no state but what each of these modules models of the *)
(* others as its environment.  So a behaviour is one of one part, chosen   *)
(* at the start; the others stay as they begin.                            *)
(***************************************************************************)
EXTENDS Entries, AiDesk, ClaimGuards, CopyTracker

VARIABLE part

deskVars == <<part, sizingVars, entriesVars, aiVars, claimVars, copyVars>>

Parts == {"sizing", "entries", "ai", "claims", "copies"}

DeskInit ==
    /\ part \in Parts
    /\ IF part = "sizing" THEN SizingInit ELSE sit = [allocated |-> 0] /\ orders = [s \in Ensemble |-> 0]
    /\ EntriesInit /\ (part # "entries" => auto)
    /\ AiInit      /\ (part # "ai" => autonomy = "auto")
    /\ GuardsInit  /\ (part # "claims" => setup.redis /\ setup.db /\ setup.live)
    /\ CopyInit

SizingStep   == part = "sizing"   /\ SizingNext
                /\ UNCHANGED <<part, entriesVars, aiVars, claimVars, copyVars>>
EntriesStep  == part = "entries"  /\ EntriesNext
                /\ UNCHANGED <<part, sizingVars, aiVars, claimVars, copyVars>>
AiStep       == part = "ai"       /\ AiNext
                /\ UNCHANGED <<part, sizingVars, entriesVars, claimVars, copyVars>>
ClaimsStep   == part = "claims"   /\ GuardsNext
                /\ UNCHANGED <<part, sizingVars, entriesVars, aiVars, copyVars>>
CopyStep     == part = "copies"   /\ CopyNext
                /\ UNCHANGED <<part, sizingVars, entriesVars, aiVars, claimVars>>
DeskNext == SizingStep \/ EntriesStep \/ AiStep \/ ClaimsStep \/ CopyStep

DeskSpec == DeskInit /\ [][DeskNext]_deskVars
=============================================================================
