-------------------------- MODULE PlacementValues --------------------------
(***************************************************************************)
(* The two model values placement is written with, shared by the          *)
(* placement model and the scenarios' statements.                          *)
(***************************************************************************)
CONSTANTS
    DefaultAlloc,   \* the allocator a MobilityHelper has when given none
    NoBounds        \* bounds of a model that has none (ConstantPosition)
=============================================================================
