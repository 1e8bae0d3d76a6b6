----------------------------- MODULE MCPersistence ----------------------------
(* Persistence for TLC: uuids, and texts with all special characters. *)
EXTENDS Persistence

MCUuids == << "1", "2", "3", "4", "5" >>
MCTexts == << << Quote, Blank, Backslash >>, << Backslash, Quote >>, << "a" >>,
              << Blank, "a" >>, << "a", "a" >> >>
MCNow == << "1", "2" >>
===============================================================================
