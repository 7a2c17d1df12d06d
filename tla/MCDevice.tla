------------------------------ MODULE MCDevice ------------------------------
(* Machines with one or two platforms, some without a device, for TLC. *)
EXTENDS Device

MCWorlds == {<< <<{"CPU"}, {"GPU"}>>, <<{"GPU"}, {"CPU"}, {"GPU"}>> >>,
             << <<{"GPU", "DEFAULT"}>>, <<{"CPU"}, {"GPU"}, {"CPU"}>> >>,
             << <<{"GPU"}>>, << >> >>}
MCTypes == {{"GPU"}, {"CPU"}}
=============================================================================
