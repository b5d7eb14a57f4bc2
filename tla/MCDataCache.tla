---------------------------- MODULE MCDataCache ----------------------------
(* One age with a page, the SecurePreloader and one client type.  Each     *)
(* kind of file there is: listed by every manifest or by one, compressed   *)
(* or not, secure, and referred to by a page without being looked for.     *)
EXTENDS DataCache

MCContent  == {"torn", "void", "plain", "sealed", "old", "new"}
MCCipher   == [c \in MCContent |->
                 CASE c = "plain" -> "sealed" [] c = "torn" -> "void" [] OTHER -> c]
MCStages   == <<<<"Age">>, <<"Secure">>, <<"Thin", "Full">>>>
MCManifest == {"Age", "Secure", "Thin", "Full"}
MCGate     == <<{}, {}, {"client"}>>
MCWants    == [m \in MCManifest |->
                 CASE m = "Age"    -> {"prp"}
                   [] m = "Secure" -> {"sdl", "pak"}
                   [] m = "Thin"   -> {"sdl"}
                   [] m = "Full"   -> {"sdl", "prp", "ogg"} \cap File]
MCRefs     == [m \in MCManifest |-> IF m = "Age" THEN {"ogg"} \cap File ELSE {}]
MCInitial  == [f \in File |->
                 CASE f = "prp" -> "old" [] f = "sdl" -> "plain"
                   [] f = "ogg" -> "absent" [] f = "pak" -> "absent"
                   [] f = "client" -> "dir"]
MCEdits    == [f \in File |->
                 CASE f = "prp" -> {"old", "new", "absent"}
                   [] f = "sdl" -> {"plain"}
                   [] f = "ogg" -> {"new", "dir"}
                   [] f = "pak" -> {"old"}
                   [] f = "client" -> {"absent", "dir"}]
=============================================================================
