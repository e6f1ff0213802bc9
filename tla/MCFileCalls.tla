---------------------------- MODULE MCFileCalls ----------------------------
(***************************************************************************)
(* Values for model-checking FileCalls: two devices, a file system mounted *)
(* on "/fs/", one mounted below it on "/fs/a", and names that are, extend  *)
(* or merely resemble theirs, one of them written with a final slash.      *)
(***************************************************************************)
EXTENDS FileCalls, TLC

fs == <<"f">>
a == <<"a">>
dv == <<"d">>

MCDevPath == "null" :> <<dv, a>> @@ "uart" :> <<dv>>
MCMountPath == "fs" :> <<fs>> @@ "disk" :> <<fs, a>>
MCPaths == {<<dv>>, <<dv, a>>, <<fs>>, <<fs, a>>, <<fs, <<"a", "b">>>>, <<fs, a, dv>>,
            <<<<"f", "b">>>>, <<fs, <<>>>>}
MCStdPath == 0 :> <<dv>> @@ 1 :> <<dv>> @@ 2 :> <<fs, a>>
=============================================================================
