------------------------- MODULE MCConsumerAdmission -------------------------
(* The instance of ConsumerAdmission that TLC checks.                         *)
EXTENDS ConsumerAdmission

MCArchives == {"cli", "runtime"}

\* The second build is a rerun of the pinned commit, the third a moved tag's.
MCOfPinned == {1, 2}

\* One upload replaces a file without its bundle, an asset with its bundle, or
\* all that the release has.
MCUploads ==
    {{<<"runtime", "file">>}, {"cli", "runtime", "table", "proof"} \X Parts}
        \cup {{f} \X Parts : f \in {"runtime", "table"}}
=============================================================================
