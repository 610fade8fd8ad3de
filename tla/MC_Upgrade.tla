----------------------------- MODULE MC_Upgrade -----------------------------
(* Lists of up to two releases for TLC, in any order of their versions. *)
EXTENDS Upgrade

MCVersions == {0, 2, 3}
MCReleases ==
    {r \in [version : MCVersions, prerelease : BOOLEAN,
            assets : {{"checksums", "binary"}, {"binary"}}] :
        r.assets = {"binary"} => r.version = 3}

MCReleaseLists == UNION {[1 .. n -> MCReleases] : n \in 0 .. 2}
=============================================================================
