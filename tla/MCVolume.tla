------------------------------ MODULE MCVolume ------------------------------
EXTENDS VolumeTools

MCPrograms == {Object("zex", 1)}
MCSeedLists ==
    {<<[path |-> Metadata, data |-> Content("zrm", 1, ObjectBytes)]>>,
     <<[path |-> <<"packages", "hello.zpk">>, data |-> Content("zpk", 1, ObjectBytes)]>>}
MCPackages == {Content("zpk", 1, 2)}
MCTornAt == {13}
MCAuditEvents == {<<"block", FALSE>>}
=============================================================================
