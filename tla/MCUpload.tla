------------------------------ MODULE MCUpload ------------------------------
\* An instance of Upload: the file is edited from two packets to three, to one;
\* its dates are an ordinary one, the first the protocol cannot carry, an old one.
EXTENDS Upload
MCChunks  == <<2, 3, 1>>
MCDates   == <<5, 8, -3>>
MCOneFile == <<1>>
MCBefore1970 == <<-3>>
=============================================================================
