------------------------------- MODULE MCLink -------------------------------
(***************************************************************************)
(* Instance of Link for TLC: one image of two bytes sent in one chunk.     *)
(***************************************************************************)
EXTENDS Link, SequencesExt

MCHash(body) == FoldSeq(LAMBDA b, sum : (b + sum) % 2, 0, body)
MCFactoryImage == <<0, 0>>

Payload(size, sha, offset, data) ==
    [ well_formed |-> TRUE, firmware_size |-> size, sha256 |-> sha,
      offset |-> offset, data |-> data ]
Empty == Payload(0, 0, 0, <<>>)

Plain(cmd) == [cmd |-> cmd, payload |-> Empty]

\* run_update_begin, run_update_data and run_update_end on the image <<1, 1>>.
Update ==
    << [cmd |-> "OTA_BEGIN", payload |-> Payload(2, 1, 0, <<>>)],
       [cmd |-> "OTA_DATA",  payload |-> Payload(0, 0, 0, <<1, 1>>)],
       Plain("OTA_END") >>

AllOperations ==
    {Update, <<Plain("REBOOT")>>, <<Plain("ROLLBACK")>>, <<Plain("OTA_ABORT")>>,
     <<Plain("PING")>>}
=============================================================================
