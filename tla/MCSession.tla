------------------------------- MODULE MCSession -------------------------------
(* Phones whose front camera has no preset for 1080p, with and without a back   *)
(* camera, and one without a front camera.                                      *)
EXTENDS Session, TLC

Full == {"352x288", "640x480", "1280x720", "1920x1080"}
HD   == {"352x288", "640x480", "1280x720"}

MCPhones == {"back" :> Full @@ "front" :> HD, "front" :> HD,
             "back" :> Full}
=============================================================================
