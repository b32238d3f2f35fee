----------------------------- MODULE EspResult -----------------------------
(***************************************************************************)
(* src/espbase/esp_result.hpp: an ESP-IDF error code, or a value.          *)
(* EspResult<void> and EspError are plain error codes here; of the two     *)
(* only the sense of operator bool differs.                                *)
(***************************************************************************)

NoValue == "no value"

\* EspResult<T>::ok, and its implicit constructor from a T.
Ok(value) == [err |-> "ESP_OK", value |-> value]

\* EspResult<T>::fail: never a success, whatever the code.
Fail(err) == [err |-> IF err = "ESP_OK" THEN "ESP_FAIL" ELSE err, value |-> NoValue]

\* The operators bool: of a result, and of an EspError.
IsOk(result) == result.err = "ESP_OK"
IsError(err) == err # "ESP_OK"
=============================================================================
